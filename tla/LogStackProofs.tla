---------------------------- MODULE LogStackProofs ----------------------------
(***************************************************************************)
(* Log lines are attributed correctly for any programs and nesting.         *)
(***************************************************************************)
EXTENDS LogStack, SequenceTheorems, TLAPS

\* The two stacks agree while the log is complete.
StacksAgree == ~truncated => instructionPath = running

\* What the stack operations return.
LEMMA StackOps ==
  ASSUME NEW s \in Seq(Programs)
  PROVE  /\ Pop(s) \in Seq(Programs)
         /\ Len(Pop(s)) <= Len(s)
         /\ Top(s) \in Programs \cup {Undefined}
         /\ s # <<>> => Top(s) \in Programs
<1>1. CASE s = <<>>
  BY <1>1 DEF Pop, Top
<1>2. CASE s # <<>>
  <2>1. Len(s) \in Nat \ {0}
    BY <1>2, EmptySeq
  <2>2. Top(s) \in Programs
    BY <1>2, <2>1, ElementOfSeq DEF Top
  <2>3. /\ SubSeq(s, 1, Len(s) - 1) \in Seq(Programs)
        /\ Len(SubSeq(s, 1, Len(s) - 1)) <= Len(s)
    <3>1. Len(s) - 1 \in Int /\ \A i \in 1..(Len(s) - 1) : s[i] \in Programs
      BY <2>1, ElementOfSeq
    <3>2. /\ SubSeq(s, 1, Len(s) - 1) \in Seq(Programs)
          /\ Len(SubSeq(s, 1, Len(s) - 1)) =
               IF 1 <= Len(s) - 1 THEN Len(s) - 1 - 1 + 1 ELSE 0
      BY <3>1, SubSeqProperties
    <3>. QED
      BY <2>1, <3>2
  <2>. QED
    BY <1>2, <2>1, <2>2, <2>3 DEF Pop
<1>. QED
  BY <1>1, <1>2

\* A message that is pushed has the type of a message.
LEMMA PushedIsMessage ==
  ASSUME TypeOK, running # <<>>, NEW type \in Types
  PROVE  [programId |-> Top(instructionPath), logIndex |-> lines, type |-> type,
          author |-> Top(running), complete |-> ~truncated] \in Messages
<1>1. Top(instructionPath) \in Programs \cup {Undefined} /\ Top(running) \in Programs
  BY StackOps DEF TypeOK
<1>2. lines \in Nat
  BY LogConstants DEF TypeOK
<1>3. (~truncated) \in BOOLEAN
  OBVIOUS
<1>. QED
  BY <1>1, <1>2, <1>3 DEF Messages

LEMMA LogTypeStep == TypeOK /\ [Next]_vars => TypeOK'
<1>. SUFFICES ASSUME TypeOK, [Next]_vars PROVE TypeOK'
  OBVIOUS
<1>. USE LogConstants
<1>1. CASE Invoke
  <2>1. PICK p \in Programs :
          /\ Len(running) < MaxDepth
          /\ running' = Append(running, p)
          /\ Line(OnInvoke(p))
    BY <1>1 DEF Invoke
  <2>2. running' \in Seq(Programs) /\ Len(running') <= MaxDepth
    BY <2>1 DEF TypeOK
  <2>3. Append(instructionPath, p) \in Seq(Programs)
    BY DEF TypeOK
  <2>4. lines' \in 0..MaxLines /\ UNCHANGED <<truncated, res, thrown>>
    BY <2>1 DEF Line, OnInvoke, TypeOK
  <2>5. instructionPath' \in {instructionPath, Append(instructionPath, p)}
    BY <2>1 DEF Line, OnInvoke
  <2>. QED
    BY <2>2, <2>3, <2>4, <2>5 DEF TypeOK
<1>2. CASE Message
  <2>1. PICK type \in Types : running # <<>> /\ Line(PushMessage(type)) /\ UNCHANGED running
    BY <1>2 DEF Message
  <2>. DEFINE new == [programId |-> Top(instructionPath), logIndex |-> lines, type |-> type,
                      author |-> Top(running), complete |-> ~truncated]
  <2>2. new \in Messages
    BY <2>1, PushedIsMessage
  <2>3. res' \subseteq res \cup {new}
    BY <2>1 DEF Line, PushMessage
  <2>. HIDE DEF new
  <2>4. res' \subseteq Messages
    BY <2>2, <2>3 DEF TypeOK
  <2>5. UNCHANGED <<instructionPath, thrown, truncated, running>> /\ lines' \in 0..MaxLines
    BY <2>1 DEF Line, PushMessage, TypeOK
  <2>. QED
    BY <2>4, <2>5 DEF TypeOK
<1>3. CASE Success \/ Fail
  <2>1. running' \in Seq(Programs) /\ Len(running') <= MaxDepth
    BY <1>3, StackOps DEF Success, Fail, TypeOK
  <2>2. Pop(instructionPath) \in Seq(Programs)
    BY StackOps DEF TypeOK
  <2>. QED
    BY <1>3, <2>1, <2>2 DEF Success, Fail, Line, OnSuccess, OnFailed, TypeOK
<1>4. CASE Other \/ UnknownMode \/ Truncate
  <2>1. UNCHANGED <<running, instructionPath>> /\ res' \subseteq res
    BY <1>4 DEF Other, UnknownMode, Truncate, Line, OnOther, OnUnknownMode
  <2>2. lines' \in 0..MaxLines
    BY <1>4 DEF Other, UnknownMode, Truncate, Line, TypeOK
  <2>3. truncated' \in BOOLEAN /\ thrown' \in BOOLEAN
    BY <1>4, Zenon DEF Other, UnknownMode, Truncate, Line, OnOther, OnUnknownMode, TypeOK
  <2>. QED
    BY <2>1, <2>2, <2>3 DEF TypeOK
<1>5. CASE UNCHANGED vars
  BY <1>5 DEF vars, TypeOK
<1>. QED
  BY <1>1, <1>2, <1>3, <1>4, <1>5 DEF Next

\* The stack of wrapLogs only ever holds programs and what it returns is made of
\* messages, for any programs, depth and length of the log.
THEOREM LogTypeCorrect == Spec => []TypeOK
<1>1. Init => TypeOK
  <2>. SUFFICES ASSUME Init PROVE TypeOK
    OBVIOUS
  <2>1. <<>> \in Seq(Programs) /\ Len(<<>>) = 0
    OBVIOUS
  <2>2. truncated \in BOOLEAN /\ thrown \in BOOLEAN
    BY DEF Init
  <2>. QED
    BY <2>1, <2>2, LogConstants DEF Init, TypeOK
<1>. QED
  BY <1>1, LogTypeStep, PTL DEF Spec

LEMMA StacksAgreeStep == TypeOK /\ StacksAgree /\ [Next]_vars => StacksAgree'
<1>. SUFFICES ASSUME TypeOK, StacksAgree, [Next]_vars PROVE StacksAgree'
  OBVIOUS
<1>1. CASE Invoke
  BY <1>1 DEF Invoke, Line, OnInvoke, StacksAgree, TypeOK
<1>2. CASE Message
  BY <1>2 DEF Message, Line, PushMessage, StacksAgree, TypeOK
<1>3. CASE Success \/ Fail
  BY <1>3 DEF Success, Fail, Line, OnSuccess, OnFailed, StacksAgree, TypeOK
<1>4. CASE Other \/ UnknownMode \/ Truncate
  BY <1>4 DEF Other, UnknownMode, Truncate, Line, OnOther, OnUnknownMode, StacksAgree, TypeOK
<1>5. CASE UNCHANGED vars
  BY <1>5 DEF vars, StacksAgree
<1>. QED
  BY <1>1, <1>2, <1>3, <1>4, <1>5 DEF Next

LEMMA AttributedStep ==
  TypeOK /\ StacksAgree /\ Attributed /\ [Next]_vars => Attributed'
<1>. SUFFICES ASSUME TypeOK, StacksAgree, Attributed, [Next]_vars PROVE Attributed'
  OBVIOUS
<1>1. CASE Message
  <2>1. PICK type \in Types : Line(PushMessage(type))
    BY <1>1 DEF Message
  <2>. DEFINE new == [programId |-> Top(instructionPath), logIndex |-> lines, type |-> type,
                      author |-> Top(running), complete |-> ~truncated]
  <2>2. new.complete => new.programId = new.author
    BY DEF StacksAgree
  <2>3. res' \subseteq res \cup {new}
    BY <2>1 DEF Line, PushMessage
  <2>. HIDE DEF new
  <2>. QED
    BY <2>2, <2>3 DEF Attributed
<1>2. CASE ~Message
  <2>1. res' \subseteq res
    BY <1>2 DEF Next, vars, Invoke, Success, Fail, Other, UnknownMode, Truncate, Line,
                OnInvoke, OnSuccess, OnFailed, OnOther, OnUnknownMode
  <2>. QED
    BY <2>1 DEF Attributed
<1>. QED
  BY <1>1, <1>2

\* Every message of a complete log is attributed to the program that wrote it,
\* for any programs and any nesting of calls that succeed or fail: the stack of
\* wrapLogs is the runtime's.
THEOREM LogsAttributed == Spec => []Attributed
<1>1. Init => StacksAgree /\ Attributed
  BY DEF Init, StacksAgree, Attributed
<1>. QED
  BY <1>1, LogTypeCorrect, StacksAgreeStep, AttributedStep, PTL DEF Spec
===============================================================================
