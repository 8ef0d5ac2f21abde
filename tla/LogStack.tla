------------------------------- MODULE LogStack -------------------------------
(***************************************************************************)
(* wrapLogs: attributing the log lines of a transaction to programs.  A     *)
(* line does not say which program wrote it; wrapLogs finds out by keeping  *)
(* a stack of the programs that invoke, success and failed lines open and   *)
(* close.  The lines come from the runtime, which has the real stack.       *)
(* wrapLogs is a loop over the lines, so a step is: the runtime writes a    *)
(* line, the body of the loop handles it.                                   *)
(***************************************************************************)
EXTENDS Integers, Sequences

CONSTANTS
  Programs,   \* program ids
  Undefined,  \* instructionPath[-1]
  MaxLines,   \* bound on the lines of a transaction
  MaxDepth    \* bound on nested calls

ASSUME LogConstants ==
  /\ MaxLines \in Nat /\ MaxDepth \in Nat
  /\ Undefined \notin Programs

VARIABLES
  running,          \* the runtime's stack of programs
  truncated,        \* has the runtime reached the limit of the log?
  lines,            \* number of lines so far
  instructionPath,  \* the stack of wrapLogs
  res,              \* what wrapLogs returns, with the real author of each line
  thrown            \* has wrapLogs met a line it gives up on?

vars == <<running, truncated, lines, instructionPath, res, thrown>>

Top(stack) == IF stack = <<>> THEN Undefined ELSE stack[Len(stack)]

\* Array.pop of an empty array does nothing.
Pop(stack) == IF stack = <<>> THEN <<>> ELSE SubSeq(stack, 1, Len(stack) - 1)

Types == {"log", "data", "other"}

Messages ==
  [programId : Programs \cup {Undefined}, logIndex : Nat, type : Types,
   author : Programs, complete : BOOLEAN]

-------------------------------------------------------------------------------
(* The branches of the loop body *)

\* Program log:, Program data:, Program return:
PushMessage(type) ==
  /\ res' = res \cup
       { [programId |-> Top(instructionPath), logIndex |-> lines, type |-> type,
          author |-> Top(running), complete |-> ~truncated] }
  /\ UNCHANGED <<instructionPath, thrown>>

\* Program <id> invoke
OnInvoke(p) ==
  /\ instructionPath' = Append(instructionPath, p)
  /\ UNCHANGED <<res, thrown>>

\* Program <id> success
OnSuccess ==
  /\ instructionPath' = Pop(instructionPath)
  /\ UNCHANGED <<res, thrown>>

\* Faulty variant: a failed program stays on the stack.
OnFailedIgnored == UNCHANGED <<instructionPath, res, thrown>>

\* Program <id> failed:
OnFailed ==
  /\ instructionPath' = Pop(instructionPath)
  /\ UNCHANGED <<res, thrown>>

\* Program consumption:, Program <id> consumed, and lines that do not begin with
\* Program, which are reported and passed over.
OnOther == UNCHANGED <<instructionPath, res, thrown>>

\* Faulty variant: the messages found so far are returned, one more among them.
OnUnknownModeReturned ==
  /\ res' = res \cup
       { [programId |-> Top(instructionPath), logIndex |-> lines, type |-> "other",
          author |-> Top(running), complete |-> ~truncated] }
  /\ UNCHANGED <<instructionPath, thrown>>

\* Any other line that begins with Program: an exception, nothing is returned.
OnUnknownMode ==
  /\ thrown' = TRUE /\ res' = {}
  /\ UNCHANGED instructionPath

-------------------------------------------------------------------------------
(* The runtime *)

\* A line is written and handled as A says; past the limit it may be missing.
Line(A) ==
  /\ lines < MaxLines /\ ~thrown
  /\ \/ A /\ lines' = lines + 1
     \/ /\ truncated
        /\ UNCHANGED <<lines, instructionPath, res, thrown>>
  /\ UNCHANGED truncated

Invoke ==
  \E p \in Programs :
    /\ Len(running) < MaxDepth
    /\ running' = Append(running, p)
    /\ Line(OnInvoke(p))

Message ==
  /\ running # <<>>
  /\ \E type \in Types : Line(PushMessage(type))
  /\ UNCHANGED running

Success ==
  /\ running # <<>> /\ running' = Pop(running) /\ Line(OnSuccess)

Fail ==
  /\ running # <<>> /\ running' = Pop(running) /\ Line(OnFailed)

Other == Line(OnOther) /\ UNCHANGED running

UnknownMode == Line(OnUnknownMode) /\ UNCHANGED running

\* "Log truncated" is written, once.
Truncate ==
  /\ lines < MaxLines /\ ~thrown /\ ~truncated
  /\ truncated' = TRUE /\ lines' = lines + 1
  /\ OnOther
  /\ UNCHANGED running

Init ==
  /\ running = <<>> /\ truncated = FALSE /\ lines = 0
  /\ instructionPath = <<>> /\ res = {} /\ thrown = FALSE

Next == Invoke \/ Message \/ Success \/ Fail \/ Other \/ UnknownMode \/ Truncate

Spec == Init /\ [][Next]_vars

-------------------------------------------------------------------------------
(* Properties *)

TypeOK ==
  /\ running \in Seq(Programs) /\ Len(running) <= MaxDepth
  /\ truncated \in BOOLEAN /\ thrown \in BOOLEAN
  /\ lines \in 0..MaxLines
  /\ instructionPath \in Seq(Programs)
  /\ res \subseteq Messages

\* A message is attributed to the program that wrote it, however programs call
\* each other, succeed and fail, as long as the log is complete up to there.
Attributed == \A m \in res : m.complete => m.programId = m.author
===============================================================================
