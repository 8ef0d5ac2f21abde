--------------------------- MODULE MCIndexerManager ---------------------------
(* Projects and a block for the runs of IndexerManager.  Programs p and q have *)
(* IDLs, in two versions for p; nobody has one for r.                         *)
EXTENDS IndexerManager

CONSTANTS p, q, r

MCContent == [ p1 |-> "P1", p2 |-> "P2", q1 |-> "Q1" ]
MCBytes == [ P1 |-> [ swap |-> 1, mint |-> 9 ],
             P2 |-> [ swap |-> 2, mint |-> 9 ],
             Q1 |-> [ swap |-> 9, mint |-> 3 ] ]
MCHex == [ d \in {"0x02"} |-> 2 ]
MCBase58 == [ d \in {"4"} |-> 3 ]
MCInputs == {"swap", "mint", "0x02", "4", "l0"}

\* An instruction on account 1, or on another one.
Inst(program, data) == [ program |-> program, data |-> data, account |-> 1 ]
InstOn(account, program, data) ==
  [ program |-> program, data |-> data, account |-> account ]
Log(program, type) == [ program |-> program, type |-> type, data |-> 9 ]

\* Two transactions; the first instruction calls two programs, in two groups.
\* The second transaction failed.
MCBlock ==
  << [ err |-> FALSE,
       instructions |-> <<Inst(p, 1), Inst(r, 3)>>,
       innerInstructions |->
         << [ index |-> 2, instructions |-> <<Inst(p, 2)>> ],
            [ index |-> 1, instructions |-> <<Inst(q, 3)>> ],
            [ index |-> 1, instructions |-> <<InstOn(2, p, 2)>> ] >>,
       logs |-> <<Log(q, "log"), Log(p, "data")>> ],
     [ err |-> TRUE,
       instructions |-> <<Inst(q, 3)>>, innerInstructions |-> <<>>, logs |-> <<>> ] >>

Asset(program, file) == [ program |-> program, file |-> file ]
\* A handler, without filter if nothing is given; an account only for SwapHex.
DataSource(kind, programId, discriminator, assets) ==
  [ kind |-> kind, programId |-> programId, discriminator |-> discriminator,
    includeFailed |-> programId = Undefined, accounts |-> Undefined,
    assets |-> assets ]
MCProject(dataSources, templates) ==
  [ dataSources |-> dataSources, templates |-> templates ]

Every == DataSource("Instruction", Undefined, Undefined, <<>>)
Transactions == DataSource("Transaction", Undefined, Undefined, <<>>)
DataLogs == DataSource("Log", p, Undefined, <<>>)
Swap(file) == DataSource("Instruction", p, "swap", <<Asset(p, file)>>)
SwapHex == [ DataSource("Instruction", p, "0x02", <<>>) EXCEPT !.accounts = {1} ]
Short == DataSource("Instruction", q, "4", <<Asset(q, "q1")>>)
Misspelt == DataSource("Instruction", p, "l0", <<Asset(p, "p1")>>)
Mint(file) == DataSource("Instruction", q, "mint", <<Asset(p, file), Asset(q, "q1")>>)
Unknown == DataSource("Instruction", r, "mint", <<>>)

MCHistories ==
  { \* an upgrade that brings another IDL for p, a template with one for q
    << MCProject(<<Every, Swap("p1")>>, <<Mint("p1")>>),
       MCProject(<<Swap("p2"), DataLogs>>, <<Mint("p2")>>) >>,
    \* two data sources that disagree about the IDL of p
    << MCProject(<<Swap("p1"), Swap("p2"), Mint("p1")>>, <<SwapHex>>) >>,
    \* a block handler first; IDLs only in the template
    << MCProject(<<DataSource("Block", Undefined, Undefined, <<>>), Transactions, DataLogs>>,
                 <<Swap("p2")>>) >>,
    \* a file that is missing, a program without IDL
    << MCProject(<<Swap("p1"), Swap("none")>>, <<>>) >>,
    << MCProject(<<Swap("p1"), Unknown>>, <<>>) >>,
    \* discriminators that are no names: base58, and neither
    << MCProject(<<Short>>, <<Misspelt>>) >> }
===============================================================================
