---------------------------- MODULE MCSequential ----------------------------
(***************************************************************************)
(* The components that one thread uses at a time, checked one by one:       *)
(* which says which of them this behaviour uses, and the others stay as     *)
(* they began.                                                              *)
(***************************************************************************)
EXTENDS Keyfile, Mempager, Strtype, Memio, Bitset, Deadline, Getline, Multicast

VARIABLE which

(* The values a configuration file cannot spell. *)
KeyLowered == [id \in {"Port"} |-> "port"]
KeyTexts   == {<<"dq", "sq">>, <<"x", "x", "x">>}

KeyFiles == {NONE,
             <<Line("section", "MAIN", <<>>), Line("key", "Port", <<"x">>)>>,
             <<Line("key", "port", <<"sq">>),
               [Line("section", "MAIN", <<>>) EXCEPT !.indented = TRUE],
               Line("other", "", <<>>), Line("key", "k", <<"x">>),
               [Line("section", "B", <<>>) EXCEPT !.nl = FALSE]>>}

StringWords == {<<>>, <<"a">>, <<" ", "A">>, <<"a", " ", " ", "a">>}
MemDelim    == <<"r", "n">>
MemPackets  == [Place -> {"x", "r", "n"}]
MemPieces   == {<<"x">>, <<"r", "n">>, <<"x", "x", "r", "n", "x">>}
BitMasks    == {{}, {0, 7}, {1, 8}, {9, 15}}
ClockStarts == {Time(1, 0), Time(1, 999999999), Time(1, 500000001)}
ClockPasses == {[ms |-> 0, ns |-> 1], [ms |-> 1, ns |-> 999999], [ms |-> 999, ns |-> 500000]}
TimeSpans   == {-1500, -1, 0, 1, 999, 2001}
SomeNumbers == {0, 7, 10, -10, 98, 999, -12345}

vars == <<keyVars, pagerVars, strVars, stringVars, memVars, bitVars, timeVars, lineVars, castVars, which>>

(* The component c is the one in use; rest holds the others' variables. *)
Turn(c, rest) == which = c /\ UNCHANGED <<rest, which>>

KeyTurn    == Turn("keyfile", <<pagerVars, strVars, stringVars, memVars, bitVars, timeVars, lineVars, castVars>>)
PagerTurn  == Turn("mempager", <<keyVars, strVars, stringVars, memVars, bitVars, timeVars, lineVars, castVars>>)
StrTurn    == Turn("strchar", <<keyVars, pagerVars, stringVars, memVars, bitVars, timeVars, lineVars, castVars>>)
StringTurn == Turn("strtype", <<keyVars, pagerVars, strVars, memVars, bitVars, timeVars, lineVars, castVars>>)
MemTurn    == Turn("memio", <<keyVars, pagerVars, strVars, stringVars, bitVars, timeVars, lineVars, castVars>>)
BitTurn    == Turn("bitset", <<keyVars, pagerVars, strVars, stringVars, memVars, timeVars, lineVars, castVars>>)
TimeTurn   == Turn("sync", <<keyVars, pagerVars, strVars, stringVars, memVars, bitVars, lineVars, castVars>>)
LineTurn   == Turn("getline", <<keyVars, pagerVars, strVars, stringVars, memVars, bitVars, timeVars, castVars>>)
CastTurn   == Turn("multicast", <<keyVars, pagerVars, strVars, stringVars, memVars, bitVars, timeVars, lineVars>>)

(* A component that is not in use begins in one of its initial states only. *)
Init == /\ which \in {"keyfile", "mempager", "strchar", "strtype", "memio", "bitset", "sync",
                      "getline", "multicast"}
        /\ KeyInit /\ PagerInit /\ StrInit /\ StringInit
        /\ MemInit /\ BitInit /\ TimeInit /\ LineInit /\ CastInit
        /\ which # "keyfile" => file = NONE
        /\ which # "strchar" => m = [i \in 1 .. BufMax |-> NUL]
        /\ which # "memio" => block = [i \in Place |-> "x"]
        /\ which # "bitset" => bitsize = 3
        /\ which # "sync" => now = Time(1, 0)
        /\ which # "getline" => ~echo

Next == \/ KeyNext /\ KeyTurn
        \/ PagerNext /\ PagerTurn
        \/ StrNext /\ StrTurn
        \/ StringNext /\ StringTurn
        \/ MemNext /\ MemTurn
        \/ BitNext /\ BitTurn
        \/ TimeNext /\ TimeTurn
        \/ LineNext /\ LineTurn
        \/ CastNext /\ CastTurn

Spec == Init /\ [][Next]_vars
=============================================================================
