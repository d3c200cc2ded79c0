----------------------------- MODULE MCLogUtil ------------------------------
(* LogUtil for TLC: two adjacent images, the first of them with a header   *)
(* before its code; in place of the other, one that get_text_size refuses. *)
(* Generated code lies over the first image's second page, in or over the  *)
(* other's place and beyond it, or in memory without the tag.              *)
EXTENDS LogUtil

Inst(hi, lo, op) == [hi |-> hi, lo |-> lo, op |-> op]
Data == Inst(0, 0, NoOp)
Subs == Inst(1, 0, "subs")
Cmp == Inst(1, 1, "cmp")     \* subs with the zero register as its destination
Bl == Inst(2, 0, "bl")

Seg(exec, vmaddr, vmsize) == [exec |-> exec, vmaddr |-> vmaddr, vmsize |-> vmsize]
Program == [base |-> 0, name |-> "program", segs |-> {Seg(TRUE, 64, 16), Seg(FALSE, 80, 8)},
            text |-> <<<<Data, Data>>, <<Subs, Cmp>>>>]
Library == [base |-> 16, name |-> "library", segs |-> {Seg(TRUE, 0, 4)},
            text |-> <<<<Cmp, Data>>>>]

Plugin == [base |-> 16, name |-> "library", segs |-> {Seg(TRUE, 0, 4), Seg(TRUE, 8, 4)},
           text |-> <<<<Cmp, Data>>>>]

SomeImages == {Program, Library, Plugin}
OneMain == {Program}
Over == [base |-> 8, size |-> 8, tag |-> 255]
Beyond == [base |-> 16, size |-> 16, tag |-> 255]
Untagged == [base |-> 24, size |-> 8, tag |-> 0]
SomeMaps == {Over, Beyond, Untagged}
Generated == [m \in SomeMaps |->
                IF m = Over THEN {<<<<Bl, Data>>>>, <<<<Cmp, Data>>>>}
                ELSE {[p \in 1 .. m.size \div 8 |-> <<Bl, Data>>]}]

\* outer covers the beginning of inner.
SomeSymbols == {[base |-> 8, size |-> 8, name |-> "outer"],
                [base |-> 12, size |-> 4, name |-> "inner"],
                [base |-> 16, size |-> 4, name |-> "func"]}

\* The second thread only begins.
OneLongThread == <<4, 1>>
TopTwo == {-1, 2}
=============================================================================
