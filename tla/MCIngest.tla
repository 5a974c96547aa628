------------------------------ MODULE MCIngest ------------------------------
(***************************************************************************)
(* Small instances of Ingest for TLC: two keys with two versions each.     *)
(***************************************************************************)
EXTENDS Ingest

MCKey  == {1, 2}
OneKey == {1}

Wire(uuids, since) == [uuids |-> uuids, since |-> since, corrupt |-> FALSE]
Damaged == [uuids |-> << >>, since |-> 1, corrupt |-> TRUE]

(* The second upload of file 1 is in a format only parser 2 reads, the     *)
(* first upload of file 2 is damaged; the files share a message, and file  *)
(* 2 has a record without a message id.                                    *)
HardBody == << <<Wire(<<"a">>, 1), Wire(<<"a", "b">>, 2)>>,
               <<Damaged, Wire(<<"b", "a", NoUuid>>, 1)>> >>

(* Every upload is readable; the files share a message.                    *)
PlainBody == << <<Wire(<<"a">>, 1), Wire(<<"a", "b">>, 1)>>,
                <<Wire(<<"b">>, 1), Wire(<<"b", "a">>, 1)>> >>
=============================================================================
