---------------------------- MODULE BucketMirror ----------------------------
(***************************************************************************)
(* What an ingest promises to the readers of its tables, whatever steps it *)
(* takes: for each key of the bucket they see nothing or one version that  *)
(* the bucket has held; what they see of a key never goes back to an older *)
(* version; and a key they see disappears only if it left the bucket.      *)
(***************************************************************************)
EXTENDS Naturals

CONSTANTS Key, MaxVersion

VARIABLES
  latest,   \* the newest version of each key ever uploaded, 0: never uploaded
  present,  \* the keys in the bucket
  gone,     \* keys missing from the bucket at some time since last shown anew
  shown     \* the version shown to readers, 0: none

vars == <<latest, present, gone, shown>>

Init ==
  /\ latest = [k \in Key |-> 0]
  /\ present = {}
  /\ gone = {}
  /\ shown = [k \in Key |-> 0]

Upload(k) ==
  /\ latest[k] < MaxVersion
  /\ latest' = [latest EXCEPT ![k] = @ + 1]
  /\ present' = present \cup {k}
  /\ UNCHANGED <<gone, shown>>

Remove(k) ==
  /\ k \in present
  /\ present' = present \ {k}
  /\ gone' = gone \cup {k}
  /\ UNCHANGED <<latest, shown>>

(* The mirror catches up with a key: perhaps not with its newest version,  *)
(* never with one older than it showed.                                    *)
Show(k) ==
  /\ \E v \in 1 .. latest[k] :
       v >= shown[k] /\ shown' = [shown EXCEPT ![k] = v]
  /\ gone' = (gone \ {k}) \cup ({k} \ present)
  /\ UNCHANGED <<latest, present>>

(* Keys that left the bucket disappear, many at once.                      *)
Withdraw(S) ==
  /\ S \subseteq gone
  /\ shown' = [k \in Key |-> IF k \in S THEN 0 ELSE shown[k]]
  /\ UNCHANGED <<latest, present, gone>>

Next ==
  \/ \E k \in Key : Upload(k) \/ Remove(k) \/ Show(k)
  \/ \E S \in SUBSET Key : Withdraw(S)

Spec == Init /\ [][Next]_vars
=============================================================================
