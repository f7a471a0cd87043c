---------------------------- MODULE TranscriptLog ----------------------------
(***************************************************************************)
(* What the ingester promises, without files, offsets or a task: agents    *)
(* write records, and the event log takes them over in the order they were *)
(* written, each once and unchanged, passing over those only that the      *)
(* database refuses.  A record is known by its byte offset in the          *)
(* session's transcript; offsets grow as the transcript does.              *)
(***************************************************************************)
EXTENDS Naturals

CONSTANTS Sessions, Kinds

VARIABLES
    written,    \* written[s]: offset -> kind of the records in the transcript
    stored,     \* stored[s]: offset -> kind of the records in the event log
    refused     \* refused[s]: offsets of records the database refused once

vars == <<written, stored, refused>>

Empty == [o \in {} |-> 0]

Extends(g, f) ==
    /\ DOMAIN f \subseteq DOMAIN g
    /\ \A o \in DOMAIN f : g[o] = f[o]

Init ==
    /\ written = [s \in Sessions |-> Empty]
    /\ stored = [s \in Sessions |-> Empty]
    /\ refused = [s \in Sessions |-> {}]

\* New records only ever appear after the ones already written.
Write(s) ==
    /\ DOMAIN written' = Sessions
    /\ \A r \in Sessions \ {s} : written'[r] = written[r]
    /\ Extends(written'[s], written[s])
    /\ \A n \in DOMAIN written'[s] \ DOMAIN written[s] :
          /\ n \in Nat /\ written'[s][n] \in Kinds
          /\ \A o \in DOMAIN written[s] : o < n
    /\ UNCHANGED <<stored, refused>>

\* Every record before the one at o was stored or refused.
Due(s, o) ==
    /\ o \in DOMAIN written[s]
    /\ \A q \in DOMAIN written[s] : q < o => q \in DOMAIN stored[s] \cup refused[s]

\* A record is stored when its turn has come; one that was refused may be
\* stored later, when it is read again.
Store(s) ==
    \E o \in DOMAIN written[s] \ DOMAIN stored[s] :
        /\ Due(s, o)
        /\ stored' = [stored EXCEPT ![s] =
                        [q \in DOMAIN @ \cup {o} |->
                            IF q \in DOMAIN @ THEN @[q] ELSE written[s][o]]]
        /\ UNCHANGED <<written, refused>>

\* The database refuses a record whose turn has come.
Refuse(s) ==
    \E o \in DOMAIN written[s] :
        /\ Due(s, o)
        /\ refused' = [refused EXCEPT ![s] = @ \cup {o}]
        /\ UNCHANGED <<written, stored>>

Next == \E s \in Sessions : Write(s) \/ Store(s) \/ Refuse(s)

Spec == Init /\ [][Next]_vars
=============================================================================
