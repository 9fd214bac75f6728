---------------------------- MODULE ReliableLog ----------------------------
(***************************************************************************)
(* What a write-ahead log promises to the operators before and after it,   *)
(* whatever it does inside: an entry it promised to keep is not forgotten  *)
(* before it was delivered, deliveries happen for the first time in the    *)
(* order of the ids, and a crash loses neither.  Entries are records with  *)
(* an id.                                                                  *)
(***************************************************************************)
EXTENDS Integers

VARIABLES
    stored,     \* the entries the log holds
    promised,   \* the entries it took responsibility for
    delivered   \* the entries it handed on, at least once

log == <<stored, promised, delivered>>

LogInit == stored = {} /\ promised = {} /\ delivered = {}

\* An entry is delivered only after all the stored ones before it.
InOrder(kept, handedOn) ==
    \A d \in handedOn, e \in kept : e.id < d.id => e \in handedOn

\* Some entries are stored, some delivered, some forgotten.
Work ==
    /\ delivered \subseteq delivered' /\ promised \subseteq promised'
    /\ delivered' \ delivered \subseteq stored \cup stored'
    /\ stored \ stored' \subseteq delivered'
    /\ promised' \ promised \subseteq stored' \cup delivered'
    /\ InOrder(stored', delivered')

\* The process starts again, with an older or a newer copy of the log: entries
\* that were delivered may come back, promised ones stay until delivered.
Crash ==
    /\ stored' \subseteq stored \cup delivered
    /\ promised \subseteq stored' \cup delivered
    /\ InOrder(stored', delivered)
    /\ UNCHANGED <<promised, delivered>>

LogSpec == LogInit /\ [][Work \/ Crash]_log

\* Nothing promised is lost.
PromiseKept == promised \subseteq stored \cup delivered
============================================================================
