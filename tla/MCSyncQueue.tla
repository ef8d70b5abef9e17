----------------------------- MODULE MCSyncQueue -----------------------------
(***************************************************************************)
(* SyncQueue for TLC: its bounds, and the fairness of its liveness          *)
(* property.                                                               *)
(***************************************************************************)
EXTENDS SyncQueue

CONSTANT i1

One(kind, vol) == [kind |-> kind, item |-> i1, vol |-> vol]

\* An entry; one without access to the works; a photo before an entry the server
\* refuses; two such entries; an entry that is not valid before one; two entries, the
\* first of which an entry online may bring into conflict.
MCPlans == {<<One("fact", 1)>>, <<One("blocked", 1)>>,
            <<One("photo", 1), One("otherBoq", 1)>>,
            <<One("otherBoq", 1), One("otherBoq", 1)>>,
            <<One("invalid", 1), One("otherBoq", 1)>>,
            <<One("fact", 1), One("fact", 2)>>}

\* Bound: the last of these plans is sent without overlap and meets one upset at most.
TwoEntries ==
  Len(ops') = 2 /\ ops'[1].kind = "fact" =>
    /\ online' + failures' + archivals' <= 1
    /\ Cardinality({w \in Workers : requests'[w].pc # "idle"}) <= 1

\* A request that runs goes on unless it dies, and the device, which sends its
\* operations and then its photos one by one in a loop, keeps sending those it
\* has no answer for.  Nobody is obliged to resolve a conflict.
FairSpec ==
  /\ Init /\ [][Next /\ TwoEntries]_vars
  /\ \A w \in Workers : WF_vars(RequestStep(w))
  /\ SF_vars(\E w \in Workers : Send(w))
  /\ \A o \in OpId : SF_vars(\E w \in Workers : PhotoLookup(w, o))

Made(o) == o \in DOMAIN ops /\ ops[o].kind # "invalid"
PhotoTooLate(o) == Made(o) /\ ops[o].kind = "photo" /\ period = "closed"

=============================================================================
