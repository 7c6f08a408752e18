------------------------------ MODULE EventLog ------------------------------
(***************************************************************************)
(* What the bridge's notification hub promises to a client, without        *)
(* buffers, sizes, locks or queues: every bridge process has one stream of *)
(* events numbered 1, 2, 3, ... without a hole; a newest part of it can be *)
(* asked for again at any time, the latest event always included; and each *)
(* event is sent at most once, to any set of clients, only after it can be *)
(* asked for.                                                              *)
(***************************************************************************)
EXTENDS Integers

CONSTANT Readers

VARIABLES
    stream,     \* the bridge process
    latest,     \* the number of events so far
    kept,       \* events that can be asked for again
    unsent,     \* events that have not been sent yet
    wire        \* reader -> <<stream, event>> on their way to it

logVars == <<stream, latest, kept, unsent, wire>>

LogInit ==
    /\ stream = 1 /\ latest = 0
    /\ kept = {} /\ unsent = {}
    /\ wire = [r \in Readers |-> {}]

\* A new event; the oldest ones that were kept may be given up for it.
NewEvent ==
    /\ latest' = latest + 1
    /\ \E first \in 1..latest' : kept' = first..latest' /\ kept' \ {latest'} \subseteq kept
    /\ unsent' = unsent \cup {latest'}
    /\ UNCHANGED <<stream, wire>>

\* An event is sent to some of the readers, once and for all.
Send(n) ==
    /\ n \in unsent
    /\ unsent' = unsent \ {n}
    /\ \E to \in SUBSET Readers :
        wire' = [r \in Readers |-> IF r \in to THEN wire[r] \cup {<<stream, n>>} ELSE wire[r]]
    /\ UNCHANGED <<stream, latest, kept>>

\* Events reach a reader or are lost on the way to it.
Leave(r) ==
    /\ \E rest \in SUBSET wire[r] : wire' = [wire EXCEPT ![r] = rest]
    /\ UNCHANGED <<stream, latest, kept, unsent>>

\* Another process takes over: nothing of the old stream is sent or kept.
NewStream ==
    /\ stream' = stream + 1 /\ latest' = 0
    /\ kept' = {} /\ unsent' = {}
    /\ wire' = [r \in Readers |-> {}]

LogNext ==
    \/ NewEvent \/ NewStream
    \/ \E n \in unsent : Send(n)
    \/ \E r \in Readers : Leave(r)

LogSpec == LogInit /\ [][LogNext]_logVars
=============================================================================
