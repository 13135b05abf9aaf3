------------------------------ MODULE Delivery ------------------------------
(***************************************************************************)
(* From emit() to a readable row: the emitter of one host process, the     *)
(* network, and the write path that serves its POSTs.  The request that    *)
(* carries event e is request e of EventStore; it is on the wire until its *)
(* transaction has ended.  The client's timeout does not stop a request    *)
(* the server works on, so an event can be committed after its POST was    *)
(* given up, while the next one is served.                                 *)
(***************************************************************************)
EXTENDS HttpEmitter, EventStore

ASSUME DeliveryAssumption == Requests = Emissions

systemVars == <<vars, storeVars>>

\* All that the network and the server leave alone in the client.
clientVars == <<hostVars, queueVars, drain, inflight, closeVars, failureVars>>

Visible(e) == [id |-> rowid[e], event |-> body[e]] \in rows /\ rowid[e] # 0

-----------------------------------------------------------------------------
(* One POST on the server's side. *)

\* The request arrives, its INSERT runs: the client sees nothing of it.
Works(e) ==
    /\ e \in wire
    /\ Post(e) \/ Insert(e)
    /\ UNCHANGED vars

\* 401 or 422 before the pipeline is entered.
Rejects(e) ==
    /\ pc[e] = "idle"
    /\ ServerRefuses(e)
    /\ UNCHANGED storeVars

\* No partition, no id, no connection to the database: 500.
Fails(e) ==
    /\ InsertUnroutable(e) \/ InsertExhausted(e) \/ Abort(e)
    /\ ServerRefuses(e)

\* The request never arrives, or the server dies before the commit.
Dies(e) ==
    /\ \/ pc[e] = "idle" /\ UNCHANGED storeVars
       \/ Abort(e)
    /\ RequestLost(e)

Commits(e) ==
    /\ Commit(e)
    /\ wire' = wire \ {e}
    /\ stored' = Append(stored, e)
    /\ UNCHANGED <<clientVars, reply, refused>>

\* 201 with the id.
Answers(e) ==
    /\ Respond(e)
    /\ reply' = ReplyTo(e, "stored")
    /\ UNCHANGED <<clientVars, wire, serverVars>>

\* The answer to a committed request is lost, or it is a 500 because the
\* connection to the database broke while it confirmed the commit.
AnswerLost(e) ==
    /\ LoseResponse(e)
    /\ reply' \in {reply, ReplyTo(e, "refused")}
    /\ UNCHANGED <<clientVars, wire, serverVars>>

Serves(e) ==
    \/ Works(e) \/ Rejects(e) \/ Fails(e) \/ Dies(e)
    \/ Commits(e) \/ Answers(e) \/ AnswerLost(e)

DeliveryInit == Init /\ StoreInit

DeliveryNext ==
    \/ ClientStep /\ UNCHANGED storeVars
    \/ \E e \in Requests : Serves(e)

\* As for HttpEmitter: the drain runs; the network and the server may stop.
DeliverySpec ==
    /\ DeliveryInit
    /\ [][DeliveryNext]_systemVars
    /\ WF_systemVars(DrainStep /\ UNCHANGED storeVars)

-----------------------------------------------------------------------------
\* The write path is a server as HttpEmitter assumes one: it stores a request
\* at its commit, answers or fails to answer later, and never stores it again.
Emitter == INSTANCE HttpEmitter
           WITH reply <- IF inflight \in Elements(stored) THEN "stored"
                         ELSE reply
ImplementsEmitter == Emitter!Spec

\* Emission order survives to the reader: whoever can read an event can read
\* every earlier one, under a smaller id, unless that one is lost for good or
\* its POST was given up (and it may be stored late, under a larger id).
PrefixReadable ==
    \A d, e \in Emissions :
        d < e /\ Visible(e) =>
            \/ Visible(d) /\ rowid[d] < rowid[e]
            \/ d \in givenUp
            \/ d \notin Elements(q) \union wire \union Elements(stored)

\* An event the client was told is stored can be read at that moment.
AnsweredIsReadable == reply = "stored" => Visible(inflight)
=============================================================================
