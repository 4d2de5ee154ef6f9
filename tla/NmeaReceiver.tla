---------------------------- MODULE NmeaReceiver ----------------------------
(***************************************************************************)
(* What EasyNmeaImpl promises its callers, with neither locks nor flags: a *)
(* connection to a device, a buffer with the last samples nobody took, and *)
(* clients that take them one by one or wait for them.  Taking a sample,   *)
(* and the answer to a wait, happen at one instant.                        *)
(***************************************************************************)
EXTENDS Naturals, Sequences

CONSTANTS
    Clients,     \* who shares the receiver
    Masks,       \* what a client may wait for: sets of data kinds
    NotWaiting,  \* the mask of a client that waits for nothing, none of Masks
    Kind,        \* the one kind of data that is buffered
    Capacity     \* how many samples the buffer keeps, at least one

VARIABLES
    link,        \* "down", "up", "draining", "ended", or "dead" with the process
    buffer,      \* samples, oldest first
    arrived,     \* how many samples ever arrived; the n-th one is the number n
    sample,      \* the last sample each client took
    awaiting,    \* the mask each client waits for
    answer       \* the last result each client got

rvars == <<link, buffer, arrived, sample, awaiting, answer>>

Init ==
    /\ link = "down"
    /\ buffer = <<>> /\ arrived = 0
    /\ sample = [t \in Clients |-> 0]
    /\ awaiting = [t \in Clients |-> NotWaiting]
    /\ answer = [t \in Clients |-> "OK"]

\* A connection that was told to stop may still deliver what it was reading.
\* Once it has ended it delivers nothing, until a new one replaces it.
LinkStep ==
    /\ <<link, link'>> \in {<<"down", "up">>, <<"up", "draining">>, <<"up", "ended">>,
                            <<"draining", "ended">>, <<"ended", "down">>}
                           \cup {<<l, "dead">> : l \in {"down", "up", "draining", "ended"}}
    /\ UNCHANGED <<buffer, arrived, sample, awaiting, answer>>

\* A sample arrives; a full buffer forgets its oldest one.
Arrive ==
    /\ link \in {"up", "draining"}
    /\ arrived' = arrived + 1
    /\ buffer' = Append(IF Len(buffer) >= Capacity THEN Tail(buffer) ELSE buffer, arrived + 1)
    /\ UNCHANGED <<link, sample, awaiting, answer>>

Take(t) ==
    /\ awaiting[t] = NotWaiting /\ buffer # <<>>
    /\ sample' = [sample EXCEPT ![t] = Head(buffer)]
    /\ buffer' = Tail(buffer)
    /\ UNCHANGED <<link, arrived, awaiting, answer>>

\* Any call but a wait may return anything, except that nothing is there to
\* be taken while the buffer holds samples.
Reply(t, code) ==
    /\ awaiting[t] = NotWaiting /\ code # "TIMEOUT"
    /\ code = "NO_DATA" => buffer = <<>>
    /\ answer' = [answer EXCEPT ![t] = code]
    /\ UNCHANGED <<link, buffer, arrived, sample, awaiting>>

Await(t) ==
    /\ awaiting[t] = NotWaiting
    /\ \E mask \in Masks : awaiting' = [awaiting EXCEPT ![t] = mask]
    /\ UNCHANGED <<link, buffer, arrived, sample, answer>>

\* The answer to a wait: there are samples; the connection is up and brought
\* none of those asked for; or it is over and none of those are left.
HasAwaited(t) == Kind \in awaiting[t] /\ buffer # <<>>
Answer(t) ==
    /\ awaiting[t] # NotWaiting
    /\ \E code \in {"OK", "TIMEOUT", "ERROR"} :
          /\ code = "OK" => buffer # <<>> /\ (link = "up" => HasAwaited(t))
          /\ code = "TIMEOUT" => link = "up" /\ ~HasAwaited(t)
          /\ code = "ERROR" => link # "up" /\ ~HasAwaited(t)
          /\ answer' = [answer EXCEPT ![t] = code]
    /\ awaiting' = [awaiting EXCEPT ![t] = NotWaiting]
    /\ UNCHANGED <<link, buffer, arrived, sample>>

\* The owner discards the receiver when nobody waits; the process may die of it.
Discard ==
    /\ \A t \in Clients : awaiting[t] = NotWaiting
    /\ buffer' = <<>>
    /\ link' \in {link, "dead"}
    /\ UNCHANGED <<arrived, sample, awaiting, answer>>

Codes == {"OK", "NO_DATA", "ILLEGAL_OPERATION", "ERROR"}

Next ==
    \/ LinkStep \/ Arrive \/ Discard
    \/ \E t \in Clients :
          \/ Take(t) \/ Await(t) \/ Answer(t)
          \/ \E code \in Codes : Reply(t, code)

Spec == Init /\ [][Next]_rvars
=============================================================================
