----------------------------- MODULE GoChannel -----------------------------
(***************************************************************************)
(* What a channel with a buffer of N elements promises its callers, in the *)
(* sense of Go: values leave in the order they entered, each is handed to  *)
(* one receiver, a send puts its value when there is room and returns once *)
(* at most N values are ahead of the receivers, and a send case of a       *)
(* select goes ahead only into free buffer space or towards a receiver.    *)
(* No locks, no flags, no condition variables: each call is the step that  *)
(* begins it and the steps that take effect.                               *)
(***************************************************************************)
EXTENDS Naturals, Sequences

CONSTANTS
  Threads, N, MaxCalls, NoMsg,
  SendThrowThreads   \* threads whose values may throw when they are put

VARIABLES
  buf,     \* values put and not yet taken, oldest first
  status,  \* what each thread is doing
  got,     \* the value each thread's last receive took, or NoMsg
  seq      \* how many calls each thread has begun

gvars == <<buf, status, got, seq>>

GoInit ==
  /\ buf = <<>>
  /\ status = [t \in Threads |-> "idle"]
  /\ got = [t \in Threads |-> NoMsg]
  /\ seq = [t \in Threads |-> 0]

Become(t, s) == status' = [status EXCEPT ![t] = s]

\* One blocking send at a time is between its put and its return.
NobodyHanding == \A t \in Threads : status[t] # "handing"

Begin(t, s) ==
  /\ status[t] = "idle"
  /\ seq[t] < MaxCalls
  /\ seq' = [seq EXCEPT ![t] = @ + 1]
  /\ got' = [got EXCEPT ![t] = NoMsg]
  /\ Become(t, s)
  /\ UNCHANGED buf

Append1(t) == buf' = Append(buf, [from |-> t, id |-> seq[t]])

\* A blocking send enters its value ...
Put(t) ==
  /\ status[t] = "sending"
  /\ NobodyHanding
  /\ Len(buf) <= N
  /\ Append1(t)
  /\ Become(t, "handing")
  /\ UNCHANGED <<got, seq>>

\* ... or fails to: the exception leaves everything as it was ...
PutFails(t) ==
  /\ status[t] = "sending"
  /\ t \in SendThrowThreads
  /\ Become(t, "idle")
  /\ UNCHANGED <<buf, got, seq>>

\* ... and returns once its value no longer exceeds the buffer.
Finish(t) ==
  /\ status[t] = "handing"
  /\ Len(buf) <= N
  /\ Become(t, "idle")
  /\ UNCHANGED <<buf, got, seq>>

\* A receive, blocking or not, takes the oldest value.
Take(t) ==
  /\ status[t] \in {"receiving", "polling"}
  /\ buf # <<>>
  /\ got' = [got EXCEPT ![t] = Head(buf)]
  /\ buf' = Tail(buf)
  /\ Become(t, "idle")
  /\ UNCHANGED seq

\* A send case succeeds: there is buffer space, or a receiver is waiting.
Offer(t) ==
  /\ status[t] = "offering"
  /\ NobodyHanding
  /\ \/ Len(buf) < N
     \/ Len(buf) = N /\ \E r \in Threads : status[r] = "receiving"
  /\ Append1(t)
  /\ Become(t, "idle")
  /\ UNCHANGED <<got, seq>>

\* A case of a select that cannot go ahead is abandoned without effect.
GiveUp(t) ==
  /\ status[t] \in {"offering", "polling"}
  /\ Become(t, "idle")
  /\ UNCHANGED <<buf, got, seq>>

GoNext ==
  \E t \in Threads :
    \/ \E s \in {"sending", "receiving", "offering", "polling"} : Begin(t, s)
    \/ Put(t) \/ PutFails(t) \/ Finish(t) \/ Take(t) \/ Offer(t) \/ GiveUp(t)

GoSpec == GoInit /\ [][GoNext]_gvars
=============================================================================
