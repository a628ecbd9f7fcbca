----------------------------- MODULE LeaseQueue -----------------------------
(***************************************************************************)
(* What the message plane gives its clients as long as the sections of its  *)
(* handlers do not overlap, without tables, request states, deduplication   *)
(* or maintenance: messages sit in queues, a consumer is granted a message  *)
(* under a fresh token only when no lease on it is running, only a message  *)
(* that has a holder has its lease renewed, a message changes queue only    *)
(* when it is free and then voids its token, and a message that is gone     *)
(* stays gone.  When a message may be removed is left open here.            *)
(***************************************************************************)
EXTENDS Naturals, Sequences, FiniteSets

CONSTANTS Queues, Gone

VARIABLES
  clock,
  place,   \* message -> the queue it is in, or Gone
  holder,  \* message -> the token that holds it, 0 for nobody
  until,   \* message -> the end of the last lease on it
  issued   \* number of tokens issued

lvars == <<clock, place, holder, until, issued>>

LInit ==
  /\ clock \in Nat
  /\ place = << >>
  /\ holder = << >>
  /\ until = << >>
  /\ issued = 0

\* No lease on r is running.
Free(r) == place[r] # Gone /\ until[r] <= clock

\* Every row but those in R keeps its holder and the end of its lease.
OthersKeep(R) ==
  /\ DOMAIN holder' = DOMAIN holder
  /\ DOMAIN until' = DOMAIN until
  /\ \A r \in DOMAIN place \ R : holder'[r] = holder[r] /\ until'[r] = until[r]

Put(q) ==
  /\ place' = Append(place, q)
  /\ holder' = Append(holder, 0)
  /\ until' = Append(until, 0)
  /\ UNCHANGED <<clock, issued>>

\* One receive takes the messages R of one queue, each under its own new token.
Grant(R) ==
  /\ \A r \in R : Free(r)
  /\ \A r, s \in R : place[r] = place[s] /\ (r # s => holder'[r] # holder'[s])
  /\ \A r \in R : holder'[r] \in (issued + 1) .. (issued + Cardinality(R))
  /\ \A r \in R : until'[r] >= clock
  /\ issued' = issued + Cardinality(R)
  /\ OthersKeep(R)
  /\ UNCHANGED <<clock, place>>

\* The holders of the messages R move the end of their leases.
Renew(R) ==
  /\ \A r \in R : place[r] # Gone /\ holder[r] # 0 /\ holder'[r] = holder[r]
  /\ OthersKeep(R)
  /\ UNCHANGED <<clock, place, issued>>

\* Exhausted messages go to another queue; nobody holds a running lease on
\* them and the old tokens are void.
DeadLetter(R, q) ==
  /\ \A r \in R : Free(r)
  /\ place' = [r \in DOMAIN place |-> IF r \in R THEN q ELSE place[r]]
  /\ holder' = [r \in DOMAIN place |-> IF r \in R THEN 0 ELSE holder[r]]
  /\ until' = [r \in DOMAIN place |-> IF r \in R THEN 0 ELSE until[r]]
  /\ UNCHANGED <<clock, issued>>

\* Messages are removed: acknowledged, expired or purged.
Remove(R) ==
  /\ place' = [r \in DOMAIN place |-> IF r \in R THEN Gone ELSE place[r]]
  /\ holder' = [r \in DOMAIN place |-> IF r \in R THEN 0 ELSE holder[r]]
  /\ until' = [r \in DOMAIN place |-> IF r \in R THEN 0 ELSE until[r]]
  /\ UNCHANGED <<clock, issued>>

PassTime ==
  /\ clock' = clock + 1
  /\ UNCHANGED <<place, holder, until, issued>>

LNext ==
  \/ PassTime
  \/ \E q \in Queues : Put(q)
  \/ \E R \in SUBSET DOMAIN place :
       \/ Grant(R)
       \/ Renew(R)
       \/ Remove(R)
       \/ \E q \in Queues : DeadLetter(R, q)

LSpec == LInit /\ [][LNext]_lvars
=============================================================================
