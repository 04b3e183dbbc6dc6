--------------------------- MODULE CommandPromise ---------------------------
(***************************************************************************)
(* What the command executor promises to callers that repeat themselves:   *)
(*   - a command takes effect only when its key remembers nothing, or only *)
(*     a non-final result of the same request;                             *)
(*   - a caller is told a result only if it is the one its key remembers,  *)
(*     and only for the request that produced it;                          *)
(*   - a key used with a retained receipt never forgets.                   *)
(* CommandExecution implements this specification.                         *)
(***************************************************************************)
CONSTANTS Keys, Attempts, KeyOf, HashOf, Retained, Provisional, None

VARIABLES
    remembered,  \* what a key remembers: [by, final]
    performed,   \* attempts whose effect was committed
    told         \* whose result an attempt was given

promiseVars == <<remembered, performed, told>>

Nothing == [by |-> None, final |-> FALSE]

PromiseInit ==
    /\ remembered = [k \in Keys |-> Nothing]
    /\ performed = {}
    /\ told = [a \in Attempts |-> None]

\* The command runs; its caller may never learn it.
Perform(a) ==
    LET old == remembered[KeyOf[a]] IN
    /\ a \notin performed /\ told[a] = None
    /\ \/ old = Nothing
       \/ ~old.final /\ KeyOf[a] \in Provisional /\ HashOf[old.by] = HashOf[a]
    /\ \E f \in BOOLEAN :
          remembered' = [remembered EXCEPT ![KeyOf[a]] = [by |-> a, final |-> f]]
    /\ performed' = performed \cup {a}
    /\ \E r \in {None, a} : told' = [told EXCEPT ![a] = r]

Replay(a) ==
    LET old == remembered[KeyOf[a]] IN
    /\ a \notin performed /\ told[a] = None
    /\ old # Nothing /\ HashOf[old.by] = HashOf[a]
    /\ told' = [told EXCEPT ![a] = old.by]
    /\ UNCHANGED <<remembered, performed>>

Forget(k) ==
    /\ k \notin Retained
    /\ remembered' = [remembered EXCEPT ![k] = Nothing]
    /\ UNCHANGED <<performed, told>>

PromiseNext ==
    \/ \E a \in Attempts : Perform(a) \/ Replay(a)
    \/ \E k \in Keys : Forget(k)

PromiseSpec == PromiseInit /\ [][PromiseNext]_promiseVars
=============================================================================
