-------------------------------- MODULE Lock --------------------------------
(***************************************************************************)
(* The locks of internal/util/lock/lock.go: a lease in the database with a *)
(* fencing token, the version of the transaction that created it, and a    *)
(* time at which it expires.  Wall clocks only decide whether that time    *)
(* has passed, so a lock here is a token and whether it has expired.       *)
(***************************************************************************)
EXTENDS Naturals

Free == [token |-> 0, expired |-> FALSE]

(* txnIsLocked: an expired lock may be taken over.                         *)
NeverExpires(l) == l.token # 0
IsLocked(l)     == l.token # 0 /\ ~l.expired

(* txnCreateLock.                                                          *)
Created(token) == [token |-> token, expired |-> FALSE]

(* refreshLockTxn panics unless the lock still has this token; otherwise   *)
(* it extends the lock, an expired one that nobody took as well.           *)
Holds(l, token) == l.token = token
Refreshed(l)    == [l EXCEPT !.expired = FALSE]

(* releaseLock clears the keys whatever they hold.                         *)
Released(l) == Free

=============================================================================
