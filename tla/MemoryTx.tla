------------------------------ MODULE MemoryTx ------------------------------
(***************************************************************************)
(* MemoryStore with approve_memory taken apart: its transaction begins,    *)
(* locks the row it approves, locks the row it supersedes, and commits,    *)
(* while other approvals and the autocommit statements of other callers go *)
(* on.  MemoryStore says that this amounts to one step, at the commit.     *)
(*                                                                         *)
(* The database is at READ COMMITTED: a statement that finds its row       *)
(* locked waits, and decides again on what the lock's holder left behind.  *)
(* A row with its changes is private until the commit, so the statements   *)
(* after the last lock (UPDATE of the candidate, the job, the audit        *)
(* record) are part of the commit.  now() is the time of BEGIN, which may  *)
(* lie before the valid_from another transaction has committed meanwhile.  *)
(*                                                                         *)
(* reinforce_existing_memory is left to Extraction: it changes nothing     *)
(* that an approval reads, and each of its statements waits for a lock, if *)
(* at all, while it holds none.                                            *)
(***************************************************************************)
EXTENDS MemoryStore

CONSTANT Handlers        \* requests or workers that call approve_memory

ASSUME HandlersAssumption == None \notin Handlers

VARIABLES
  stage,      \* idle, begun, locked (the candidate), ready (to commit)
  cand, prev, \* the arguments: id and supersedes_id
  lock,       \* lock[m]: the handler that holds the row lock of m
  since,      \* since[h]: transactions that were open when h began
  later       \* later[h]: memories whose valid_from is after h's now()

txVars == <<stage, cand, prev, lock, since, later>>
vars == <<storeVars, txVars>>

Open == {h \in Handlers : stage[h] # "idle"}
Free(m) == lock[m] = None

TxInit == /\ StoreInit
          /\ stage = [h \in Handlers |-> "idle"]
          /\ cand = [h \in Handlers |-> None]
          /\ prev = [h \in Handlers |-> None]
          /\ lock = [m \in Memories |-> None]
          /\ since = [h \in Handlers |-> {}]
          /\ later = [h \in Handlers |-> {}]

-----------------------------------------------------------------------------
(* The transaction of h is over, with the memories in M begun by it. *)
End(h, M) ==
  /\ stage' = [stage EXCEPT ![h] = "idle"]
  /\ cand' = [cand EXCEPT ![h] = None]
  /\ prev' = [prev EXCEPT ![h] = None]
  /\ lock' = [m \in Memories |-> IF lock[m] = h THEN None ELSE lock[m]]
  /\ since' = [g \in Handlers |-> IF g = h THEN {} ELSE since[g] \ {h}]
  /\ later' = [g \in Handlers |-> IF g = h THEN {}
                                  ELSE IF g \in since[h] THEN later[g] \cup M
                                  ELSE later[g]]

(* BEGIN.  An id without a row conflicts like one that is no candidate.    *)
BeginTx(h, m, p) ==
  /\ stage[h] = "idle"
  /\ stage' = [stage EXCEPT ![h] = "begun"]
  /\ cand' = [cand EXCEPT ![h] = m]
  /\ prev' = [prev EXCEPT ![h] = p]
  /\ since' = [since EXCEPT ![h] = Open]
  /\ UNCHANGED <<storeVars, lock, later>>

(* Seeded fault: the status is read without FOR UPDATE. *)
SelectUnlocked(h) ==
  /\ stage[h] = "begun"
  /\ Candidate(cand[h])
  /\ stage' = [stage EXCEPT ![h] = IF prev[h] = None THEN "ready" ELSE "locked"]
  /\ UNCHANGED <<storeVars, cand, prev, lock, since, later>>

(* SELECT status ... FOR UPDATE, once no one else holds the row. *)
SelectCandidate(h) ==
  /\ stage[h] = "begun"
  /\ Free(cand[h]) /\ Candidate(cand[h])
  /\ lock' = [lock EXCEPT ![cand[h]] = h]
  /\ stage' = [stage EXCEPT ![h] = IF prev[h] = None THEN "ready" ELSE "locked"]
  /\ UNCHANGED <<storeVars, cand, prev, since, later>>

(* The row is missing or no candidate: a conflict, and a rollback. *)
NoCandidate(h) ==
  /\ stage[h] = "begun"
  /\ Free(cand[h]) /\ ~ Candidate(cand[h])
  /\ End(h, {})
  /\ UNCHANGED storeVars

(* CHECK (valid_until >= valid_from) for valid_until = now(). *)
EndsAfterItBegan(h, p) == Supersedable(p) /\ p \notin later[h]

(* Seeded faults: the previous memory is only read; its lock is waited for *)
(* whatever its status.                                                    *)
UpdateUnlocked(h) ==
  /\ stage[h] = "locked"
  /\ EndsAfterItBegan(h, prev[h])
  /\ stage' = [stage EXCEPT ![h] = "ready"]
  /\ UNCHANGED <<storeVars, cand, prev, lock, since, later>>
BusyAny(h) == lock[prev[h]] \notin {None, h}

(* The row to be superseded is active, and another transaction holds it.   *)
(* A row that is not active does not match the WHERE, and is not waited    *)
(* for.                                                                    *)
Busy(h) == status[prev[h]] = "active" /\ lock[prev[h]] \notin {None, h}

(* UPDATE ... SET status = 'superseded' ... WHERE status = 'active' *)
UpdatePrevious(h) ==
  /\ stage[h] = "locked"
  /\ ~ Busy(h)
  /\ EndsAfterItBegan(h, prev[h])
  /\ lock' = [lock EXCEPT ![prev[h]] = h]
  /\ stage' = [stage EXCEPT ![h] = "ready"]
  /\ UNCHANGED <<storeVars, cand, prev, since, later>>

(* No row was updated, or the CHECK failed: an error, and a rollback. *)
NoPrevious(h) ==
  /\ stage[h] = "locked"
  /\ ~ Busy(h)
  /\ ~ EndsAfterItBegan(h, prev[h])
  /\ End(h, {})
  /\ UNCHANGED storeVars

(* UPDATE of the candidate, the embed_memory job, the audit record; COMMIT. *)
Commit(h) ==
  /\ stage[h] = "ready"
  /\ Approved(cand[h], prev[h])
  /\ End(h, IF validFrom[cand[h]] = "null" THEN {cand[h]} ELSE {})

(* A statement fails, or the caller is cut off: the transaction is dropped  *)
(* and rolled back.                                                        *)
Abort(h) == /\ Lossy
            /\ stage[h] # "idle"
            /\ End(h, {})
            /\ UNCHANGED storeVars

-----------------------------------------------------------------------------
(* The other callers.  The UPDATE of a rejection waits for the row lock.   *)
CreateOther(m, s, c, start, E) ==
  /\ Create(m, s, c, start, E)
  /\ \E G \in IF start = "past" THEN SUBSET Open ELSE {{}} :
       later' = [h \in Handlers |-> IF h \in G THEN later[h] \cup {m} ELSE later[h]]
  /\ UNCHANGED <<stage, cand, prev, lock, since>>

RejectOther(m) == /\ Free(m) /\ RejectRow(m)
                  /\ UNCHANGED txVars

RejectEnd(m) == /\ RejectAudit(m) \/ RejectLost(m)
                /\ UNCHANGED txVars

(* Time passes the valid_from of m; transactions that are open began before. *)
BeginOther(m) ==
  /\ Begin(m)
  /\ later' = [h \in Handlers |-> IF h \in Open THEN later[h] \cup {m} ELSE later[h]]
  /\ UNCHANGED <<stage, cand, prev, lock, since>>

TxNext ==
  \/ \E h \in Handlers :
       \/ \E m \in Rows, p \in Rows \cup {None} : BeginTx(h, m, p)
       \/ SelectCandidate(h) \/ NoCandidate(h)
       \/ UpdatePrevious(h) \/ NoPrevious(h)
       \/ Commit(h) \/ Abort(h)
  \/ \E m \in Memories, s \in Statements, c \in Scores, start \in Starts,
        E \in SUBSET Sources : CreateOther(m, s, c, start, E)
  \/ \E m \in Memories :
       RejectOther(m) \/ RejectEnd(m) \/ BeginOther(m)

TxSpec == TxInit /\ [][TxNext]_vars

-----------------------------------------------------------------------------
TxTypeOK == /\ stage \in [Handlers -> {"idle", "begun", "locked", "ready"}]
            /\ cand \in [Handlers -> Memories \cup {None}]
            /\ prev \in [Handlers -> Memories \cup {None}]
            /\ lock \in [Memories -> Handlers \cup {None}]
            /\ since \in [Handlers -> SUBSET Handlers]
            /\ later \in [Handlers -> SUBSET Memories]

(* What a transaction has read stays true until it commits, whatever other *)
(* callers do meanwhile: its candidate is a candidate, the memory it       *)
(* supersedes is active (approve_memory: FOR UPDATE, and UPDATE before the *)
(* rest).                                                                  *)
ReadsHold ==
  \A h \in Handlers :
    /\ stage[h] \in {"locked", "ready"} => Candidate(cand[h])
    /\ stage[h] = "ready" => Approvable(cand[h], prev[h])

(* Transactions never wait for each other in a circle, in whatever order   *)
(* approvals name the same memories (approve_memory locks a candidate and  *)
(* then an active memory).                                                 *)
WaitsFor(h, g) ==
  \/ stage[h] = "begun" /\ lock[cand[h]] = g
  \/ stage[h] = "locked" /\ Busy(h) /\ lock[prev[h]] = g
NoDeadlock ==
  \A H \in SUBSET Handlers :
    H # {} => \E h \in H : \A g \in H : ~ WaitsFor(h, g)

(* All of it amounts to the steps of MemoryStore: an approval takes effect *)
(* at once, at its commit (approve_memory and its callers).                *)
ImplementsStore == StoreSpec
=============================================================================
