------------------------- MODULE JobSchedulerProofs -------------------------
(* Theorems of JobScheduler, for every set of jobs, priorities and requests: *)
(* the slot is never left idle while a job waits, one inference runs at a    *)
(* time, a request to stop is remembered, a job's ending and its finished    *)
(* windows stand, no run begins for a job that must not run, and all of it   *)
(* together implements JobContract.                                          *)
EXTENDS JobScheduler, TLAPS

Hosts == [job : [Jobs -> Entry], active : Jobs \cup {NoJob}, exports : Nat]

Good(h)  == h \in Hosts /\ \A j \in Jobs : Consistent(h, j)
Quiet(h) == h.active = NoJob /\ h.exports = 0 => Waiting(h) = {}

-----------------------------------------------------------------------------
(* What the pieces of a step make of a host                                *)

LEMMA PutHost ==
    ASSUME NEW h \in Hosts, NEW j \in Jobs, NEW e \in Entry
    PROVE  /\ Put(h, j, e) \in Hosts
           /\ Put(h, j, e).job[j] = e
           /\ \A k \in Jobs \ {j} : Put(h, j, e).job[k] = h.job[k]
           /\ Put(h, j, e).active = h.active
           /\ Put(h, j, e).exports = h.exports
  BY DEF Put, Hosts

LEMMA LeaveHost ==
    ASSUME NEW h \in Hosts, NEW j \in Jobs, NEW e \in Entry
    PROVE  /\ Leave(h, j, e) \in Hosts
           /\ Leave(h, j, e).job[j] = e
           /\ \A k \in Jobs \ {j} : Leave(h, j, e).job[k] = h.job[k]
           /\ Leave(h, j, e).active = IF h.active = j THEN NoJob ELSE h.active
           /\ Leave(h, j, e).exports = h.exports
  <1> DEFINE p == Put(h, j, e)
             a == IF h.active = j THEN NoJob ELSE h.active
  <1>1. /\ p \in Hosts /\ p.job[j] = e /\ p.exports = h.exports
        /\ \A k \in Jobs \ {j} : p.job[k] = h.job[k]
    BY PutHost
  <1>2. Leave(h, j, e) = [p EXCEPT !.active = a]
    BY DEF Leave
  <1>3. a \in Jobs \cup {NoJob}
    BY DEF Hosts
  <1> HIDE DEF p, a
  <1>4. /\ [p EXCEPT !.active = a] \in Hosts
        /\ [p EXCEPT !.active = a].job = p.job
        /\ [p EXCEPT !.active = a].exports = p.exports
        /\ [p EXCEPT !.active = a].active = a
    BY <1>1, <1>3 DEF Hosts
  <1> QED BY <1>1, <1>2, <1>4 DEF a

\* What a step leaves alone of a job keeps the job consistent.
LEMMA Frame ==
    ASSUME NEW h, NEW t, NEW k \in Jobs, Consistent(h, k), t.job[k] = h.job[k],
           t.active = k <=> h.active = k, t.exports = h.exports
    PROVE  Consistent(t, k)
  BY DEF Consistent

LEMMA GrantHost ==
    ASSUME NEW h \in Hosts, NEW j \in Jobs
    PROVE  /\ Grant(h, j) \in Hosts
           /\ Grant(h, j).job[j] = Started(h.job[j])
           /\ \A k \in Jobs \ {j} : Grant(h, j).job[k] = h.job[k]
           /\ Grant(h, j).active = j
           /\ Grant(h, j).exports = h.exports
  <1> DEFINE e  == h.job[j]
             at == IF e.at = "idle" /\ e.restored THEN "check" ELSE "read"
  <1>1. e \in Entry
    BY DEF Hosts
  <1>2. at \in Places /\ "running" \in JobStates
    BY DEF Places, Busy, JobStates
  <1>3. Started(e) = [e EXCEPT !.state = "running", !.asked = FALSE, !.at = at]
    BY DEF Started
  <1> HIDE DEF e, at
  <1>4. [e EXCEPT !.state = "running", !.asked = FALSE, !.at = at] \in Entry
    BY <1>1, <1>2 DEF Entry
  <1>5. Started(h.job[j]) \in Entry
    BY <1>3, <1>4 DEF e
  <1> DEFINE p == Put(h, j, Started(h.job[j]))
  <1>6. /\ p \in Hosts /\ p.job[j] = Started(h.job[j]) /\ p.exports = h.exports
        /\ \A k \in Jobs \ {j} : p.job[k] = h.job[k]
    BY <1>5, PutHost
  <1>7. Grant(h, j) = [p EXCEPT !.active = j]
    BY DEF Grant
  <1> HIDE DEF p
  <1> QED BY <1>6, <1>7 DEF Hosts

LEMMA GrantGood ==
    ASSUME NEW h, Good(h), NEW j \in Waiting(h), h.active = NoJob, h.exports = 0
    PROVE  Good(Grant(h, j)) /\ Quiet(Grant(h, j))
  <1> DEFINE t == Grant(h, j)
  <1>1. h \in Hosts /\ j \in Jobs /\ j # NoJob
    BY ConstantsAssumption DEF Good, Waiting
  <1>2. /\ t \in Hosts /\ t.active = j /\ t.exports = h.exports
        /\ t.job[j] = Started(h.job[j])
        /\ \A k \in Jobs \ {j} : t.job[k] = h.job[k]
    BY <1>1, GrantHost
  <1> HIDE DEF t
  <1>3. /\ h.job[j] \in Entry /\ Consistent(h, j) /\ ~h.job[j].paused
        /\ h.job[j].state \in {"queued", "preempted"}
    BY <1>1 DEF Good, Hosts, Waiting
  <1>4. Consistent(t, j)
    BY <1>1, <1>2, <1>3 DEF Consistent, Started, Entry, Busy, Terminals
  <1>5. ASSUME NEW k \in Jobs \ {j} PROVE Consistent(t, k)
    <2>1. Consistent(h, k) /\ (t.active = k <=> h.active = k)
      BY <1>1, <1>2, ConstantsAssumption DEF Good
    <2> QED BY <1>2, <2>1, Frame
  <1> QED BY <1>1, <1>2, <1>4, <1>5 DEF Good, Quiet, t

LEMMA PumpGood ==
    ASSUME NEW h, Good(h), NEW t \in Pump(h)
    PROVE  Good(t) /\ Quiet(t)
  <1>1. CASE h.active # NoJob \/ h.exports > 0 \/ Waiting(h) = {}
    BY <1>1 DEF Pump, Quiet
  <1>2. CASE ~(h.active # NoJob \/ h.exports > 0 \/ Waiting(h) = {})
    <2>1. h.exports = 0
      BY <1>2 DEF Good, Hosts
    <2>2. PICK j \in First(h) : t = Grant(h, j)
      BY <1>2 DEF Pump
    <2> QED BY <1>2, <2>1, <2>2, GrantGood DEF First
  <1> QED BY <1>1, <1>2

LEMMA PutGood ==
    ASSUME NEW h \in Hosts, NEW j \in Jobs, NEW e \in Entry,
           \A k \in Jobs \ {j} : Consistent(h, k), Consistent(Put(h, j, e), j)
    PROVE  Good(Put(h, j, e))
  <1> DEFINE t == Put(h, j, e)
  <1>1. /\ t \in Hosts /\ t.active = h.active /\ t.exports = h.exports
        /\ \A k \in Jobs \ {j} : t.job[k] = h.job[k]
    BY PutHost
  <1> HIDE DEF t
  <1>2. \A k \in Jobs \ {j} : Consistent(t, k)
    BY <1>1, Frame
  <1> QED BY <1>1, <1>2 DEF Good, t

LEMMA LeaveGood ==
    ASSUME NEW h \in Hosts, NEW j \in Jobs, NEW e \in Entry,
           \A k \in Jobs \ {j} : Consistent(h, k), Consistent(Leave(h, j, e), j)
    PROVE  Good(Leave(h, j, e))
  <1> DEFINE t == Leave(h, j, e)
  <1>1. /\ t \in Hosts /\ t.exports = h.exports
        /\ t.active = IF h.active = j THEN NoJob ELSE h.active
        /\ \A k \in Jobs \ {j} : t.job[k] = h.job[k]
    BY LeaveHost
  <1> HIDE DEF t
  <1>2. \A k \in Jobs \ {j} : Consistent(t, k)
    BY <1>1, Frame, ConstantsAssumption
  <1> QED BY <1>1, <1>2 DEF Good, t

LEMMA SettleGood ==
    ASSUME NEW h \in Hosts, NEW j \in Jobs, NEW ending \in Terminals,
           \A k \in Jobs \ {j} : Consistent(h, k), NEW t \in Settle(h, j, ending)
    PROVE  Good(t) /\ Quiet(t)
  <1> DEFINE e == Ended(h.job[j], ending)
             l == Leave(h, j, e)
  <1>1. h.job[j] \in Entry
    BY DEF Hosts
  <1>2. /\ e \in Entry /\ e.state \in Terminals /\ e.at = "idle"
        /\ e.aborted => e.state = "cancelled"
    BY <1>1 DEF Ended, Entry, JobStates, Terminals, Places
  <1> HIDE DEF e
  <1>3. l.job[j] = e /\ l.active # j
    BY <1>2, LeaveHost, ConstantsAssumption
  <1> HIDE DEF l
  <1>4. Consistent(l, j)
    BY <1>2, <1>3 DEF Consistent, Busy, Terminals
  <1>5. Good(l)
    BY <1>2, <1>4, LeaveGood DEF l
  <1> QED BY <1>5, PumpGood DEF Settle, l, e

\* The holder of the slot, suspended at its checkpoint.
LEMMA HeldIs ==
    ASSUME NEW h \in Hosts, NEW j \in Jobs, NEW e, e = Held(h.job[j], h.exports > 0)
    PROVE  /\ e \in Entry /\ e.at = "held"
           /\ e.state = IF e.paused THEN "paused"
                        ELSE IF h.exports > 0 THEN "paused_export" ELSE "preempted"
           /\ e.paused = h.job[j].paused /\ e.aborted = h.job[j].aborted
           /\ e.staging = h.job[j].staging
  <1> DEFINE x == h.job[j]
             s == IF x.paused THEN "paused"
                  ELSE IF h.exports > 0 THEN "paused_export" ELSE "preempted"
  <1>1. s \in JobStates /\ "held" \in Places /\ x \in Entry
    BY DEF JobStates, Places, Hosts
  <1>2. e = [x EXCEPT !.at = "held", !.state = s]
    BY DEF Held
  <1>3. x = h.job[j] /\ s = IF x.paused THEN "paused"
                            ELSE IF h.exports > 0 THEN "paused_export" ELSE "preempted"
    OBVIOUS
  <1> HIDE DEF s, x
  <1>4. /\ e \in Entry /\ e.at = "held" /\ e.state = s /\ e.paused = x.paused
        /\ e.aborted = x.aborted /\ e.staging = x.staging
    BY <1>1, <1>2 DEF Entry
  <1> QED BY <1>3, <1>4

LEMMA CheckpointGood ==
    ASSUME NEW h \in Hosts, NEW j \in Jobs, h.active = j, h.job[j].state = "running",
           \A k \in Jobs \ {j} : Consistent(h, k), NEW t \in Checkpoint(h, j)
    PROVE  Good(t) /\ Quiet(t)
  <1>1. h.job[j] \in Entry /\ h.exports \in Nat /\ j # NoJob
    BY ConstantsAssumption DEF Hosts
  <1>2. CASE h.job[j].aborted
    BY <1>2, SettleGood DEF Checkpoint, Terminals
  <1>3. CASE ~h.job[j].aborted /\ ~h.job[j].paused /\ h.exports = 0 /\ ~Outranked(h, j)
    <2> DEFINE e == Continues(h.job[j])
               p == Put(h, j, e)
    <2>1. t = p
      BY <1>3 DEF Checkpoint
    <2>2. e \in Entry /\ e.at = "read" /\ ~e.paused /\ ~e.aborted /\ e.state = "running"
      BY <1>1, <1>3 DEF Continues, Entry, Places, Busy
    <2> HIDE DEF e
    <2>3. p.job[j] = e /\ p.active = j /\ p.exports = 0
      BY <1>3, <2>2, PutHost
    <2> HIDE DEF p
    <2>4. Consistent(p, j)
      BY <2>2, <2>3 DEF Consistent, Busy, Terminals
    <2>5. Good(p)
      BY <2>2, <2>4, PutGood DEF p
    <2> QED BY <1>1, <2>1, <2>3, <2>5 DEF Quiet
  <1>4. CASE ~h.job[j].aborted /\ ~(~h.job[j].paused /\ h.exports = 0 /\ ~Outranked(h, j))
    <2> DEFINE e == Held(h.job[j], h.exports > 0)
               l == Leave(h, j, e)
    <2>1. t \in Pump(l)
      BY <1>4 DEF Checkpoint, Suspend
    <2>0. e = Held(h.job[j], h.exports > 0)
      OBVIOUS
    <2> HIDE DEF e
    <2>2. /\ e \in Entry /\ e.at = "held" /\ ~e.aborted
          /\ e.state = IF e.paused THEN "paused"
                       ELSE IF h.exports > 0 THEN "paused_export" ELSE "preempted"
      BY <1>4, <2>0, HeldIs
    <2>3. l.job[j] = e /\ l.active # j /\ l.exports = h.exports
      BY <1>1, <2>2, LeaveHost
    <2> HIDE DEF l
    <2>4. Consistent(l, j)
      BY <2>2, <2>3 DEF Consistent, Busy, Terminals
    <2>5. Good(l)
      BY <2>2, <2>4, LeaveGood DEF l
    <2> QED BY <2>1, <2>5, PumpGood
  <1> QED BY <1>2, <1>3, <1>4

-----------------------------------------------------------------------------
(* The invariant                                                           *)

IInv ==
  /\ Good(Host) /\ Quiet(Host)
  /\ seq \in Nat /\ requests \in Nat

LEMMA BecomeGood ==
    ASSUME NEW T, Become(T), \A t \in T : Good(t) /\ Quiet(t)
    PROVE  Good(Host)' /\ Quiet(Host)'
  <1>1. PICK t \in T : job' = t.job /\ active' = t.active /\ exports' = t.exports
    BY DEF Become
  <1>2. Host' = [job |-> t.job, active |-> t.active, exports |-> t.exports]
    BY <1>1 DEF Host
  <1>3. t \in Hosts
    BY DEF Good
  <1>4. t = Host'
    BY <1>2, <1>3 DEF Hosts
  <1>5. Good(t) /\ Quiet(t)
    OBVIOUS
  <1> QED BY <1>4, <1>5 DEF Good, Quiet, Consistent, Waiting

LEMMA HostIs ==
    ASSUME TypeOK
    PROVE  /\ Host \in Hosts /\ Host.job = job /\ Host.active = active
           /\ Host.exports = exports
  BY DEF TypeOK, Host, Hosts

LEMMA InvariantIs == IInv <=> TypeOK /\ Sound
  <1>1. IInv => TypeOK
    BY DEF IInv, Good, Host, Hosts, TypeOK
  <1>2. TypeOK => Host \in Hosts
    BY HostIs
  <1>3. Quiet(Host) <=> NoIdleSlot
    BY DEF Quiet, NoIdleSlot, Host
  <1> QED BY <1>1, <1>2, <1>3 DEF IInv, Good, Sound, TypeOK

LEMMA NewEntryIs ==
    /\ NewEntry \in Entry /\ NewEntry.at = "idle" /\ NewEntry.state = "new"
    /\ NewEntry.staging = "none" /\ ~NewEntry.paused /\ ~NewEntry.aborted
  BY DEF NewEntry, Entry, JobStates, Terminals, Places, Background

LEMMA InitSound == Init => IInv
  <1> SUFFICES ASSUME Init PROVE IInv
    OBVIOUS
  <1>1. NewEntry \in Entry
    BY NewEntryIs
  <1>2. Host \in Hosts /\ Host.active = NoJob /\ Host.exports = 0
        /\ \A j \in Jobs : Host.job[j] = NewEntry
    BY <1>1 DEF Init, Host, Hosts
  <1>3. ASSUME NEW j \in Jobs PROVE Consistent(Host, j)
    BY <1>2, NewEntryIs, ConstantsAssumption DEF Consistent, Busy, Terminals
  <1>4. Waiting(Host) = {}
    BY <1>2, NewEntryIs DEF Waiting
  <1> QED BY <1>2, <1>3, <1>4, ConstantsAssumption DEF IInv, Good, Quiet, Init

\* What the invariant says of one job, in the words of the steps.
LEMMA EntryIs ==
    ASSUME IInv, NEW j \in Jobs
    PROVE  /\ Host \in Hosts /\ Host.job = job /\ Host.active = active
           /\ Host.exports = exports /\ exports \in Nat
           /\ job[j] \in Entry /\ Consistent(Host, j) /\ j # NoJob
           /\ \A k \in Jobs \ {j} : Consistent(Host, k)
  BY InvariantIs, HostIs, ConstantsAssumption DEF IInv, Good, TypeOK

LEMMA HostPut ==
    ASSUME IInv, NEW j \in Jobs, NEW e \in Entry
    PROVE  /\ Put(Host, j, e) \in Hosts
           /\ Put(Host, j, e).job[j] = e
           /\ \A k \in Jobs \ {j} : Put(Host, j, e).job[k] = job[k]
           /\ Put(Host, j, e).active = active
           /\ Put(Host, j, e).exports = exports
  <1>1. Host \in Hosts /\ Host.job = job /\ Host.active = active /\ Host.exports = exports
    BY EntryIs
  <1>2. /\ Put(Host, j, e) \in Hosts
        /\ Put(Host, j, e).job[j] = e
        /\ \A k \in Jobs \ {j} : Put(Host, j, e).job[k] = Host.job[k]
        /\ Put(Host, j, e).active = Host.active
        /\ Put(Host, j, e).exports = Host.exports
    BY <1>1, PutHost
  <1> QED BY <1>1, <1>2

LEMMA SubmitHost ==
    ASSUME IInv, NEW j \in Jobs, NEW rank \in Ranks, NEW restored \in BOOLEAN,
           Submit(j, rank, restored)
    PROVE  \E h \in Hosts :
             /\ Become(Pump(h)) /\ h.job[j].state = "queued" /\ h.job[j].at = "idle"
             /\ ~h.job[j].paused /\ ~h.job[j].aborted /\ h.job[j].staging = "none"
             /\ h.active = active /\ h.exports = exports
             /\ \A k \in Jobs \ {j} :
                  \A f \in {"state", "at", "asked", "keep", "staging", "paused", "aborted"} :
                    h.job[k][f] = job[k][f]
  <1> DEFINE others == IF rank = Focused THEN [k \in Jobs |-> Demoted(job[k])] ELSE job
             entry  == [NewEntry EXCEPT !.state = "queued", !.rank = rank,
                                        !.seq = seq + 1, !.restored = restored]
             h      == [Host EXCEPT !.job = [others EXCEPT ![j] = entry]]
  <1>1. Become(Pump(h))
    BY DEF Submit
  <1>2. /\ entry \in Entry /\ entry.state = "queued" /\ entry.at = "idle"
        /\ ~entry.paused /\ ~entry.aborted /\ entry.staging = "none"
    <2>1. rank \in 0 .. 2 /\ seq + 1 \in Nat /\ "queued" \in JobStates
      BY ConstantsAssumption DEF IInv, JobStates
    <2>2. NewEntry \in Entry /\ NewEntry.at = "idle" /\ ~NewEntry.paused /\ ~NewEntry.aborted
          /\ NewEntry.staging = "none"
      BY NewEntryIs
    <2> QED BY <2>1, <2>2 DEF Entry
  <1>3. ASSUME NEW k \in Jobs
        PROVE  /\ others[k] \in Entry
               /\ \A f \in {"state", "at", "asked", "keep", "staging", "paused", "aborted"} :
                    others[k][f] = job[k][f]
    <2>1. job[k] \in Entry
      BY EntryIs
    <2>2. /\ Demoted(job[k]) \in Entry
          /\ \A f \in {"state", "at", "asked", "keep", "staging", "paused", "aborted"} :
               Demoted(job[k])[f] = job[k][f]
      BY <2>1 DEF Demoted, Entry, Background
    <2> QED BY <2>1, <2>2
  <1>4. others \in [Jobs -> Entry]
    BY <1>3, InvariantIs DEF TypeOK
  <1> HIDE DEF others, entry
  <1>5. /\ h \in Hosts /\ h.job[j] = entry /\ h.active = active /\ h.exports = exports
        /\ \A k \in Jobs \ {j} : h.job[k] = others[k]
    BY <1>2, <1>4, EntryIs DEF Hosts
  <1> HIDE DEF h
  <1> QED BY <1>1, <1>2, <1>3, <1>5

\* What a submission pumps is consistent: the demotion of others touches their rank only.
LEMMA SubmitGood ==
    ASSUME IInv, NEW j \in Jobs, NEW rank \in Ranks, NEW restored \in BOOLEAN,
           Submit(j, rank, restored)
    PROVE  \E h \in Hosts :
             /\ Good(h) /\ Become(Pump(h)) /\ h.job[j].state = "queued" /\ h.job[j].at = "idle"
             /\ ~h.job[j].paused /\ ~h.job[j].aborted /\ h.job[j].staging = "none"
             /\ h.active = active /\ h.exports = exports
             /\ \A k \in Jobs \ {j} :
                  \A f \in {"state", "at", "asked", "keep", "staging", "paused", "aborted"} :
                    h.job[k][f] = job[k][f]
  <1>1. PICK h \in Hosts :
          /\ Become(Pump(h)) /\ h.job[j].state = "queued" /\ h.job[j].at = "idle"
          /\ ~h.job[j].paused /\ ~h.job[j].aborted /\ h.job[j].staging = "none"
          /\ h.active = active /\ h.exports = exports
          /\ \A k \in Jobs \ {j} :
               \A f \in {"state", "at", "asked", "keep", "staging", "paused", "aborted"} :
                 h.job[k][f] = job[k][f]
    BY SubmitHost
  <1>2. job[j].state = "new"
    BY DEF Submit
  <1>3. Consistent(h, j)
    BY <1>1, <1>2, EntryIs DEF Consistent, Busy, Terminals
  <1>4. ASSUME NEW k \in Jobs \ {j} PROVE Consistent(h, k)
    <2>1. /\ h.job[k].state = job[k].state /\ h.job[k].at = job[k].at
          /\ h.job[k].asked = job[k].asked /\ h.job[k].keep = job[k].keep
          /\ h.job[k].staging = job[k].staging /\ h.job[k].paused = job[k].paused
          /\ h.job[k].aborted = job[k].aborted
      BY <1>1
    <2>2. Consistent(Host, k) /\ Host.job = job /\ Host.active = active /\ Host.exports = exports
      BY EntryIs
    <2> QED BY <1>1, <2>1, <2>2 DEF Consistent
  <1>5. Good(h)
    BY <1>1, <1>3, <1>4 DEF Good
  <1> QED BY <1>1, <1>5

LEMMA SubmitSound ==
    ASSUME IInv, NEW j \in Jobs, NEW rank \in Ranks, NEW restored \in BOOLEAN,
           Submit(j, rank, restored)
    PROVE  IInv'
  <1>1. PICK h \in Hosts : Good(h) /\ Become(Pump(h))
    BY SubmitGood
  <1>2. seq' \in Nat /\ requests' \in Nat
    BY DEF Submit, IInv
  <1> QED BY <1>1, <1>2, PumpGood, BecomeGood DEF IInv

-----------------------------------------------------------------------------
(* The steps                                                               *)

\* A step that changes one job and nothing else.
LEMMA PutSound ==
    ASSUME IInv, NEW j \in Jobs, NEW e \in Entry, Consistent(Put(Host, j, e), j),
           e.state \in {"queued", "preempted"} => j = active \/ j \in Waiting(Host)
    PROVE  Good(Put(Host, j, e)) /\ Quiet(Put(Host, j, e))
  <1> DEFINE t == Put(Host, j, e)
  <1>1. /\ Host \in Hosts /\ t.active = Host.active /\ t.exports = Host.exports
        /\ t.job[j] = e /\ \A k \in Jobs \ {j} : t.job[k] = Host.job[k]
    BY EntryIs, PutHost
  <1>2. Good(t)
    BY EntryIs, PutGood
  <1> HIDE DEF t
  <1>3. ASSUME t.active = NoJob, t.exports = 0 PROVE Waiting(t) = {}
    <2>1. Waiting(Host) = {} /\ Host.active = NoJob
      BY <1>1, <1>3 DEF IInv, Quiet
    <2>2. j # active
      BY <2>1, EntryIs
    <2>3. j \notin Waiting(t)
      BY <1>1, <2>1, <2>2 DEF Waiting
    <2>4. \A k \in Jobs \ {j} : k \in Waiting(t) => k \in Waiting(Host)
      BY <1>1 DEF Waiting
    <2> QED BY <2>1, <2>3, <2>4 DEF Waiting
  <1> QED BY <1>2, <1>3 DEF Quiet, t

LEMMA StepSound ==
    ASSUME NEW j \in Jobs, NEW e, Good(Put(Host, j, e)), Quiet(Put(Host, j, e)),
           job' = [job EXCEPT ![j] = e], active' = active, exports' = exports,
           seq' \in Nat, requests' \in Nat
    PROVE  IInv'
  <1> DEFINE t == Put(Host, j, e)
  <1>1. t.job = job' /\ t.active = active' /\ t.exports = exports'
    BY DEF Host, Put
  <1> HIDE DEF t
  <1>2. Become({t})
    BY <1>1 DEF Become
  <1>3. \A u \in {t} : Good(u) /\ Quiet(u)
    BY DEF t
  <1> QED BY <1>2, <1>3, BecomeGood DEF IInv

\* A request to stop, as the scheduler's entry shows it.
LEMMA AskIs ==
    ASSUME NEW e \in Entry
    PROVE  /\ Ask(e) \in Entry /\ Ask(e).state = e.state /\ Ask(e).at = e.at
           /\ Ask(e).paused = e.paused /\ Ask(e).aborted = e.aborted
           /\ Ask(e).staging = e.staging
           /\ e.at \in {"read", "prepare", "work"} => Ask(e).asked
           /\ e.at \in {"prepare", "work"} => Ask(e).keep
  <1>1. /\ Abort(e) \in Entry /\ Abort(e).state = e.state /\ Abort(e).at = e.at
        /\ Abort(e).paused = e.paused /\ Abort(e).aborted = e.aborted
        /\ Abort(e).staging = e.staging
    BY DEF Abort, Entry
  <1>2. e.keep \in BOOLEAN
    BY DEF Entry
  <1>3. CASE e.at = "check"
    BY <1>3 DEF Ask
  <1>4. CASE e.at # "check"
    <2> DEFINE a == Abort(e)
               b == e.keep \/ e.at \in {"prepare", "work"}
    <2>1. Ask(e) = [a EXCEPT !.asked = TRUE, !.keep = b] /\ b \in BOOLEAN
      BY <1>2, <1>4 DEF Ask
    <2>2. a \in Entry /\ (e.at \in {"prepare", "work"} => b)
      BY <1>1
    <2> HIDE DEF a, b
    <2>3. /\ Ask(e) \in Entry /\ Ask(e).state = a.state /\ Ask(e).at = a.at
          /\ Ask(e).paused = a.paused /\ Ask(e).aborted = a.aborted
          /\ Ask(e).staging = a.staging /\ Ask(e).asked /\ Ask(e).keep = b
      BY <2>1, <2>2 DEF Entry
    <2> QED BY <1>1, <2>2, <2>3 DEF a
  <1> QED BY <1>3, <1>4

LEMMA AbortIs ==
    ASSUME NEW e \in Entry
    PROVE  /\ Abort(e) \in Entry /\ Abort(e).state = e.state /\ Abort(e).at = e.at
           /\ Abort(e).paused = e.paused /\ Abort(e).aborted = e.aborted
           /\ Abort(e).staging = e.staging
           /\ Abort(e).asked = e.asked /\ Abort(e).keep = e.keep
  BY DEF Abort, Entry

LEMMA PauseSound ==
    ASSUME IInv, NEW j \in Jobs, Pause(j)
    PROVE  IInv'
  <1> DEFINE e == [job[j] EXCEPT !.paused = TRUE]
             n == IF j = active THEN Ask(e) ELSE [e EXCEPT !.state = "paused"]
             t == Put(Host, j, n)
  <1>1. /\ job[j] \in Entry /\ Consistent(Host, j) /\ Host.job = job
        /\ Host.active = active /\ Host.exports = exports /\ Host \in Hosts
    BY EntryIs
  <1>2. /\ e \in Entry /\ e.paused /\ e.aborted = job[j].aborted /\ e.at = job[j].at
        /\ e.state = job[j].state /\ e.staging = job[j].staging
    BY <1>1 DEF Entry
  <1>3. /\ job' = [job EXCEPT ![j] = n]
        /\ UNCHANGED <<active, exports, seq>> /\ requests' \in Nat
        /\ Live(job[j]) /\ ~job[j].paused
    BY DEF Pause, Request, IInv
  <1>9. n = IF j = active THEN Ask(e) ELSE [e EXCEPT !.state = "paused"]
    OBVIOUS
  <1> HIDE DEF e, n
  <1>4. ASSUME j = active PROVE Good(t) /\ Quiet(t)
    <2>1. n = Ask(e)
      BY <1>4, <1>9
    <2>2. Ask(e) \in Entry
      BY <1>2, AskIs
    <2>3. t.job[j] = Ask(e) /\ t.active = active /\ t.exports = exports
      BY <1>1, <2>1, <2>2, PutHost
    <2> HIDE DEF t
    <2>4. Consistent(t, j)
      BY <1>1, <1>2, <1>4, <2>3, AskIs DEF Consistent, Busy, Terminals
    <2>5. n \in Entry /\ Consistent(Put(Host, j, n), j)
      BY <2>1, <2>2, <2>4 DEF t
    <2> QED BY <1>4, <2>5, PutSound DEF t
  <1>5. ASSUME j # active PROVE Good(t) /\ Quiet(t)
    <2>1. n \in Entry /\ n.state = "paused" /\ n.paused /\ n.at = e.at /\ n.aborted = e.aborted
      BY <1>2, <1>5, <1>9 DEF Entry, JobStates
    <2>2. t.job[j] = n /\ t.active = active /\ t.exports = exports
      BY <1>1, <2>1, PutHost
    <2> HIDE DEF t
    <2>3. Consistent(t, j)
      BY <1>1, <1>2, <1>3, <1>5, <2>1, <2>2
      DEF Consistent, Busy, Terminals, Live, Entry, JobStates
    <2>4. n.state \notin {"queued", "preempted"} /\ Consistent(Put(Host, j, n), j)
      BY <2>1, <2>3 DEF t
    <2> QED BY <2>1, <2>4, PutSound DEF t
  <1>6. Good(t) /\ Quiet(t)
    BY <1>4, <1>5
  <1>7. seq' \in Nat /\ requests' \in Nat
    BY <1>3 DEF IInv
  <1> QED BY <1>3, <1>6, <1>7, StepSound

LEMMA ResumeSound ==
    ASSUME IInv, NEW j \in Jobs, Resume(j)
    PROVE  IInv'
  <1> DEFINE e == [job[j] EXCEPT !.paused = FALSE]
             n == IF j = active THEN e
                  ELSE [e EXCEPT !.state = IF e.at = "idle" THEN "queued" ELSE "preempted"]
             t == Put(Host, j, n)
  <1>1. /\ job[j] \in Entry /\ Consistent(Host, j) /\ Host.job = job
        /\ Host.active = active /\ Host.exports = exports /\ Host \in Hosts
        /\ \A k \in Jobs \ {j} : Consistent(Host, k)
    BY EntryIs
  <1>2. /\ e \in Entry /\ ~e.paused /\ e.aborted = job[j].aborted /\ e.at = job[j].at
        /\ e.state = job[j].state /\ e.staging = job[j].staging /\ e.asked = job[j].asked
        /\ e.keep = job[j].keep
    BY <1>1 DEF Entry
  <1>3. Become(Pump(t)) /\ seq' = seq /\ requests' \in Nat /\ Live(job[j]) /\ job[j].paused
    BY DEF Resume, Request, IInv
  <1> HIDE DEF e
  <1>4. /\ n \in Entry /\ n.at = e.at /\ ~n.paused /\ n.aborted = e.aborted
        /\ n.asked = e.asked /\ n.keep = e.keep /\ n.staging = e.staging
        /\ n.state = IF j = active THEN e.state
                     ELSE IF e.at = "idle" THEN "queued" ELSE "preempted"
    BY <1>2 DEF Entry, JobStates
  <1> HIDE DEF n
  <1>5. t.job[j] = n /\ t.active = active /\ t.exports = exports
    BY <1>1, <1>4, PutHost
  <1> HIDE DEF t
  <1>6. Consistent(t, j)
    BY <1>1, <1>2, <1>3, <1>4, <1>5
    DEF Consistent, Busy, Terminals, Live, Entry, JobStates, Places
  <1>7. Good(t)
    BY <1>1, <1>4, <1>6, PutGood DEF t
  <1> QED BY <1>3, <1>7, PumpGood, BecomeGood DEF IInv

LEMMA CancelSound ==
    ASSUME IInv, NEW j \in Jobs, Cancel(j)
    PROVE  IInv'
  <1> DEFINE e == [job[j] EXCEPT !.aborted = TRUE]
  <1>1. /\ job[j] \in Entry /\ Consistent(Host, j) /\ Host.job = job
        /\ Host.active = active /\ Host.exports = exports /\ Host \in Hosts
        /\ \A k \in Jobs \ {j} : Consistent(Host, k)
    BY EntryIs
  <1>2. /\ e \in Entry /\ e.aborted /\ e.paused = job[j].paused /\ e.at = job[j].at
        /\ e.state = job[j].state /\ e.staging = job[j].staging /\ e.asked = job[j].asked
        /\ e.keep = job[j].keep
    BY <1>1 DEF Entry
  <1>3. /\ seq' = seq /\ requests' \in Nat
        /\ Become(IF e.at \in {"idle", "held"} THEN Settle(Put(Host, j, e), j, "cancelled")
                  ELSE {Put(Host, j, Abort(e))})
    BY DEF Cancel, Request, IInv
  <1> HIDE DEF e
  <1>4. CASE e.at \in {"idle", "held"}
    <2> DEFINE p == Put(Host, j, e)
    <2>1. /\ p \in Hosts /\ p.active = Host.active /\ p.exports = Host.exports
          /\ \A k \in Jobs \ {j} : p.job[k] = Host.job[k]
      BY <1>1, <1>2, PutHost
    <2>2. Become(Settle(p, j, "cancelled"))
      BY <1>3, <1>4
    <2> HIDE DEF p
    <2>3. \A k \in Jobs \ {j} : Consistent(p, k)
      BY <1>1, <2>1, Frame
    <2>4. \A t \in Settle(p, j, "cancelled") : Good(t) /\ Quiet(t)
      BY <2>1, <2>3, SettleGood DEF Terminals
    <2> QED BY <1>3, <2>2, <2>4, BecomeGood DEF IInv
  <1>5. CASE e.at \notin {"idle", "held"}
    <2> DEFINE t == Put(Host, j, Abort(e))
    <2>1. /\ Abort(e) \in Entry /\ Abort(e).state = e.state /\ Abort(e).at = e.at
          /\ Abort(e).paused = e.paused /\ Abort(e).aborted
          /\ Abort(e).staging = e.staging /\ Abort(e).asked = e.asked /\ Abort(e).keep = e.keep
      BY <1>2, AbortIs
    <2>2. t.job[j] = Abort(e) /\ t.active = active /\ t.exports = exports
      BY <1>1, <2>1, PutHost
    <2> HIDE DEF t
    <2>3. e.at \in Busy /\ e.state = "running"
      BY <1>1, <1>2, <1>5 DEF Entry, Places, Consistent
    <2>4. Consistent(t, j)
      BY <1>1, <1>2, <2>1, <2>2, <2>3 DEF Consistent, Busy, Terminals
    <2>5. Good(t) /\ Quiet(t)
      BY <2>1, <2>3, <2>4, PutSound DEF t
    <2>6. Become({t})
      BY <1>3, <1>5 DEF t
    <2> QED BY <1>3, <2>5, <2>6, BecomeGood DEF IInv
  <1> QED BY <1>4, <1>5

\* An export that begins, or goes on, asks the holder of the slot to stop.
LEMMA AskActiveGood ==
    ASSUME IInv, NEW h \in Hosts, h.job = job, h.active = active, h.exports > 0
    PROVE  Good(AskActive(h)) /\ Quiet(AskActive(h))
  <1> DEFINE a == h.active
  <1>1. ASSUME NEW k \in Jobs, k # a PROVE Consistent(h, k)
    <2>1. Consistent(Host, k) /\ Host.job = job /\ Host.active = active
      BY EntryIs
    <2> QED BY <1>1, <2>1 DEF Consistent, Busy
  <1>2. CASE a = NoJob
    <2>1. AskActive(h) = h
      BY <1>2 DEF AskActive
    <2> QED BY <1>1, <1>2, <2>1, ConstantsAssumption DEF Good, Quiet, Hosts
  <1>3. CASE a # NoJob
    <2> DEFINE e == Ask(job[a])
               t == Put(h, a, e)
    <2>1. a \in Jobs /\ AskActive(h) = t
      BY <1>3 DEF AskActive, Hosts
    <2>2. job[a] \in Entry /\ Consistent(Host, a) /\ Host.job = job /\ Host.active = a
      BY <2>1, EntryIs
    <2>3. e \in Entry
      BY <2>2, AskIs
    <2>4. t.job[a] = e /\ t.active = a /\ t.exports = h.exports
      BY <2>1, <2>3, PutHost
    <2> HIDE DEF t, a
    <2>5. Consistent(t, a)
      BY <2>2, <2>4, AskIs DEF Consistent, Busy, Terminals
    <2>6. Good(t)
      BY <1>1, <2>1, <2>3, <2>5, PutGood DEF t
    <2> QED BY <1>3, <2>1, <2>4, <2>6 DEF Quiet
  <1> QED BY <1>2, <1>3

LEMMA HoldIs ==
    ASSUME IInv, NEW n \in Nat
    PROVE  /\ [Host EXCEPT !.exports = n] \in Hosts
           /\ [Host EXCEPT !.exports = n].job = job
           /\ [Host EXCEPT !.exports = n].active = active
           /\ [Host EXCEPT !.exports = n].exports = n
  BY InvariantIs DEF Host, Hosts, TypeOK

LEMMA StartExportSound ==
    ASSUME IInv, StartExport
    PROVE  IInv'
  <1> DEFINE h == [Host EXCEPT !.exports = exports + 1]
  <1>1. /\ Become({AskActive(h)}) /\ seq' = seq /\ requests' \in Nat
        /\ exports \in Nat
    BY InvariantIs DEF StartExport, Request, IInv, TypeOK
  <1>2. h \in Hosts /\ h.job = job /\ h.active = active /\ h.exports > 0
    BY <1>1, HoldIs
  <1> HIDE DEF h
  <1>3. Good(AskActive(h)) /\ Quiet(AskActive(h))
    BY <1>2, AskActiveGood
  <1> QED BY <1>1, <1>3, BecomeGood DEF IInv

\* The jobs an export held wait again once the last export has ended.
LEMMA ReleasedGood ==
    ASSUME IInv, NEW h \in Hosts, h.job = job, h.active = active, h.exports = 0
    PROVE  /\ Good([h EXCEPT !.job = [j \in Jobs |-> Released(job[j])]])
           /\ [h EXCEPT !.job = [j \in Jobs |-> Released(job[j])]].job
                = [j \in Jobs |-> Released(job[j])]
           /\ [h EXCEPT !.job = [j \in Jobs |-> Released(job[j])]].exports = 0
  <1> DEFINE r == [h EXCEPT !.job = [j \in Jobs |-> Released(job[j])]]
  <1>1. ASSUME NEW j \in Jobs
        PROVE  /\ Released(job[j]) \in Entry
               /\ Released(job[j]).state # "paused_export"
               /\ job[j].state = "paused_export" => Released(job[j]).state = "preempted"
               /\ job[j].state # "paused_export" => Released(job[j]) = job[j]
               /\ Released(job[j]).at = job[j].at
               /\ Released(job[j]).paused = job[j].paused
               /\ Released(job[j]).aborted = job[j].aborted
    BY EntryIs DEF Released, Entry, JobStates
  <1>2. /\ r \in Hosts /\ r.active = active /\ r.exports = 0
        /\ r.job = [j \in Jobs |-> Released(job[j])]
        /\ \A j \in Jobs : r.job[j] = Released(job[j])
    BY <1>1 DEF Hosts
  <1> HIDE DEF r
  <1>3. ASSUME NEW j \in Jobs PROVE Consistent(r, j)
    <2>1. job[j] \in Entry /\ Consistent(Host, j) /\ Host.job = job /\ Host.active = active
      BY EntryIs
    <2>2. CASE job[j].state = "paused_export"
      BY <1>1, <1>2, <2>1, <2>2 DEF Consistent, Busy, Terminals
    <2>3. CASE job[j].state # "paused_export"
      BY <1>1, <1>2, <2>1, <2>3 DEF Consistent
    <2> QED BY <2>2, <2>3
  <1>4. Good(r)
    BY <1>2, <1>3 DEF Good
  <1> QED BY <1>2, <1>4 DEF r

LEMMA EndExportSound ==
    ASSUME IInv, EndExport
    PROVE  IInv'
  <1> DEFINE h == [Host EXCEPT !.exports = exports - 1]
             r == [h EXCEPT !.job = [j \in Jobs |-> Released(job[j])]]
  <1>1. /\ Become(IF h.exports > 0 THEN {AskActive(h)} ELSE Pump(r))
        /\ seq' = seq /\ requests' = requests /\ exports \in Nat /\ exports > 0
    BY InvariantIs DEF EndExport, TypeOK
  <1>2. /\ h \in Hosts /\ h.job = job /\ h.active = active /\ h.exports = exports - 1
    BY <1>1, HoldIs
  <1> HIDE DEF h
  <1>3. CASE h.exports > 0
    <2>1. Good(AskActive(h)) /\ Quiet(AskActive(h))
      BY <1>2, <1>3, AskActiveGood
    <2> QED BY <1>1, <1>3, <2>1, BecomeGood DEF IInv
  <1>4. CASE ~(h.exports > 0)
    <2>1. h.exports = 0
      BY <1>1, <1>2, <1>4
    <2>2. Good(r)
      BY <1>2, <2>1, ReleasedGood
    <2> QED BY <1>1, <1>4, <2>2, PumpGood, BecomeGood DEF IInv
  <1> QED BY <1>3, <1>4

\* A job whose runner is at work holds the slot.
LEMMA HolderIs ==
    ASSUME IInv, NEW j \in Jobs, job[j].at \in Busy
    PROVE  /\ Host \in Hosts /\ Host.job = job /\ Host.exports = exports
           /\ Host.active = j /\ job[j].state = "running" /\ job[j] \in Entry
           /\ Consistent(Host, j) /\ \A k \in Jobs \ {j} : Consistent(Host, k)
  BY EntryIs DEF Consistent

LEMMA CheckAnswersSound ==
    ASSUME IInv, NEW j \in Jobs, CheckAnswers(j)
    PROVE  IInv'
  <1>1. /\ Become(Checkpoint(Host, j) \cup Settle(Host, j, "failed"))
        /\ job[j].at \in Busy /\ seq' = seq /\ requests' = requests
    BY DEF CheckAnswers, Busy
  <1>2. \A t \in Checkpoint(Host, j) : Good(t) /\ Quiet(t)
    BY <1>1, HolderIs, CheckpointGood
  <1>3. \A t \in Settle(Host, j, "failed") : Good(t) /\ Quiet(t)
    BY <1>1, HolderIs, SettleGood DEF Terminals
  <1> QED BY <1>1, <1>2, <1>3, BecomeGood DEF IInv

LEMMA ReadAnswersSound ==
    ASSUME IInv, NEW j \in Jobs, ReadAnswers(j)
    PROVE  IInv'
  <1> DEFINE n == [job[j] EXCEPT !.at = "prepare"]
             p == Put(Host, j, n)
             T == IF job[j].asked THEN Checkpoint(Host, j) ELSE {p}
  <1>1. /\ Become(Settle(Host, j, "failed") \cup T)
        /\ job[j].at = "read" /\ job[j].at \in Busy /\ seq' = seq /\ requests' = requests
    BY DEF ReadAnswers, Busy
  <1>2. \A t \in Checkpoint(Host, j) : Good(t) /\ Quiet(t)
    BY <1>1, HolderIs, CheckpointGood
  <1>3. \A t \in Settle(Host, j, "failed") : Good(t) /\ Quiet(t)
    BY <1>1, HolderIs, SettleGood DEF Terminals
  <1>4. ASSUME ~job[j].asked PROVE Good(p) /\ Quiet(p)
    <2>1. /\ n \in Entry /\ n.at = "prepare" /\ n.state = "running" /\ n.asked = job[j].asked
          /\ n.paused = job[j].paused /\ n.aborted = job[j].aborted
      BY <1>1, HolderIs DEF Entry, Places, Busy
    <2> HIDE DEF n
    <2>2. p.job[j] = n /\ p.active = j /\ p.exports = exports
      BY <1>1, <2>1, HolderIs, PutHost
    <2> HIDE DEF p
    <2>3. Consistent(p, j)
      BY <1>1, <1>4, <2>1, <2>2, HolderIs DEF Consistent, Busy, Terminals
    <2> QED BY <2>1, <2>3, PutSound DEF p
  <1> HIDE DEF p
  <1>5. \A t \in T : Good(t) /\ Quiet(t)
    BY <1>2, <1>4
  <1> QED BY <1>1, <1>3, <1>5, BecomeGood DEF IInv

LEMMA ReturnedGood ==
    ASSUME IInv, NEW j \in Jobs, job[j].at \in Busy, NEW run \in Entry,
           run.state = "running", NEW failed \in BOOLEAN, NEW t \in Returned(run, j, failed)
    PROVE  Good(t) /\ Quiet(t)
  <1> DEFINE e == [run EXCEPT !.stop = FALSE, !.told = FALSE]
             p == Put(Host, j, e)
  <1>1. e \in Entry /\ e.state = "running"
    BY DEF Entry
  <1>2. \/ t \in Checkpoint(p, j)
        \/ t \in Settle(p, j, "completed")
    BY DEF Returned
  <1> HIDE DEF e
  <1>3. /\ p \in Hosts /\ p.active = j /\ p.exports = Host.exports /\ p.job[j] = e
        /\ \A k \in Jobs \ {j} : p.job[k] = Host.job[k]
    BY <1>1, HolderIs, PutHost
  <1> HIDE DEF p
  <1>4. \A k \in Jobs \ {j} : Consistent(p, k)
    BY <1>3, HolderIs, Frame
  <1> QED BY <1>1, <1>2, <1>3, <1>4, CheckpointGood, SettleGood DEF Terminals

LEMMA PrepareAnswersSound ==
    ASSUME IInv, NEW j \in Jobs, PrepareAnswers(j)
    PROVE  IInv'
  <1>1. PICK failed \in BOOLEAN : Become(Returned(job[j], j, failed))
    BY DEF PrepareAnswers
  <1>2. job[j].at \in Busy /\ seq' = seq /\ requests' = requests
    BY DEF PrepareAnswers, Busy
  <1>3. \A t \in Returned(job[j], j, failed) : Good(t) /\ Quiet(t)
    BY <1>2, HolderIs, ReturnedGood
  <1> QED BY <1>1, <1>2, <1>3, BecomeGood DEF IInv

LEMMA WorkerStartsSound ==
    ASSUME IInv, NEW j \in Jobs, WorkerStarts(j)
    PROVE  IInv'
  <1> DEFINE n == [job[j] EXCEPT !.at = "work", !.staging = "made"]
             t == Put(Host, j, n)
  <1>1. /\ job' = [job EXCEPT ![j] = n] /\ UNCHANGED <<active, exports, seq, requests>>
        /\ job[j].at = "prepare" /\ job[j].at \in Busy
    BY EntryIs DEF WorkerStarts, Busy, Entry
  <1>2. /\ n \in Entry /\ n.at = "work" /\ n.staging = "made" /\ n.state = "running"
        /\ n.asked = job[j].asked /\ n.keep = job[j].keep
        /\ n.paused = job[j].paused /\ n.aborted = job[j].aborted
    <2>1. job[j] \in Entry /\ job[j].state = "running"
      BY <1>1, HolderIs
    <2>2. "work" \in Places
      BY DEF Places, Busy
    <2> QED BY <2>1, <2>2 DEF Entry
  <1> HIDE DEF n
  <1>3. t.job[j] = n /\ t.active = j /\ t.exports = exports
    BY <1>1, <1>2, HolderIs, PutHost
  <1> HIDE DEF t
  <1>4. Consistent(t, j)
    BY <1>1, <1>2, <1>3, HolderIs DEF Consistent, Busy, Terminals
  <1>5. Good(t) /\ Quiet(t)
    BY <1>2, <1>4, PutSound DEF t
  <1>6. seq' \in Nat /\ requests' \in Nat
    BY <1>1 DEF IInv
  <1> QED BY <1>1, <1>5, <1>6, StepSound DEF t

LEMMA WorkerAnswersSound ==
    ASSUME IInv, NEW j \in Jobs, WorkerAnswers(j)
    PROVE  IInv'
  <1>1. PICK failed \in BOOLEAN, committed \in BOOLEAN :
          Become(Returned(Left(job[j], committed), j, failed))
    BY DEF WorkerAnswers
  <1>2. job[j].at \in Busy /\ seq' = seq /\ requests' = requests
    BY DEF WorkerAnswers, Busy
  <1>3. Left(job[j], committed) \in Entry /\ Left(job[j], committed).state = "running"
    <2> DEFINE left == IF committed THEN "committed" ELSE IF job[j].keep THEN "made" ELSE "none"
    <2>1. job[j] \in Entry /\ job[j].state = "running"
      BY <1>2, HolderIs
    <2>2. left \in {"none", "made", "committed"}
      OBVIOUS
    <2>3. Left(job[j], committed) = [job[j] EXCEPT !.keep = FALSE, !.staging = left]
      BY DEF Left
    <2> HIDE DEF left
    <2>4. /\ [job[j] EXCEPT !.keep = FALSE, !.staging = left] \in Entry
          /\ [job[j] EXCEPT !.keep = FALSE, !.staging = left].state = "running"
      BY <2>1, <2>2 DEF Entry
    <2> QED BY <2>3, <2>4
  <1>4. \A t \in Returned(Left(job[j], committed), j, failed) : Good(t) /\ Quiet(t)
    BY <1>2, <1>3, ReturnedGood
  <1> QED BY <1>1, <1>2, <1>4, BecomeGood DEF IInv

LEMMA NextSound == IInv /\ [Next]_vars => IInv'
  <1> SUFFICES ASSUME IInv, [Next]_vars PROVE IInv'
    OBVIOUS
  <1>1. CASE UNCHANGED vars
    BY <1>1 DEF vars, IInv, Host, Good, Quiet, Consistent, Waiting
  <1>2. CASE StartExport \/ EndExport
    BY <1>2, StartExportSound, EndExportSound
  <1>3. ASSUME NEW j \in Jobs, NEW rank \in Ranks, NEW restored \in BOOLEAN,
               Submit(j, rank, restored)
        PROVE  IInv'
    BY <1>3, SubmitSound
  <1>4. ASSUME NEW j \in Jobs, Pause(j) \/ Resume(j) \/ Cancel(j) PROVE IInv'
    BY <1>4, PauseSound, ResumeSound, CancelSound
  <1>5. ASSUME NEW j \in Jobs, Runner(j) PROVE IInv'
    BY <1>5, CheckAnswersSound, ReadAnswersSound, PrepareAnswersSound, WorkerStartsSound,
       WorkerAnswersSound DEF Runner
  <1> QED BY <1>1, <1>2, <1>3, <1>4, <1>5 DEF Next

LEMMA Always == Spec => []IInv
  BY InitSound, NextSound, PTL DEF Spec

-----------------------------------------------------------------------------
(* What a step may do to one job.                                          *)

\* Neither an ending nor a cancel is taken back, finished windows go only with
\* their job, and a run begins only out of a read that nobody interrupted.
Follows(x, y) ==
  /\ x.state \in Terminals => y.state = x.state
  /\ x.aborted => y.aborted
  /\ x.staging = "made" /\ y.staging = "none" => y.state \in Terminals
  /\ y.at = "prepare" => x.at = "prepare" \/ (x.at = "read" /\ ~x.asked)

\* The same with the windows left alone and no run begun: what handing on the
\* slot does to a job.
Keeps(x, y) ==
  /\ Follows(x, y) /\ y.staging = x.staging
  /\ y.at = "prepare" => x.at = "prepare"

LEMMA PumpFollows ==
    ASSUME NEW h \in Hosts, NEW t \in Pump(h), NEW k \in Jobs
    PROVE  Keeps(h.job[k], t.job[k])
  <1>1. CASE t = h
    BY <1>1 DEF Keeps, Follows
  <1>2. CASE t # h
    <2>1. PICK j \in First(h) : t = Grant(h, j)
      BY <1>2 DEF Pump
    <2>2. j \in Jobs /\ h.job[j].state \in {"queued", "preempted"}
      BY DEF First, Waiting
    <2>3. /\ t.job[j] = Started(h.job[j])
          /\ \A i \in Jobs \ {j} : t.job[i] = h.job[i]
      BY <2>1, <2>2, GrantHost
    <2>4. h.job[j] \in Entry
      BY <2>2 DEF Hosts
    <2>5. Keeps(h.job[j], t.job[j])
      BY <2>2, <2>3, <2>4 DEF Keeps, Follows, Started, Entry, Terminals
    <2>6. \A i \in Jobs \ {j} : Keeps(h.job[i], t.job[i])
      BY <2>3 DEF Keeps, Follows
    <2> QED BY <2>5, <2>6
  <1> QED BY <1>1, <1>2

\* Job j leaves the slot as e, and the slot is handed on.
LEMMA LeaveFollows ==
    ASSUME NEW h \in Hosts, NEW j \in Jobs, NEW e \in Entry, NEW t \in Pump(Leave(h, j, e))
    PROVE  /\ Keeps(e, t.job[j])
           /\ \A k \in Jobs \ {j} : Keeps(h.job[k], t.job[k])
  <1>1. /\ Leave(h, j, e) \in Hosts /\ Leave(h, j, e).job[j] = e
        /\ \A k \in Jobs \ {j} : Leave(h, j, e).job[k] = h.job[k]
    BY LeaveHost
  <1> QED BY <1>1, PumpFollows

LEMMA SettleFollows ==
    ASSUME NEW h \in Hosts, NEW j \in Jobs, NEW ending \in Terminals,
           h.job[j].state \notin Terminals, NEW t \in Settle(h, j, ending)
    PROVE  /\ t.job[j].state \in Terminals
           /\ Keeps(h.job[j], t.job[j])
           /\ \A k \in Jobs \ {j} : Keeps(h.job[k], t.job[k])
  <1> DEFINE e == Ended(h.job[j], ending)
  <1>1. h.job[j] \in Entry
    BY DEF Hosts
  <1>2. /\ e \in Entry /\ e.state \in Terminals /\ e.at = "idle"
        /\ e.aborted = h.job[j].aborted /\ e.staging = h.job[j].staging
    BY <1>1 DEF Ended, Entry, JobStates, Terminals, Places
  <1>3. t \in Pump(Leave(h, j, e))
    BY DEF Settle
  <1> HIDE DEF e
  <1>4. /\ Keeps(e, t.job[j])
        /\ \A k \in Jobs \ {j} : Keeps(h.job[k], t.job[k])
    BY <1>2, <1>3, LeaveFollows
  <1> QED BY <1>2, <1>4 DEF Keeps, Follows

LEMMA CheckpointFollows ==
    ASSUME NEW h \in Hosts, NEW j \in Jobs, h.job[j].state = "running",
           NEW t \in Checkpoint(h, j)
    PROVE  /\ Keeps(h.job[j], t.job[j])
           /\ \A k \in Jobs \ {j} : Keeps(h.job[k], t.job[k])
  <1>1. h.job[j] \in Entry
    BY DEF Hosts
  <1>2. CASE h.job[j].aborted
    BY <1>2, SettleFollows DEF Checkpoint, Terminals
  <1>3. CASE ~h.job[j].aborted /\ ~h.job[j].paused /\ h.exports = 0 /\ ~Outranked(h, j)
    <2> DEFINE e == Continues(h.job[j])
    <2>1. t = Put(h, j, e)
      BY <1>3 DEF Checkpoint
    <2>2. e \in Entry /\ Keeps(h.job[j], e)
      BY <1>1 DEF Continues, Entry, Places, Busy, Keeps, Follows, Terminals
    <2> HIDE DEF e
    <2>3. t.job[j] = e /\ \A k \in Jobs \ {j} : t.job[k] = h.job[k]
      BY <2>1, <2>2, PutHost
    <2> QED BY <2>2, <2>3 DEF Keeps, Follows
  <1>4. CASE ~h.job[j].aborted /\ ~(~h.job[j].paused /\ h.exports = 0 /\ ~Outranked(h, j))
    <2> DEFINE e == Held(h.job[j], h.exports > 0)
    <2>1. t \in Pump(Leave(h, j, e))
      BY <1>4 DEF Checkpoint, Suspend
    <2>0. e = Held(h.job[j], h.exports > 0)
      OBVIOUS
    <2> HIDE DEF e
    <2>2. e \in Entry /\ Keeps(h.job[j], e)
      BY <2>0, HeldIs DEF Keeps, Follows, Terminals, Entry
    <2>3. /\ Keeps(e, t.job[j])
          /\ \A k \in Jobs \ {j} : Keeps(h.job[k], t.job[k])
      BY <2>1, <2>2, LeaveFollows
    <2> QED BY <2>2, <2>3 DEF Keeps, Follows
  <1> QED BY <1>2, <1>3, <1>4

\* What a step makes of the host, in the words of its jobs.
LEMMA BecomeFollows ==
    ASSUME NEW T, Become(T), NEW k \in Jobs, \A t \in T : Follows(job[k], t.job[k])
    PROVE  Follows(job[k], job'[k])
  BY DEF Become

LEMMA SameFollows == \A x : Follows(x, x)
  BY DEF Follows

LEMMA KeepsFollows == \A x, y : Keeps(x, y) => Follows(x, y)
  BY DEF Keeps

LEMMA FollowsKeeps == \A x, y, z : Follows(x, y) /\ Keeps(y, z) => Follows(x, z)
  BY DEF Keeps, Follows

LEMMA SubmitFollows ==
    ASSUME IInv, NEW j \in Jobs, NEW rank \in Ranks, NEW restored \in BOOLEAN,
           Submit(j, rank, restored), NEW k \in Jobs
    PROVE  Follows(job[k], job'[k])
  <1>1. PICK h \in Hosts :
          /\ Become(Pump(h)) /\ h.job[j].state = "queued" /\ h.job[j].at = "idle"
          /\ \A i \in Jobs \ {j} :
               \A f \in {"state", "at", "staging", "aborted"} : h.job[i][f] = job[i][f]
    BY SubmitHost
  <1>2. /\ job[j].state = "new" /\ ~job[j].aborted /\ job[j].staging = "none"
        /\ Host.job = job
    BY EntryIs DEF Submit, Consistent
  <1>3. Follows(job[k], h.job[k])
    <2>1. CASE k = j
      BY <1>1, <1>2, <2>1 DEF Follows, Terminals
    <2>2. CASE k # j
      <3>1. /\ h.job[k].state = job[k].state /\ h.job[k].at = job[k].at
            /\ h.job[k].staging = job[k].staging /\ h.job[k].aborted = job[k].aborted
        BY <1>1, <2>2
      <3> QED BY <3>1 DEF Follows
    <2> QED BY <2>1, <2>2
  <1>4. \A t \in Pump(h) : Follows(job[k], t.job[k])
    BY <1>3, PumpFollows, FollowsKeeps
  <1> QED BY <1>1, <1>4, BecomeFollows

\* A request changes one job, and leaves its place and its windows.
LEMMA OneFollows ==
    ASSUME IInv, NEW j \in Jobs, NEW e \in Entry, Live(job[j]), e.at = job[j].at,
           e.staging = job[j].staging, job[j].aborted => e.aborted, NEW k \in Jobs
    PROVE  Follows(job[k], Put(Host, j, e).job[k])
  <1>1. /\ Put(Host, j, e).job[j] = e
        /\ \A i \in Jobs \ {j} : Put(Host, j, e).job[i] = job[i]
    <2>1. Host \in Hosts /\ Host.job = job
      BY EntryIs
    <2> QED BY <2>1, PutHost
  <1>2. Follows(job[j], e)
    BY DEF Follows, Live
  <1> QED BY <1>1, <1>2, SameFollows

LEMMA RequestFollows ==
    ASSUME IInv, NEW j \in Jobs, Pause(j) \/ Resume(j) \/ Cancel(j), NEW k \in Jobs
    PROVE  Follows(job[k], job'[k])
  <1>1. job[j] \in Entry /\ Host \in Hosts /\ Host.job = job /\ j # NoJob
    BY EntryIs
  <1>2. CASE Pause(j)
    <2> DEFINE e == [job[j] EXCEPT !.paused = TRUE]
               n == IF j = active THEN Ask(e) ELSE [e EXCEPT !.state = "paused"]
    <2>1. e \in Entry /\ e.at = job[j].at /\ e.staging = job[j].staging /\ e.aborted = job[j].aborted
      BY <1>1 DEF Entry
    <2>2. job' = [job EXCEPT ![j] = n] /\ Live(job[j])
      BY <1>2 DEF Pause
    <2>3. n = IF j = active THEN Ask(e) ELSE [e EXCEPT !.state = "paused"]
      OBVIOUS
    <2> HIDE DEF e, n
    <2>4. n \in Entry /\ n.at = e.at /\ n.staging = e.staging /\ n.aborted = e.aborted
      <3>1. CASE j = active
        BY <2>1, <2>3, <3>1, AskIs
      <3>2. CASE j # active
        BY <2>1, <2>3, <3>2 DEF Entry, JobStates
      <3> QED BY <3>1, <3>2
    <2>5. Follows(job[k], Put(Host, j, n).job[k])
      BY <2>1, <2>2, <2>4, OneFollows
    <2>6. Put(Host, j, n).job = job'
      BY <1>1, <2>2 DEF Put, Host
    <2> QED BY <2>5, <2>6
  <1>3. CASE Resume(j)
    <2> DEFINE e == [job[j] EXCEPT !.paused = FALSE]
               n == IF j = active THEN e
                    ELSE [e EXCEPT !.state = IF e.at = "idle" THEN "queued" ELSE "preempted"]
               p == Put(Host, j, n)
    <2>1. e \in Entry /\ e.at = job[j].at /\ e.staging = job[j].staging /\ e.aborted = job[j].aborted
      BY <1>1 DEF Entry
    <2>2. Become(Pump(p)) /\ Live(job[j])
      BY <1>3 DEF Resume
    <2> HIDE DEF e
    <2>3. n \in Entry /\ n.at = e.at /\ n.staging = e.staging /\ n.aborted = e.aborted
      BY <2>1 DEF Entry, JobStates
    <2> HIDE DEF n
    <2>4. Follows(job[k], p.job[k]) /\ p \in Hosts
      <3>1. Follows(job[k], p.job[k])
        BY <2>1, <2>2, <2>3, OneFollows
      <3>2. p \in Hosts
        BY <2>3, HostPut
      <3> QED BY <3>1, <3>2
    <2> HIDE DEF p
    <2>5. \A t \in Pump(p) : Follows(job[k], t.job[k])
      BY <2>4, PumpFollows, FollowsKeeps
    <2> QED BY <2>2, <2>5, BecomeFollows
  <1>4. CASE Cancel(j)
    <2> DEFINE e == [job[j] EXCEPT !.aborted = TRUE]
               p == Put(Host, j, e)
               q == Put(Host, j, Abort(e))
    <2>1. /\ e \in Entry /\ e.at = job[j].at /\ e.staging = job[j].staging /\ e.aborted
          /\ e.state = job[j].state
      BY <1>1 DEF Entry
    <2>2. /\ Become(IF e.at \in {"idle", "held"} THEN Settle(p, j, "cancelled") ELSE {q})
          /\ Live(job[j])
      BY <1>4 DEF Cancel
    <2> HIDE DEF e
    <2>3. Follows(job[k], p.job[k]) /\ p \in Hosts /\ p.job[j] = e
      BY <1>1, <2>1, <2>2, OneFollows, PutHost
    <2>4. Follows(job[k], q.job[k])
      BY <2>1, <2>2, AbortIs, OneFollows
    <2> HIDE DEF p, q
    <2>5. \A t \in Settle(p, j, "cancelled") : Keeps(p.job[k], t.job[k])
      BY <2>1, <2>2, <2>3, SettleFollows DEF Live, Terminals
    <2>6. \A t \in Settle(p, j, "cancelled") : Follows(job[k], t.job[k])
      BY <2>3, <2>5, FollowsKeeps
    <2> QED BY <2>2, <2>4, <2>6, BecomeFollows
  <1> QED BY <1>2, <1>3, <1>4

LEMMA AskActiveFollows ==
    ASSUME IInv, NEW h \in Hosts, h.job = job, h.active = active, NEW k \in Jobs
    PROVE  Follows(job[k], AskActive(h).job[k])
  <1>1. CASE h.active = NoJob
    BY <1>1, SameFollows DEF AskActive
  <1>2. CASE h.active # NoJob
    <2> DEFINE a == h.active
               e == Ask(job[a])
    <2>1. a \in Jobs /\ AskActive(h) = Put(h, a, e)
      BY <1>2 DEF AskActive, Hosts
    <2>2. e \in Entry /\ e.state = job[a].state /\ e.at = job[a].at
          /\ e.aborted = job[a].aborted /\ e.staging = job[a].staging
      BY <2>1, EntryIs, AskIs
    <2>3. Follows(job[a], e)
      BY <2>2 DEF Follows
    <2> HIDE DEF e
    <2>4. /\ Put(h, a, e).job[a] = e
          /\ \A i \in Jobs \ {a} : Put(h, a, e).job[i] = job[i]
      BY <2>1, <2>2, PutHost
    <2> QED BY <2>1, <2>3, <2>4, SameFollows
  <1> QED BY <1>1, <1>2

LEMMA ExportFollows ==
    ASSUME IInv, StartExport \/ EndExport, NEW k \in Jobs
    PROVE  Follows(job[k], job'[k])
  <1>1. exports \in Nat
    BY InvariantIs DEF TypeOK
  <1>2. CASE StartExport
    <2> DEFINE h == [Host EXCEPT !.exports = exports + 1]
    <2>1. Become({AskActive(h)}) /\ h \in Hosts /\ h.job = job /\ h.active = active
      BY <1>1, <1>2, HoldIs DEF StartExport
    <2> HIDE DEF h
    <2> QED BY <2>1, AskActiveFollows, BecomeFollows
  <1>3. CASE EndExport
    <2> DEFINE h == [Host EXCEPT !.exports = exports - 1]
               r == [h EXCEPT !.job = [j \in Jobs |-> Released(job[j])]]
    <2>1. /\ Become(IF h.exports > 0 THEN {AskActive(h)} ELSE Pump(r))
          /\ h \in Hosts /\ h.job = job /\ h.active = active
      BY <1>1, <1>3, HoldIs DEF EndExport
    <2> HIDE DEF h
    <2>2. ASSUME NEW i \in Jobs
          PROVE  Released(job[i]) \in Entry /\ Follows(job[i], Released(job[i]))
      BY EntryIs DEF Released, Entry, JobStates, Follows, Terminals
    <2>3. r \in Hosts /\ Follows(job[k], r.job[k])
      BY <2>1, <2>2 DEF Hosts
    <2> HIDE DEF r
    <2>4. \A t \in Pump(r) : Follows(job[k], t.job[k])
      BY <2>3, PumpFollows, FollowsKeeps
    <2>5. \A t \in {AskActive(h)} : Follows(job[k], t.job[k])
      BY <2>1, AskActiveFollows
    <2> QED BY <2>1, <2>4, <2>5, BecomeFollows
  <1> QED BY <1>2, <1>3

\* The runner of the job that holds the slot comes to a checkpoint, or ends.
LEMMA HolderFollows ==
    ASSUME IInv, NEW j \in Jobs, job[j].at \in Busy, NEW ending \in Terminals,
           NEW t \in Checkpoint(Host, j) \cup Settle(Host, j, ending), NEW k \in Jobs
    PROVE  Follows(job[k], t.job[k])
  <1>1. Host \in Hosts /\ Host.job = job /\ job[j].state = "running"
    BY HolderIs
  <1>2. Keeps(job[k], t.job[k])
    BY <1>1, CheckpointFollows, SettleFollows DEF Terminals
  <1> QED BY <1>2, KeepsFollows

LEMMA ReturnedFollows ==
    ASSUME IInv, NEW j \in Jobs, job[j].at \in {"prepare", "work"}, NEW run \in Entry,
           \A f \in {"state", "at", "asked", "aborted"} : run[f] = job[j][f],
           job[j].staging = "made" /\ run.staging = "none" => ~job[j].keep,
           NEW failed \in BOOLEAN, NEW t \in Returned(run, j, failed), NEW k \in Jobs
    PROVE  Follows(job[k], t.job[k])
  <1> DEFINE e == [run EXCEPT !.stop = FALSE, !.told = FALSE]
             p == Put(Host, j, e)
  <1>1. /\ Host \in Hosts /\ Host.job = job /\ job[j].state = "running" /\ Consistent(Host, j)
    BY HolderIs DEF Busy
  <1>2. /\ e \in Entry /\ e.state = "running" /\ e.at = job[j].at /\ e.asked = job[j].asked
        /\ e.aborted = job[j].aborted /\ e.staging = run.staging
    <2>1. run.state = "running" /\ run.at = job[j].at /\ run.asked = job[j].asked
          /\ run.aborted = job[j].aborted
      BY <1>1
    <2> QED BY <2>1 DEF Entry
  <1>3. \/ e.asked /\ t \in Checkpoint(p, j)
        \/ t \in Settle(p, j, "completed")
    BY DEF Returned
  <1> HIDE DEF e
  <1>4. /\ p \in Hosts /\ p.job[j] = e /\ \A i \in Jobs \ {j} : p.job[i] = job[i]
    BY <1>1, <1>2, PutHost
  <1> HIDE DEF p
  <1>5. CASE e.asked /\ t \in Checkpoint(p, j)
    <2>1. job[j].keep
      BY <1>1, <1>2, <1>5 DEF Consistent
    <2>2. Follows(job[j], e)
      BY <1>1, <1>2, <2>1 DEF Follows, Terminals
    <2>3. Follows(job[k], p.job[k])
      BY <1>4, <2>2, SameFollows
    <2>4. Keeps(p.job[k], t.job[k])
      BY <1>2, <1>4, <1>5, CheckpointFollows
    <2> QED BY <2>3, <2>4, FollowsKeeps
  <1>6. CASE t \in Settle(p, j, "completed")
    <2>1. /\ t.job[j].state \in Terminals /\ Keeps(e, t.job[j])
          /\ \A i \in Jobs \ {j} : Keeps(job[i], t.job[i])
      <3>1. p.job[j].state \notin Terminals /\ "completed" \in Terminals
        BY <1>2, <1>4 DEF Terminals
      <3>2. /\ t.job[j].state \in Terminals /\ Keeps(p.job[j], t.job[j])
            /\ \A i \in Jobs \ {j} : Keeps(p.job[i], t.job[i])
        BY <1>4, <1>6, <3>1, SettleFollows
      <3> QED BY <1>4, <3>2
    <2>2. Follows(job[j], t.job[j])
      BY <1>1, <1>2, <2>1 DEF Keeps, Follows, Terminals
    <2> QED BY <2>1, <2>2, KeepsFollows
  <1> QED BY <1>3, <1>5, <1>6

LEMMA RunnerFollows ==
    ASSUME IInv, NEW j \in Jobs, Runner(j), NEW k \in Jobs
    PROVE  Follows(job[k], job'[k])
  <1>1. CASE CheckAnswers(j)
    <2>1. Become(Checkpoint(Host, j) \cup Settle(Host, j, "failed")) /\ job[j].at \in Busy
      BY <1>1 DEF CheckAnswers, Busy
    <2> QED BY <2>1, HolderFollows, BecomeFollows DEF Terminals
  <1>2. CASE ReadAnswers(j)
    <2> DEFINE n == [job[j] EXCEPT !.at = "prepare"]
               p == Put(Host, j, n)
               T == IF job[j].asked THEN Checkpoint(Host, j) ELSE {p}
    <2>1. /\ Become(Settle(Host, j, "failed") \cup T)
          /\ job[j].at = "read" /\ job[j].at \in Busy
      BY <1>2 DEF ReadAnswers, Busy
    <2>2. Host \in Hosts /\ Host.job = job /\ job[j] \in Entry /\ job[j].state = "running"
      BY <2>1, HolderIs
    <2>3. ASSUME ~job[j].asked PROVE Follows(job[k], p.job[k])
      <3>1. n \in Entry /\ Follows(job[j], n)
        BY <2>1, <2>2, <2>3 DEF Entry, Places, Busy, Follows
      <3> HIDE DEF n
      <3>2. p.job[j] = n /\ \A i \in Jobs \ {j} : p.job[i] = job[i]
        BY <2>2, <3>1, PutHost
      <3> QED BY <3>1, <3>2, SameFollows
    <2> HIDE DEF p
    <2>4. \A t \in Settle(Host, j, "failed") \cup T : Follows(job[k], t.job[k])
      BY <2>1, <2>3, HolderFollows DEF Terminals
    <2> QED BY <2>1, <2>4, BecomeFollows
  <1>3. CASE PrepareAnswers(j)
    <2>1. PICK failed \in BOOLEAN : Become(Returned(job[j], j, failed))
      BY <1>3 DEF PrepareAnswers
    <2>2. job[j].at \in {"prepare", "work"} /\ job[j] \in Entry
      BY <1>3, EntryIs DEF PrepareAnswers
    <2>3. \A t \in Returned(job[j], j, failed) : Follows(job[k], t.job[k])
      BY <2>2, ReturnedFollows
    <2> QED BY <2>1, <2>3, BecomeFollows
  <1>4. CASE WorkerStarts(j)
    <2>1. job[j] \in Entry /\ job \in [Jobs -> Entry]
      BY EntryIs, InvariantIs DEF TypeOK
    <2>2. /\ job'[j].at = "work" /\ job'[j].staging = "made"
          /\ job'[j].state = job[j].state /\ job'[j].aborted = job[j].aborted
          /\ \A i \in Jobs \ {j} : job'[i] = job[i]
      BY <1>4, <2>1 DEF WorkerStarts, Entry
    <2> QED BY <2>2, SameFollows DEF Follows
  <1>5. CASE WorkerAnswers(j)
    <2>1. PICK failed \in BOOLEAN, committed \in BOOLEAN :
            Become(Returned(Left(job[j], committed), j, failed))
      BY <1>5 DEF WorkerAnswers
    <2>2. job[j].at \in {"prepare", "work"} /\ job[j] \in Entry
      BY <1>5, EntryIs DEF WorkerAnswers
    <2> DEFINE run == Left(job[j], committed)
               left == IF committed THEN "committed" ELSE IF job[j].keep THEN "made" ELSE "none"
    <2>3. run = [job[j] EXCEPT !.keep = FALSE, !.staging = left]
      BY DEF Left
    <2>4. left \in {"none", "made", "committed"} /\ (left = "none" => ~job[j].keep)
      OBVIOUS
    <2> HIDE DEF run, left
    <2>5. /\ run \in Entry /\ run.staging = left
          /\ run.state = job[j].state /\ run.at = job[j].at
          /\ run.asked = job[j].asked /\ run.aborted = job[j].aborted
      BY <2>2, <2>3, <2>4 DEF Entry
    <2>6. \A f \in {"state", "at", "asked", "aborted"} : run[f] = job[j][f]
      BY <2>5
    <2>7. \A t \in Returned(run, j, failed) : Follows(job[k], t.job[k])
      BY <2>2, <2>4, <2>5, <2>6, ReturnedFollows
    <2> QED BY <2>1, <2>7, BecomeFollows DEF run
  <1> QED BY <1>1, <1>2, <1>3, <1>4, <1>5 DEF Runner

LEMMA NextFollows ==
    ASSUME IInv, [Next]_vars, NEW k \in Jobs
    PROVE  Follows(job[k], job'[k])
  <1>1. CASE UNCHANGED vars
    BY <1>1, SameFollows DEF vars
  <1>2. CASE Next
    BY <1>2, SubmitFollows, RequestFollows, RunnerFollows, ExportFollows DEF Next
  <1> QED BY <1>1, <1>2

-----------------------------------------------------------------------------
(* The contract                                                            *)

\* The contract sees no difference between two hosts, but for the phases.
Alike(h, t) ==
  /\ PausedOf(t.job) = PausedOf(h.job) /\ CancelledOf(t.job) = CancelledOf(h.job)
  /\ WindowsOf(t.job) = WindowsOf(h.job) /\ t.exports = h.exports

\* The slot is handed on out of phases p, under the pauses and the exports of h.
ServedTo(p, h, t) == PhaseOf(t.job) \in Contract!Served(p, PausedOf(h.job), h.exports)

LEMMA OneAlike ==
    ASSUME NEW f, NEW g, NEW j \in Jobs, \A k \in Jobs \ {j} : g.job[k] = f.job[k],
           g.job[j].paused = f.job[j].paused, g.job[j].aborted = f.job[j].aborted,
           g.job[j].staging = f.job[j].staging, g.exports = f.exports
    PROVE  Alike(f, g)
  BY DEF Alike, PausedOf, CancelledOf, WindowsOf

\* The contract and a consistent host agree on who holds the slot and who wants it.
LEMMA PhaseIs ==
    ASSUME NEW h, Good(h), NEW j \in Jobs
    PROVE  /\ Phase(h.job[j]) \in Contract!Holding <=> h.active = j
           /\ j \in Waiting(h) => Phase(h.job[j]) = "out" /\ ~h.job[j].paused
           /\ Phase(h.job[j]) = "out" /\ ~h.job[j].paused /\ h.exports = 0 => j \in Waiting(h)
  <1>1. h.job[j] \in Entry /\ Consistent(h, j) /\ h.exports \in Nat
    BY DEF Good, Hosts
  <1>2. h.job[j].state \in JobStates /\ h.job[j].at \in Places
    BY <1>1 DEF Entry
  <1>3. Phase(h.job[j]) \in Contract!Holding <=> h.job[j].at \in Busy
    BY <1>1, <1>2 DEF Phase, Contract!Holding, Consistent, JobStates, Terminals, Busy
  <1>4. h.job[j].at \in Busy <=> h.active = j
    BY <1>1 DEF Consistent
  <1>5. j \in Waiting(h) => Phase(h.job[j]) = "out" /\ ~h.job[j].paused
    BY <1>1, <1>2 DEF Phase, Waiting, Consistent, Terminals, Busy
  <1>6. Phase(h.job[j]) = "out" /\ ~h.job[j].paused /\ h.exports = 0 => j \in Waiting(h)
    BY <1>1, <1>2 DEF Phase, Waiting, Consistent, JobStates, Terminals, Places, Busy
  <1> QED BY <1>3, <1>4, <1>5, <1>6

LEMMA PumpServes ==
    ASSUME NEW h, Good(h), NEW t \in Pump(h)
    PROVE  Alike(h, t) /\ ServedTo(PhaseOf(h.job), h, t)
  <1> DEFINE p == PhaseOf(h.job)
             w == PausedOf(h.job)
  <1>1. h \in Hosts /\ h.exports \in Nat /\ h.active \in Jobs \cup {NoJob}
    BY DEF Good, Hosts
  <1>2. \A j \in Jobs : p[j] = Phase(h.job[j]) /\ w[j] = h.job[j].paused
    BY DEF PhaseOf, PausedOf
  <1> HIDE DEF p, w
  <1>3. (\A j \in Jobs : p[j] \notin Contract!Holding) <=> h.active = NoJob
    BY <1>1, <1>2, PhaseIs, ConstantsAssumption
  <1>4. h.exports = 0 => Contract!Wanting(p, w) = Waiting(h)
    <2>1. Waiting(h) \subseteq Jobs
      BY DEF Waiting
    <2> QED BY <1>2, <2>1, PhaseIs DEF Contract!Wanting
  <1>5. CASE h.active # NoJob \/ h.exports > 0 \/ Waiting(h) = {}
    <2>1. t = h
      BY <1>5 DEF Pump
    <2>2. Contract!Served(p, w, h.exports) = {p}
      BY <1>1, <1>3, <1>4, <1>5 DEF Contract!Served
    <2> QED BY <2>1, <2>2 DEF Alike, ServedTo, p, w
  <1>6. CASE ~(h.active # NoJob \/ h.exports > 0 \/ Waiting(h) = {})
    <2>1. PICK j \in First(h) : t = Grant(h, j)
      BY <1>6 DEF Pump
    <2>2. j \in Waiting(h) /\ j \in Jobs /\ h.job[j] \in Entry
      BY <1>1 DEF First, Waiting, Hosts
    <2>3. /\ t.job[j] = Started(h.job[j]) /\ t.exports = h.exports
          /\ \A k \in Jobs \ {j} : t.job[k] = h.job[k]
      BY <1>1, <2>1, <2>2, GrantHost
    <2>4. /\ Started(h.job[j]).paused = h.job[j].paused
          /\ Started(h.job[j]).aborted = h.job[j].aborted
          /\ Started(h.job[j]).staging = h.job[j].staging
          /\ Phase(Started(h.job[j])) = "in"
      BY <2>2 DEF Started, Entry, Phase, Terminals
    <2>5. Alike(h, t)
      BY <2>2, <2>3, <2>4, OneAlike
    <2>6. PhaseOf(t.job) = [k \in Jobs |-> IF k = j THEN "in" ELSE p[k]]
      BY <1>2, <2>3, <2>4 DEF PhaseOf
    <2>7. h.exports = 0 /\ h.active = NoJob
      BY <1>1, <1>6
    <2>8. PhaseOf(t.job) \in Contract!Served(p, w, h.exports)
      BY <1>3, <1>4, <2>2, <2>6, <2>7 DEF Contract!Served
    <2> QED BY <2>5, <2>8 DEF ServedTo, p, w
  <1> QED BY <1>5, <1>6

\* Job j leaves the slot as e, and the slot is handed on.
LEMMA LeaveServes ==
    ASSUME NEW h \in Hosts, NEW j \in Jobs, NEW e \in Entry, Good(Leave(h, j, e)),
           NEW t \in Pump(Leave(h, j, e)), e.paused = h.job[j].paused,
           e.aborted = h.job[j].aborted, e.staging = h.job[j].staging
    PROVE  Alike(h, t) /\ ServedTo([PhaseOf(h.job) EXCEPT ![j] = Phase(e)], h, t)
  <1> DEFINE l == Leave(h, j, e)
  <1>1. /\ l.job[j] = e /\ l.exports = h.exports /\ Good(l) /\ t \in Pump(l)
        /\ \A k \in Jobs \ {j} : l.job[k] = h.job[k]
    BY LeaveHost
  <1> HIDE DEF l
  <1>2. PhaseOf(l.job) = [PhaseOf(h.job) EXCEPT ![j] = Phase(l.job[j])]
    BY <1>1 DEF PhaseOf
  <1>4. Alike(h, l)
    BY <1>1, OneAlike
  <1>3. Alike(l, t) /\ ServedTo(PhaseOf(l.job), l, t)
    BY <1>1, PumpServes
  <1> QED BY <1>1, <1>2, <1>3, <1>4 DEF Alike, ServedTo

LEMMA SettleServes ==
    ASSUME NEW h \in Hosts, NEW j \in Jobs, NEW ending \in Terminals,
           \A k \in Jobs \ {j} : Consistent(h, k), NEW t \in Settle(h, j, ending)
    PROVE  /\ Alike(h, t)
           /\ ServedTo([PhaseOf(h.job) EXCEPT ![j] =
                          IF h.job[j].aborted THEN "cancelled" ELSE ending], h, t)
  <1> DEFINE e == Ended(h.job[j], ending)
             l == Leave(h, j, e)
             s == IF h.job[j].aborted THEN "cancelled" ELSE ending
  <1>1. h.job[j] \in Entry
    BY DEF Hosts
  <1>2. /\ e \in Entry /\ e.state = s /\ e.at = "idle" /\ s \in Terminals
        /\ e.aborted = h.job[j].aborted /\ e.paused = h.job[j].paused
        /\ e.staging = h.job[j].staging /\ (e.aborted => s = "cancelled")
    BY <1>1 DEF Ended, Entry, JobStates, Terminals, Places
  <1> HIDE DEF e, s
  <1>3. l.job[j] = e /\ l.active # j
    BY <1>2, LeaveHost, ConstantsAssumption
  <1> HIDE DEF l
  <1>4. Consistent(l, j)
    BY <1>2, <1>3 DEF Consistent, Busy, Terminals
  <1>5. Good(Leave(h, j, e)) /\ t \in Pump(Leave(h, j, e))
    BY <1>2, <1>4, LeaveGood DEF l, Settle, e
  <1>6. Phase(e) = s
    BY <1>2 DEF Phase, Terminals
  <1>7. Alike(h, t) /\ ServedTo([PhaseOf(h.job) EXCEPT ![j] = Phase(e)], h, t)
    BY <1>2, <1>5, LeaveServes
  <1> QED BY <1>6, <1>7 DEF s

\* At its checkpoint the holder is over, goes on, or makes room.
LEMMA CheckpointServes ==
    ASSUME NEW h \in Hosts, NEW j \in Jobs, h.active = j, h.job[j].state = "running",
           h.job[j].at \in Busy, \A k \in Jobs \ {j} : Consistent(h, k),
           NEW t \in Checkpoint(h, j)
    PROVE  /\ Alike(h, t)
           /\ \/ /\ h.job[j].aborted
                 /\ ServedTo([PhaseOf(h.job) EXCEPT ![j] = "cancelled"], h, t)
              \/ /\ ~h.job[j].aborted /\ ~h.job[j].paused /\ h.exports = 0
                 /\ PhaseOf(t.job) = [PhaseOf(h.job) EXCEPT ![j] = "in"]
              \/ /\ ~h.job[j].aborted
                 /\ \/ h.job[j].paused \/ h.exports > 0
                    \/ \E k \in Jobs \ {j} : Phase(h.job[k]) = "out" /\ ~h.job[k].paused
                 /\ ServedTo([PhaseOf(h.job) EXCEPT ![j] = "out"], h, t)
  <1>1. h.job[j] \in Entry /\ h.exports \in Nat /\ j # NoJob
    BY ConstantsAssumption DEF Hosts
  <1>2. CASE h.job[j].aborted
    <2>1. t \in Settle(h, j, "cancelled") /\ "cancelled" \in Terminals
      BY <1>2 DEF Checkpoint, Terminals
    <2>2. Alike(h, t) /\ ServedTo([PhaseOf(h.job) EXCEPT ![j] =
                          IF h.job[j].aborted THEN "cancelled" ELSE "cancelled"], h, t)
      BY <2>1, SettleServes
    <2> QED BY <1>2, <2>2
  <1>3. CASE ~h.job[j].aborted /\ ~h.job[j].paused /\ h.exports = 0 /\ ~Outranked(h, j)
    <2> DEFINE e == Continues(h.job[j])
    <2>1. t = Put(h, j, e)
      BY <1>3 DEF Checkpoint
    <2>2. /\ e \in Entry /\ Phase(e) = "in" /\ e.paused = h.job[j].paused
          /\ e.aborted = h.job[j].aborted /\ e.staging = h.job[j].staging
      BY <1>1 DEF Continues, Entry, Places, Busy, Phase, Terminals
    <2> HIDE DEF e
    <2>3. t.job[j] = e /\ t.exports = h.exports /\ \A k \in Jobs \ {j} : t.job[k] = h.job[k]
      BY <2>1, <2>2, PutHost
    <2>4. Alike(h, t)
      BY <2>2, <2>3, OneAlike
    <2>5. PhaseOf(t.job) = [PhaseOf(h.job) EXCEPT ![j] = Phase(t.job[j])]
      BY <2>3 DEF PhaseOf
    <2> QED BY <1>3, <2>2, <2>3, <2>4, <2>5
  <1>4. CASE ~h.job[j].aborted /\ ~(~h.job[j].paused /\ h.exports = 0 /\ ~Outranked(h, j))
    <2> DEFINE e == Held(h.job[j], h.exports > 0)
               l == Leave(h, j, e)
    <2>1. t \in Pump(Leave(h, j, e))
      BY <1>4 DEF Checkpoint, Suspend
    <2>0. e = Held(h.job[j], h.exports > 0)
      OBVIOUS
    <2> HIDE DEF e
    <2>2. /\ e \in Entry /\ e.at = "held" /\ ~e.aborted
          /\ e.state = IF e.paused THEN "paused"
                       ELSE IF h.exports > 0 THEN "paused_export" ELSE "preempted"
          /\ e.paused = h.job[j].paused /\ e.aborted = h.job[j].aborted
          /\ e.staging = h.job[j].staging
      BY <1>4, <2>0, HeldIs
    <2>3. Phase(e) = "out"
      BY <2>2 DEF Phase, Terminals
    <2>4. l.job[j] = e /\ l.active # j /\ l.exports = h.exports
      BY <1>1, <2>2, LeaveHost
    <2> HIDE DEF l
    <2>5. Consistent(l, j)
      BY <2>2, <2>4 DEF Consistent, Busy, Terminals
    <2>6. Good(Leave(h, j, e))
      BY <2>2, <2>5, LeaveGood DEF l
    <2>7. Alike(h, t) /\ ServedTo([PhaseOf(h.job) EXCEPT ![j] = Phase(e)], h, t)
      BY <2>1, <2>2, <2>6, LeaveServes
    <2>8. ASSUME Outranked(h, j)
          PROVE  \E k \in Jobs \ {j} : Phase(h.job[k]) = "out" /\ ~h.job[k].paused
      <3>1. PICK k \in Waiting(h) : h.job[k].rank < h.job[j].rank
        BY <2>8 DEF Outranked
      <3>2. k \in Jobs /\ k # j
        BY <3>1, <1>1 DEF Waiting, Entry
      <3>3. Consistent(h, k) /\ h.job[k].state \in {"queued", "preempted"} /\ ~h.job[k].paused
        BY <3>1, <3>2 DEF Waiting
      <3>4. Phase(h.job[k]) = "out"
        BY <3>3 DEF Consistent, Phase, Terminals
      <3> QED BY <3>2, <3>3, <3>4
    <2>9. h.job[j].paused \/ h.exports > 0 \/ Outranked(h, j)
      BY <1>1, <1>4
    <2> QED BY <1>4, <2>3, <2>7, <2>8, <2>9
  <1> QED BY <1>2, <1>3, <1>4

\* What the contract sees of a step that leaves the host as t.
LEMMA Seen ==
    ASSUME NEW t, job' = t.job, active' = t.active, exports' = t.exports
    PROVE  /\ PhaseOf(job)' = PhaseOf(t.job) /\ PausedOf(job)' = PausedOf(t.job)
           /\ CancelledOf(job)' = CancelledOf(t.job) /\ WindowsOf(job)' = WindowsOf(t.job)
  BY DEF PhaseOf, PausedOf, CancelledOf, WindowsOf

\* A step that comes out of h, which the contract sees as the host before it but for
\* the phases p, hands the slot on out of p.
LEMMA SeenServed ==
    ASSUME NEW h, NEW t, job' = t.job, active' = t.active, exports' = t.exports,
           Alike(h, t), NEW p, ServedTo(p, h, t)
    PROVE  /\ PausedOf(job)' = PausedOf(h.job) /\ CancelledOf(job)' = CancelledOf(h.job)
           /\ WindowsOf(job)' = WindowsOf(h.job) /\ exports' = h.exports
           /\ PhaseOf(job)' \in Contract!Served(p, PausedOf(job)', exports')
  BY Seen DEF Alike, ServedTo

\* The runner of j is back with its windows as in host g, at a checkpoint or at its end.
LEMMA HolderImplements ==
    ASSUME IInv, NEW j \in Jobs, job[j].at \in Busy, NEW g \in Hosts,
           g.active = j, g.exports = exports, \A k \in Jobs \ {j} : g.job[k] = job[k],
           g.job[j].state = "running", g.job[j].at = job[j].at,
           g.job[j].paused = job[j].paused, g.job[j].aborted = job[j].aborted,
           job[j].at \notin {"prepare", "work"} => g.job[j].staging = job[j].staging,
           NEW ending \in {"completed", "failed"},
           NEW t, job' = t.job, active' = t.active, exports' = t.exports,
           \/ t \in Settle(g, j, ending)
           \/ /\ t \in Checkpoint(g, j)
              /\ g.job[j].staging \in {job[j].staging, "committed"}
    PROVE  Contract!End(j) \/ Contract!Yield(j)
  <1> DEFINE x == PhaseOf(job)
             w == g.job[j].staging
             a == PhaseOf(g.job)
  <1>1. /\ job[j] \in Entry /\ Consistent(Host, j) /\ Host.job = job /\ Host.active = j
        /\ job[j].state = "running" /\ exports \in Nat
        /\ \A k \in Jobs \ {j} : Consistent(Host, k)
    BY HolderIs, EntryIs
  <1>2. \A k \in Jobs \ {j} : Consistent(g, k)
    BY <1>1, EntryIs, Frame
  <1>3. /\ g.job[j] \in Entry /\ w \in Contract!Windows
    BY DEF Hosts, Entry, Contract!Windows
  <1>4. Phase(g.job[j]) = Phase(job[j])
    BY <1>1 DEF Phase
  <1>5. /\ a = x
        /\ PausedOf(g.job) = PausedOf(job) /\ CancelledOf(g.job) = CancelledOf(job)
    BY <1>4 DEF PhaseOf, PausedOf, CancelledOf
  <1>6. WindowsOf(g.job) = [WindowsOf(job) EXCEPT ![j] = w]
    BY DEF WindowsOf
  <1>7. x[j] = Phase(job[j]) /\ PausedOf(job)[j] = job[j].paused
        /\ CancelledOf(job)[j] = job[j].aborted /\ WindowsOf(job)[j] = job[j].staging
    BY DEF PhaseOf, PausedOf, CancelledOf, WindowsOf
  <1>8. /\ x[j] \in Contract!Holding
        /\ x[j] = "run" <=> job[j].at \in {"prepare", "work"}
    BY <1>1, <1>7 DEF Phase, Contract!Holding, Busy, Terminals
  <1>9. x[j] # "run" => w = job[j].staging
    BY <1>8
  <1>10. Contract!Leaves(j, Contract!Windows) <=>
           \E v \in IF x[j] = "run" THEN Contract!Windows ELSE {WindowsOf(job)[j]} :
             WindowsOf(job)' = [WindowsOf(job) EXCEPT ![j] = v]
    BY DEF Contract!Leaves
  <1>11. Contract!Leaves(j, {WindowsOf(job)[j], "committed"}) <=>
           \E v \in IF x[j] = "run" THEN {WindowsOf(job)[j], "committed"}
                    ELSE {WindowsOf(job)[j]} :
             WindowsOf(job)' = [WindowsOf(job) EXCEPT ![j] = v]
    BY DEF Contract!Leaves
  <1> HIDE DEF x, w, a
  <1>12. ASSUME NEW s \in {"completed", "failed", "cancelled"}, Alike(g, t),
                ServedTo([a EXCEPT ![j] = s], g, t), s = "cancelled" <=> job[j].aborted
         PROVE  Contract!End(j)
    <2>1. /\ PausedOf(job)' = PausedOf(job) /\ CancelledOf(job)' = CancelledOf(job)
          /\ WindowsOf(job)' = [WindowsOf(job) EXCEPT ![j] = w] /\ exports' = exports
          /\ PhaseOf(job)' \in Contract!Served([x EXCEPT ![j] = s], PausedOf(job)', exports')
      BY <1>5, <1>6, <1>12, SeenServed
    <2>2. Contract!Leaves(j, Contract!Windows)
      BY <1>3, <1>7, <1>9, <1>10, <2>1
    <2>3. s \in IF CancelledOf(job)[j] THEN {"cancelled"} ELSE {"completed", "failed"}
      BY <1>7, <1>12
    <2>4. Contract!HandOn([PhaseOf(job) EXCEPT ![j] = s])
      BY <2>1 DEF Contract!HandOn, x
    <2> QED BY <1>8, <2>1, <2>2, <2>3, <2>4 DEF Contract!End, x
  <1>13. CASE t \in Settle(g, j, ending)
    <2> DEFINE s == IF g.job[j].aborted THEN "cancelled" ELSE ending
    <2>1. Alike(g, t) /\ ServedTo([a EXCEPT ![j] = s], g, t)
      BY <1>2, <1>13, SettleServes DEF a, Terminals
    <2>2. s \in {"completed", "failed", "cancelled"} /\ (s = "cancelled" <=> job[j].aborted)
      BY <1>1 DEF Entry
    <2> QED BY <1>12, <2>1, <2>2
  <1>14. CASE t \in Checkpoint(g, j) /\ w \in {job[j].staging, "committed"}
    <2>1. /\ Alike(g, t)
          /\ \/ job[j].aborted /\ ServedTo([a EXCEPT ![j] = "cancelled"], g, t)
             \/ /\ ~job[j].aborted /\ ~job[j].paused /\ exports = 0
                /\ PhaseOf(t.job) = [a EXCEPT ![j] = "in"]
             \/ /\ ~job[j].aborted
                /\ \/ job[j].paused \/ exports > 0
                   \/ \E k \in Jobs \ {j} : Phase(job[k]) = "out" /\ ~job[k].paused
                /\ ServedTo([a EXCEPT ![j] = "out"], g, t)
      <3>1. g.active = j /\ g.job[j].at \in Busy
        OBVIOUS
      <3> QED BY <1>2, <1>14, <3>1, CheckpointServes DEF a
    <2>2. /\ PausedOf(job)' = PausedOf(job) /\ CancelledOf(job)' = CancelledOf(job)
          /\ WindowsOf(job)' = [WindowsOf(job) EXCEPT ![j] = w] /\ exports' = exports
          /\ PhaseOf(job)' = PhaseOf(t.job)
      BY <1>5, <1>6, <2>1, Seen DEF Alike
    <2>3. Contract!Leaves(j, {WindowsOf(job)[j], "committed"})
      BY <1>7, <1>9, <1>11, <1>14, <2>2
    <2>4. CASE job[j].aborted /\ ServedTo([a EXCEPT ![j] = "cancelled"], g, t)
      BY <1>12, <2>1, <2>4
    <2>5. CASE /\ ~job[j].aborted /\ ~job[j].paused /\ exports = 0
               /\ PhaseOf(t.job) = [a EXCEPT ![j] = "in"]
      BY <1>5, <1>7, <1>8, <2>2, <2>3, <2>5 DEF Contract!Yield, x
    <2>6. CASE /\ ~job[j].aborted
               /\ \/ job[j].paused \/ exports > 0
                  \/ \E k \in Jobs \ {j} : Phase(job[k]) = "out" /\ ~job[k].paused
               /\ ServedTo([a EXCEPT ![j] = "out"], g, t)
      <3>1. (\E k \in Jobs \ {j} : Phase(job[k]) = "out" /\ ~job[k].paused) =>
              Contract!Wanting(PhaseOf(job), PausedOf(job)) # {}
        BY DEF Contract!Wanting, PhaseOf, PausedOf
      <3>2. PhaseOf(job)' \in Contract!Served([x EXCEPT ![j] = "out"], PausedOf(job)', exports')
        BY <1>5, <2>1, <2>6, SeenServed
      <3>3. Contract!HandOn([PhaseOf(job) EXCEPT ![j] = "out"])
        BY <3>2 DEF Contract!HandOn, x
      <3> QED BY <1>7, <1>8, <2>2, <2>3, <2>6, <3>1, <3>3 DEF Contract!Yield, x
    <2> QED BY <2>1, <2>4, <2>5, <2>6
  <1> QED BY <1>13, <1>14 DEF w

LEMMA SubmitImplements ==
    ASSUME IInv, NEW j \in Jobs, NEW rank \in Ranks, NEW restored \in BOOLEAN,
           Submit(j, rank, restored)
    PROVE  Contract!Submit(j)
  <1>1. PICK h \in Hosts :
          /\ Good(h) /\ Become(Pump(h)) /\ h.job[j].state = "queued" /\ h.job[j].at = "idle"
          /\ ~h.job[j].paused /\ ~h.job[j].aborted /\ h.job[j].staging = "none"
          /\ h.active = active /\ h.exports = exports
          /\ \A k \in Jobs \ {j} :
               \A f \in {"state", "at", "asked", "keep", "staging", "paused", "aborted"} :
                 h.job[k][f] = job[k][f]
    BY SubmitGood
  <1>2. /\ job[j].state = "new" /\ ~job[j].paused /\ ~job[j].aborted /\ job[j].staging = "none"
    BY EntryIs DEF Submit, Consistent
  <1>3. ASSUME NEW k \in Jobs \ {j}
        PROVE  /\ Phase(h.job[k]) = Phase(job[k]) /\ h.job[k].paused = job[k].paused
               /\ h.job[k].aborted = job[k].aborted /\ h.job[k].staging = job[k].staging
    <2>1. /\ h.job[k].state = job[k].state /\ h.job[k].at = job[k].at
          /\ h.job[k].paused = job[k].paused /\ h.job[k].aborted = job[k].aborted
          /\ h.job[k].staging = job[k].staging
      BY <1>1
    <2> QED BY <2>1 DEF Phase
  <1>4. Phase(h.job[j]) = "out" /\ Phase(job[j]) = "none"
    BY <1>1, <1>2 DEF Phase, Terminals
  <1>5. /\ h.job[j].paused = job[j].paused /\ h.job[j].aborted = job[j].aborted
        /\ h.job[j].staging = job[j].staging
    <2>1. h.job[j] \in Entry /\ job[j] \in Entry
      BY EntryIs DEF Hosts
    <2> QED BY <1>1, <1>2, <2>1 DEF Entry
  <1>6. /\ PausedOf(h.job) = PausedOf(job) /\ CancelledOf(h.job) = CancelledOf(job)
        /\ WindowsOf(h.job) = WindowsOf(job)
    BY <1>3, <1>5 DEF PausedOf, CancelledOf, WindowsOf
  <1>7. PhaseOf(h.job) = [PhaseOf(job) EXCEPT ![j] = "out"] /\ PhaseOf(job)[j] = "none"
    BY <1>3, <1>4 DEF PhaseOf
  <1>8. PICK t \in Pump(h) : job' = t.job /\ active' = t.active /\ exports' = t.exports
    BY <1>1 DEF Become
  <1>9. Alike(h, t) /\ ServedTo(PhaseOf(h.job), h, t)
    BY <1>1, PumpServes
  <1>10. /\ PausedOf(job)' = PausedOf(h.job) /\ CancelledOf(job)' = CancelledOf(h.job)
         /\ WindowsOf(job)' = WindowsOf(h.job) /\ exports' = h.exports
         /\ PhaseOf(job)' \in Contract!Served(PhaseOf(h.job), PausedOf(job)', exports')
    BY <1>8, <1>9, SeenServed
  <1> QED BY <1>1, <1>6, <1>7, <1>10 DEF Contract!Submit, Contract!HandOn

\* A job that is live is so for the contract.
LEMMA LiveIs ==
    ASSUME IInv, NEW j \in Jobs, Live(job[j])
    PROVE  /\ PhaseOf(job)[j] \in Contract!Live
           /\ PhaseOf(job)[j] = "out" <=> job[j].at \in {"idle", "held"}
  <1>1. job[j] \in Entry /\ PhaseOf(job)[j] = Phase(job[j])
    BY EntryIs DEF PhaseOf
  <1> QED BY <1>1 DEF Live, Phase, Contract!Live, Contract!Holding, Entry, Places, Busy

LEMMA PauseImplements ==
    ASSUME IInv, NEW j \in Jobs, Pause(j)
    PROVE  Contract!Pause(j)
  <1> DEFINE e == [job[j] EXCEPT !.paused = TRUE]
             n == IF j = active THEN Ask(e) ELSE [e EXCEPT !.state = "paused"]
  <1>1. /\ job[j] \in Entry /\ Live(job[j]) /\ Consistent(Host, j) /\ Host.job = job
        /\ Host.active = active /\ job \in [Jobs -> Entry]
    BY EntryIs, InvariantIs DEF Pause, TypeOK
  <1>2. /\ e \in Entry /\ e.paused /\ e.aborted = job[j].aborted /\ e.at = job[j].at
        /\ e.state = job[j].state /\ e.staging = job[j].staging
    BY <1>1 DEF Entry
  <1>3. job' = [job EXCEPT ![j] = n] /\ exports' = exports
    BY DEF Pause
  <1>9. n = IF j = active THEN Ask(e) ELSE [e EXCEPT !.state = "paused"]
    OBVIOUS
  <1> HIDE DEF e, n
  <1>4. n.paused /\ n.aborted = job[j].aborted /\ n.staging = job[j].staging
        /\ Phase(n) = Phase(job[j])
    <2>1. CASE j = active
      BY <1>2, <1>9, <2>1, AskIs DEF Phase
    <2>2. CASE j # active
      <3>1. /\ n.state = "paused" /\ n.paused /\ n.at = job[j].at
            /\ n.aborted = job[j].aborted /\ n.staging = job[j].staging
        BY <1>2, <1>9, <2>2 DEF Entry
      <3>2. job[j].at \notin Busy
        BY <1>1, <2>2 DEF Consistent
      <3> QED BY <1>1, <3>1, <3>2 DEF Phase, Live, Terminals, Busy
    <2> QED BY <2>1, <2>2
  <1>5. job'[j] = n /\ \A k \in Jobs \ {j} : job'[k] = job[k]
    BY <1>1, <1>3
  <1>6. /\ PhaseOf(job') = PhaseOf(job) /\ CancelledOf(job') = CancelledOf(job)
        /\ WindowsOf(job') = WindowsOf(job)
        /\ PausedOf(job') = [PausedOf(job) EXCEPT ![j] = TRUE]
    <2>1. n.paused = TRUE
      BY <1>4, <1>5, <1>2, <1>9, AskIs DEF Entry
    <2> QED BY <1>4, <1>5, <2>1 DEF PhaseOf, PausedOf, CancelledOf, WindowsOf
  <1>7. /\ PhaseOf(job)' = PhaseOf(job') /\ CancelledOf(job)' = CancelledOf(job')
        /\ WindowsOf(job)' = WindowsOf(job') /\ PausedOf(job)' = PausedOf(job')
    BY DEF PhaseOf, PausedOf, CancelledOf, WindowsOf
  <1> QED BY <1>1, <1>3, <1>6, <1>7, LiveIs DEF Contract!Pause

LEMMA ResumeImplements ==
    ASSUME IInv, NEW j \in Jobs, Resume(j)
    PROVE  Contract!Resume(j)
  <1> DEFINE e == [job[j] EXCEPT !.paused = FALSE]
             n == IF j = active THEN e
                  ELSE [e EXCEPT !.state = IF e.at = "idle" THEN "queued" ELSE "preempted"]
             h == Put(Host, j, n)
  <1>1. /\ job[j] \in Entry /\ Consistent(Host, j) /\ Host.job = job
        /\ Host.active = active /\ Host.exports = exports /\ Host \in Hosts
        /\ \A k \in Jobs \ {j} : Consistent(Host, k)
    BY EntryIs
  <1>2. /\ e \in Entry /\ e.paused = FALSE /\ e.aborted = job[j].aborted /\ e.at = job[j].at
        /\ e.state = job[j].state /\ e.staging = job[j].staging /\ e.asked = job[j].asked
        /\ e.keep = job[j].keep
    BY <1>1 DEF Entry
  <1>3. Become(Pump(h)) /\ Live(job[j]) /\ job[j].paused
    BY DEF Resume
  <1> HIDE DEF e
  <1>4. /\ n \in Entry /\ n.at = e.at /\ n.paused = FALSE /\ n.aborted = e.aborted
        /\ n.asked = e.asked /\ n.keep = e.keep /\ n.staging = e.staging
        /\ n.state = IF j = active THEN e.state
                     ELSE IF e.at = "idle" THEN "queued" ELSE "preempted"
    BY <1>2 DEF Entry, JobStates
  <1> HIDE DEF n
  <1>5. /\ h.job[j] = n /\ h.active = active /\ h.exports = exports
        /\ \A k \in Jobs \ {j} : h.job[k] = job[k]
    BY <1>4, HostPut
  <1> HIDE DEF h
  <1>6. Consistent(h, j)
    BY <1>1, <1>2, <1>3, <1>4, <1>5
    DEF Consistent, Busy, Terminals, Live, Entry, JobStates, Places
  <1>7. Good(h)
    BY <1>1, <1>4, <1>6, PutGood DEF h
  <1>8. Phase(n) = Phase(job[j])
    <2>1. CASE j = active
      BY <1>2, <1>4, <2>1 DEF Phase
    <2>2. CASE j # active
      <3>1. job[j].at \notin Busy
        BY <1>1, <2>2 DEF Consistent
      <3> QED BY <1>2, <1>3, <1>4, <2>2, <3>1 DEF Phase, Live, Terminals, Busy
    <2> QED BY <2>1, <2>2
  <1>9. /\ PhaseOf(h.job) = PhaseOf(job) /\ CancelledOf(h.job) = CancelledOf(job)
        /\ WindowsOf(h.job) = WindowsOf(job)
        /\ PausedOf(h.job) = [PausedOf(job) EXCEPT ![j] = FALSE]
    BY <1>2, <1>4, <1>5, <1>8 DEF PhaseOf, PausedOf, CancelledOf, WindowsOf
  <1>10. PICK t \in Pump(h) : job' = t.job /\ active' = t.active /\ exports' = t.exports
    BY <1>3 DEF Become
  <1>11. Alike(h, t) /\ ServedTo(PhaseOf(h.job), h, t)
    BY <1>7, PumpServes
  <1>12. /\ PausedOf(job)' = PausedOf(h.job) /\ CancelledOf(job)' = CancelledOf(h.job)
         /\ WindowsOf(job)' = WindowsOf(h.job) /\ exports' = h.exports
         /\ PhaseOf(job)' \in Contract!Served(PhaseOf(h.job), PausedOf(job)', exports')
    BY <1>10, <1>11, SeenServed
  <1> QED BY <1>3, <1>5, <1>9, <1>12, LiveIs DEF Contract!Resume, Contract!HandOn

LEMMA CancelImplements ==
    ASSUME IInv, NEW j \in Jobs, Cancel(j)
    PROVE  Contract!Cancel(j)
  <1> DEFINE e == [job[j] EXCEPT !.aborted = TRUE]
             p == Put(Host, j, e)
             q == Put(Host, j, Abort(e))
  <1>1. /\ job[j] \in Entry /\ Consistent(Host, j) /\ Host.job = job
        /\ Host.active = active /\ Host.exports = exports /\ Host \in Hosts
        /\ \A k \in Jobs \ {j} : Consistent(Host, k)
    BY EntryIs
  <1>2. /\ e \in Entry /\ e.aborted = TRUE /\ e.paused = job[j].paused /\ e.at = job[j].at
        /\ e.state = job[j].state /\ e.staging = job[j].staging
    BY <1>1 DEF Entry
  <1>3. /\ Live(job[j])
        /\ Become(IF e.at \in {"idle", "held"} THEN Settle(p, j, "cancelled") ELSE {q})
    BY DEF Cancel
  <1> HIDE DEF e
  <1>4. Phase(e) = Phase(job[j]) /\ Phase(Abort(e)) = Phase(job[j])
    BY <1>2, AbortIs DEF Phase
  <1>5. /\ p \in Hosts /\ p.job[j] = e /\ p.active = active /\ p.exports = exports
        /\ \A k \in Jobs \ {j} : p.job[k] = job[k]
    BY <1>2, HostPut
  <1>6. /\ q \in Hosts /\ q.job[j] = Abort(e) /\ q.active = active /\ q.exports = exports
        /\ \A k \in Jobs \ {j} : q.job[k] = job[k]
    BY <1>2, AbortIs, HostPut
  <1> HIDE DEF p, q
  <1>7. /\ PhaseOf(p.job) = PhaseOf(job) /\ PausedOf(p.job) = PausedOf(job)
        /\ WindowsOf(p.job) = WindowsOf(job)
        /\ CancelledOf(p.job) = [CancelledOf(job) EXCEPT ![j] = TRUE]
    BY <1>2, <1>4, <1>5 DEF PhaseOf, PausedOf, CancelledOf, WindowsOf
  <1>8. /\ Abort(e).paused = job[j].paused /\ Abort(e).aborted = TRUE
        /\ Abort(e).staging = job[j].staging
    BY <1>2, AbortIs
  <1>9. /\ PhaseOf(q.job) = PhaseOf(job) /\ PausedOf(q.job) = PausedOf(job)
        /\ WindowsOf(q.job) = WindowsOf(job)
        /\ CancelledOf(q.job) = [CancelledOf(job) EXCEPT ![j] = TRUE]
    BY <1>4, <1>6, <1>8 DEF PhaseOf, PausedOf, CancelledOf, WindowsOf
  <1>10. PhaseOf(job)[j] \in Contract!Live /\ (PhaseOf(job)[j] = "out" <=> e.at \in {"idle", "held"})
    BY <1>2, <1>3, LiveIs
  <1>11. CASE e.at \in {"idle", "held"}
    <2>1. PICK t \in Settle(p, j, "cancelled") :
            job' = t.job /\ active' = t.active /\ exports' = t.exports
      BY <1>3, <1>11 DEF Become
    <2>2. \A k \in Jobs \ {j} : Consistent(p, k)
      BY <1>1, <1>5, Frame
    <2>3. Alike(p, t) /\ ServedTo([PhaseOf(p.job) EXCEPT ![j] =
                            IF p.job[j].aborted THEN "cancelled" ELSE "cancelled"], p, t)
      BY <1>5, <2>1, <2>2, SettleServes DEF Terminals
    <2>4. ServedTo([PhaseOf(p.job) EXCEPT ![j] = "cancelled"], p, t)
      BY <2>3
    <2>5. /\ PausedOf(job)' = PausedOf(p.job) /\ CancelledOf(job)' = CancelledOf(p.job)
          /\ WindowsOf(job)' = WindowsOf(p.job) /\ exports' = p.exports
          /\ PhaseOf(job)' \in Contract!Served([PhaseOf(p.job) EXCEPT ![j] = "cancelled"],
                                               PausedOf(job)', exports')
      BY <2>1, <2>3, <2>4, SeenServed
    <2> QED BY <1>5, <1>7, <1>10, <1>11, <2>5 DEF Contract!Cancel, Contract!HandOn
  <1>12. CASE e.at \notin {"idle", "held"}
    <2>1. job' = q.job /\ active' = q.active /\ exports' = q.exports
      BY <1>3, <1>12 DEF Become
    <2>2. /\ PhaseOf(job)' = PhaseOf(job) /\ PausedOf(job)' = PausedOf(job)
          /\ WindowsOf(job)' = WindowsOf(job) /\ exports' = exports
          /\ CancelledOf(job)' = [CancelledOf(job) EXCEPT ![j] = TRUE]
      BY <1>6, <1>9, <2>1, Seen
    <2>3. PhaseOf(job)[j] \in Contract!Holding
      BY <1>10, <1>12 DEF Contract!Live
    <2>4. Contract!Served(PhaseOf(job), PausedOf(job)', exports') = {PhaseOf(job)}
      BY <2>3 DEF Contract!Served
    <2> QED BY <1>10, <1>12, <2>2, <2>4 DEF Contract!Cancel, Contract!HandOn
  <1> QED BY <1>11, <1>12

\* The contract sees nothing of a request to stop.
LEMMA AskActiveSeen ==
    ASSUME IInv, NEW h \in Hosts, h.job = job, h.active = active, Become({AskActive(h)})
    PROVE  /\ PhaseOf(job)' = PhaseOf(job) /\ PausedOf(job)' = PausedOf(job)
           /\ CancelledOf(job)' = CancelledOf(job) /\ WindowsOf(job)' = WindowsOf(job)
           /\ exports' = h.exports /\ active' = active
  <1> DEFINE t == AskActive(h)
  <1>1. job' = t.job /\ active' = t.active /\ exports' = t.exports
    BY DEF Become
  <1>2. CASE h.active = NoJob
    <2>1. t = h
      BY <1>2 DEF AskActive
    <2> HIDE DEF t
    <2>2. job' = job /\ active' = active /\ exports' = h.exports
      BY <1>1, <2>1
    <2> QED BY <2>2 DEF PhaseOf, PausedOf, CancelledOf, WindowsOf
  <1>3. CASE h.active # NoJob
    <2> DEFINE a == h.active
               e == Ask(job[a])
    <2>1. a \in Jobs /\ t = Put(h, a, e)
      BY <1>3 DEF AskActive, Hosts
    <2>2. /\ e \in Entry /\ e.state = job[a].state /\ e.at = job[a].at
          /\ e.paused = job[a].paused /\ e.aborted = job[a].aborted
          /\ e.staging = job[a].staging
      BY <2>1, EntryIs, AskIs
    <2>3. Phase(e) = Phase(job[a])
      BY <2>2 DEF Phase
    <2> HIDE DEF e, t, a
    <2>4. /\ t.job[a] = e /\ t.exports = h.exports /\ t.active = h.active
          /\ \A k \in Jobs \ {a} : t.job[k] = job[k]
      BY <2>1, <2>2, PutHost
    <2>5. /\ PhaseOf(t.job) = PhaseOf(job) /\ PausedOf(t.job) = PausedOf(job)
          /\ CancelledOf(t.job) = CancelledOf(job) /\ WindowsOf(t.job) = WindowsOf(job)
      BY <2>2, <2>3, <2>4 DEF PhaseOf, PausedOf, CancelledOf, WindowsOf
    <2> QED BY <1>1, <2>4, <2>5, Seen
  <1> QED BY <1>2, <1>3

LEMMA ExportImplements ==
    ASSUME IInv, StartExport \/ EndExport
    PROVE  Contract!StartExport \/ Contract!EndExport
  <1>1. exports \in Nat
    BY InvariantIs DEF TypeOK
  <1>2. CASE StartExport
    <2> DEFINE h == [Host EXCEPT !.exports = exports + 1]
    <2>1. Become({AskActive(h)})
      BY <1>2 DEF StartExport
    <2>2. h \in Hosts /\ h.job = job /\ h.active = active /\ h.exports = exports + 1
      BY <1>1, HoldIs
    <2> HIDE DEF h
    <2> QED BY <2>1, <2>2, AskActiveSeen DEF Contract!StartExport
  <1>3. CASE EndExport
    <2> DEFINE h == [Host EXCEPT !.exports = exports - 1]
               r == [h EXCEPT !.job = [j \in Jobs |-> Released(job[j])]]
    <2>1. /\ Become(IF h.exports > 0 THEN {AskActive(h)} ELSE Pump(r))
          /\ h \in Hosts /\ h.job = job /\ h.active = active /\ h.exports = exports - 1
          /\ exports > 0
      BY <1>1, <1>3, HoldIs DEF EndExport
    <2> HIDE DEF h
    <2>2. CASE h.exports > 0
      <3>1. Become({AskActive(h)})
        BY <2>1, <2>2
      <3>2. /\ PhaseOf(job)' = PhaseOf(job) /\ PausedOf(job)' = PausedOf(job)
            /\ CancelledOf(job)' = CancelledOf(job) /\ WindowsOf(job)' = WindowsOf(job)
            /\ exports' = exports - 1 /\ exports' # 0
        BY <1>1, <2>1, <2>2, <3>1, AskActiveSeen
      <3>3. Contract!Served(PhaseOf(job), PausedOf(job)', exports') = {PhaseOf(job)}
        BY <3>2 DEF Contract!Served
      <3> QED BY <2>1, <3>2, <3>3 DEF Contract!EndExport, Contract!HandOn
    <2>3. CASE ~(h.exports > 0)
      <3>0. h.exports = 0 /\ exports - 1 = 0
        BY <1>1, <2>1, <2>3
      <3>1. Good(r) /\ r.job = [j \in Jobs |-> Released(job[j])] /\ r.exports = 0
        BY <2>1, <3>0, ReleasedGood
      <3>2. PICK t \in Pump(r) : job' = t.job /\ active' = t.active /\ exports' = t.exports
        BY <2>1, <2>3 DEF Become
      <3> HIDE DEF r
      <3>3. ASSUME NEW j \in Jobs
            PROVE  /\ Phase(Released(job[j])) = Phase(job[j])
                   /\ Released(job[j]).paused = job[j].paused
                   /\ Released(job[j]).aborted = job[j].aborted
                   /\ Released(job[j]).staging = job[j].staging
        <4>1. job[j] \in Entry
          BY EntryIs
        <4> QED BY <4>1 DEF Released, Entry, Phase, Terminals
      <3>4. /\ PhaseOf(r.job) = PhaseOf(job) /\ PausedOf(r.job) = PausedOf(job)
            /\ CancelledOf(r.job) = CancelledOf(job) /\ WindowsOf(r.job) = WindowsOf(job)
        BY <3>1, <3>3 DEF PhaseOf, PausedOf, CancelledOf, WindowsOf
      <3>5. Alike(r, t) /\ ServedTo(PhaseOf(r.job), r, t)
        BY <3>1, <3>2, PumpServes
      <3>6. /\ PausedOf(job)' = PausedOf(r.job) /\ CancelledOf(job)' = CancelledOf(r.job)
            /\ WindowsOf(job)' = WindowsOf(r.job) /\ exports' = r.exports
            /\ PhaseOf(job)' \in Contract!Served(PhaseOf(r.job), PausedOf(job)', exports')
        BY <3>2, <3>5, SeenServed
      <3> QED BY <2>1, <3>0, <3>1, <3>4, <3>6 DEF Contract!EndExport, Contract!HandOn
    <2> QED BY <2>2, <2>3
  <1> QED BY <1>2, <1>3

LEMMA RunnerImplements ==
    ASSUME IInv, NEW j \in Jobs, Runner(j)
    PROVE  Contract!Begin(j) \/ Contract!Work(j) \/ Contract!Yield(j) \/ Contract!End(j)
  <1>1. /\ job[j].at \in Busy /\ Host \in Hosts /\ Host.job = job /\ Host.exports = exports
        /\ Host.active = j /\ job[j].state = "running" /\ job[j] \in Entry
        /\ Consistent(Host, j) /\ job \in [Jobs -> Entry]
    <2>1. job[j].at \in Busy
      BY DEF Runner, CheckAnswers, ReadAnswers, PrepareAnswers, WorkerStarts, WorkerAnswers, Busy
    <2> QED BY <2>1, HolderIs, InvariantIs DEF TypeOK
  <1>2. ASSUME NEW ending \in {"completed", "failed"},
               NEW t \in Settle(Host, j, ending) \cup Checkpoint(Host, j),
               job' = t.job, active' = t.active, exports' = t.exports
        PROVE  Contract!End(j) \/ Contract!Yield(j)
    BY <1>1, <1>2, HolderImplements
  <1>3. ASSUME NEW run \in Entry, NEW failed \in BOOLEAN, job[j].at \in {"prepare", "work"},
               run.state = "running", run.at = job[j].at, run.paused = job[j].paused,
               run.aborted = job[j].aborted, run.asked = job[j].asked,
               run.staging = job[j].staging \/ run.staging = "committed" \/ ~job[j].keep,
               Become(Returned(run, j, failed))
        PROVE  Contract!End(j) \/ Contract!Yield(j)
    <2> DEFINE e == [run EXCEPT !.stop = FALSE, !.told = FALSE]
               g == Put(Host, j, e)
    <2>1. PICK t \in Returned(run, j, failed) :
            job' = t.job /\ active' = t.active /\ exports' = t.exports
      BY <1>3 DEF Become
    <2>2. /\ e \in Entry /\ e.state = "running" /\ e.at = job[j].at /\ e.asked = job[j].asked
          /\ e.aborted = job[j].aborted /\ e.paused = job[j].paused /\ e.staging = run.staging
      BY <1>3 DEF Entry
    <2>3. \/ e.asked /\ t \in Checkpoint(g, j)
          \/ t \in Settle(g, j, "completed")
      BY <2>1 DEF Returned
    <2> HIDE DEF e
    <2>4. /\ g \in Hosts /\ g.job[j] = e /\ g.active = j /\ g.exports = exports
          /\ \A k \in Jobs \ {j} : g.job[k] = job[k]
      <3>1. /\ g \in Hosts /\ g.job[j] = e /\ g.active = active
            /\ g.exports = exports /\ \A k \in Jobs \ {j} : g.job[k] = job[k]
        BY <2>2, HostPut
      <3>2. active = j
        BY <1>1 DEF Host
      <3> QED BY <3>1, <3>2
    <2> HIDE DEF g
    <2>5. e.asked => g.job[j].staging \in {job[j].staging, "committed"}
      BY <1>1, <1>3, <2>2, <2>4 DEF Consistent
    <2>6. /\ g.job[j].state = "running" /\ g.job[j].at = job[j].at
          /\ g.job[j].paused = job[j].paused /\ g.job[j].aborted = job[j].aborted
          /\ job[j].at \notin {"prepare", "work"} => g.job[j].staging = job[j].staging
      BY <1>3, <2>2, <2>4
    <2> QED BY <1>1, <2>1, <2>3, <2>4, <2>5, <2>6, HolderImplements
  <1>4. CASE CheckAnswers(j)
    <2>1. PICK t \in Checkpoint(Host, j) \cup Settle(Host, j, "failed") :
            job' = t.job /\ active' = t.active /\ exports' = t.exports
      BY <1>4 DEF CheckAnswers, Become
    <2> QED BY <1>2, <2>1
  <1>5. CASE ReadAnswers(j)
    <2> DEFINE n == [job[j] EXCEPT !.at = "prepare"]
               q == Put(Host, j, n)
               T == IF job[j].asked THEN Checkpoint(Host, j) ELSE {q}
    <2>1. job[j].at = "read"
      BY <1>5 DEF ReadAnswers
    <2>2. PICK t \in Settle(Host, j, "failed") \cup T :
            job' = t.job /\ active' = t.active /\ exports' = t.exports
      BY <1>5 DEF ReadAnswers, Become
    <2>3. CASE t \in Settle(Host, j, "failed") \cup Checkpoint(Host, j)
      BY <1>2, <2>2, <2>3
    <2>4. CASE ~job[j].asked /\ t = q
      <3>1. /\ n \in Entry /\ n.at = "prepare" /\ n.state = "running" /\ n.paused = job[j].paused
            /\ n.aborted = job[j].aborted /\ n.staging = job[j].staging
        BY <1>1 DEF Entry, Places, Busy
      <3> HIDE DEF n
      <3>2. t.job[j] = n /\ t.exports = exports /\ \A k \in Jobs \ {j} : t.job[k] = job[k]
        BY <2>4, <3>1, HostPut
      <3>3. Phase(n) = "run" /\ Phase(job[j]) = "in"
        BY <1>1, <2>1, <3>1 DEF Phase, Terminals
      <3>4. /\ PhaseOf(t.job) = [PhaseOf(job) EXCEPT ![j] = "run"] /\ PhaseOf(job)[j] = "in"
            /\ PausedOf(t.job) = PausedOf(job) /\ CancelledOf(t.job) = CancelledOf(job)
            /\ WindowsOf(t.job) = WindowsOf(job) /\ PausedOf(job)[j] = job[j].paused
        BY <3>1, <3>2, <3>3 DEF PhaseOf, PausedOf, CancelledOf, WindowsOf
      <3>5. ~job[j].paused /\ exports = 0
        <4>1. ~(job[j].paused \/ Host.exports > 0)
          BY <1>1, <2>1, <2>4 DEF Consistent
        <4>2. exports \in Nat
          BY EntryIs
        <4> QED BY <1>1, <4>1, <4>2
      <3> QED BY <2>2, <3>2, <3>4, <3>5, Seen DEF Contract!Begin
    <2> QED BY <2>2, <2>3, <2>4
  <1>6. CASE PrepareAnswers(j)
    <2>1. PICK failed \in BOOLEAN : Become(Returned(job[j], j, failed))
      BY <1>6 DEF PrepareAnswers
    <2>2. job[j].at \in {"prepare", "work"}
      BY <1>6 DEF PrepareAnswers
    <2> QED BY <1>1, <1>3, <2>1, <2>2
  <1>7. CASE WorkerStarts(j)
    <2>1. /\ job[j].at = "prepare" /\ exports' = exports
          /\ job'[j].at = "work" /\ job'[j].staging = "made"
          /\ job'[j].state = job[j].state /\ job'[j].paused = job[j].paused
          /\ job'[j].aborted = job[j].aborted
          /\ \A i \in Jobs \ {j} : job'[i] = job[i]
      BY <1>1, <1>7 DEF WorkerStarts, Entry
    <2>2. Phase(job'[j]) = "run" /\ Phase(job[j]) = "run"
      BY <1>1, <2>1 DEF Phase, Terminals
    <2>3. /\ PhaseOf(job') = PhaseOf(job) /\ PausedOf(job') = PausedOf(job)
          /\ CancelledOf(job') = CancelledOf(job) /\ PhaseOf(job)[j] = "run"
          /\ WindowsOf(job') = [WindowsOf(job) EXCEPT ![j] = "made"]
      BY <2>1, <2>2 DEF PhaseOf, PausedOf, CancelledOf, WindowsOf
    <2>4. /\ PhaseOf(job)' = PhaseOf(job') /\ CancelledOf(job)' = CancelledOf(job')
          /\ WindowsOf(job)' = WindowsOf(job') /\ PausedOf(job)' = PausedOf(job')
      BY DEF PhaseOf, PausedOf, CancelledOf, WindowsOf
    <2> QED BY <2>1, <2>3, <2>4 DEF Contract!Work
  <1>8. CASE WorkerAnswers(j)
    <2>1. PICK failed \in BOOLEAN, committed \in BOOLEAN :
            Become(Returned(Left(job[j], committed), j, failed))
      BY <1>8 DEF WorkerAnswers
    <2>2. job[j].at = "work" /\ job[j].staging = "made"
      BY <1>1, <1>8 DEF WorkerAnswers, Consistent
    <2> DEFINE left == IF committed THEN "committed" ELSE IF job[j].keep THEN "made" ELSE "none"
               run == [job[j] EXCEPT !.keep = FALSE, !.staging = left]
    <2>3. left \in {"none", "made", "committed"} /\ (left = "none" => ~job[j].keep)
      OBVIOUS
    <2> HIDE DEF left
    <2>4. /\ run \in Entry /\ run.staging = left /\ run.state = "running"
          /\ run.at = job[j].at /\ run.paused = job[j].paused /\ run.aborted = job[j].aborted
          /\ run.asked = job[j].asked
      BY <1>1, <2>3 DEF Entry
    <2>5. Become(Returned(run, j, failed))
      BY <2>1 DEF Left, left
    <2> HIDE DEF run
    <2> QED BY <1>3, <2>2, <2>3, <2>4, <2>5
  <1> QED BY <1>4, <1>5, <1>6, <1>7, <1>8 DEF Runner

LEMMA InitImplements == Init => Contract!Init
  <1> SUFFICES ASSUME Init PROVE Contract!Init
    OBVIOUS
  <1>1. \A j \in Jobs : job[j] = NewEntry
    BY DEF Init
  <1>2. Phase(NewEntry) = "none" /\ NewEntry.paused = FALSE /\ NewEntry.aborted = FALSE
    BY NewEntryIs DEF Phase, NewEntry
  <1> QED BY <1>1, <1>2, NewEntryIs
       DEF Init, Contract!Init, PhaseOf, PausedOf, CancelledOf, WindowsOf

LEMMA StepImplements == IInv /\ [Next]_vars => [Contract!Next]_(Contract!vars)
  <1> SUFFICES ASSUME IInv, [Next]_vars PROVE [Contract!Next]_(Contract!vars)
    OBVIOUS
  <1>1. CASE UNCHANGED vars
    BY <1>1 DEF vars, Contract!vars, PhaseOf, PausedOf, CancelledOf, WindowsOf
  <1>2. CASE StartExport \/ EndExport
    BY <1>2, ExportImplements DEF Contract!Next
  <1>3. ASSUME NEW j \in Jobs, NEW rank \in Ranks, NEW restored \in BOOLEAN,
               Submit(j, rank, restored)
        PROVE  Contract!Next
    BY <1>3, SubmitImplements DEF Contract!Next
  <1>4. ASSUME NEW j \in Jobs, Pause(j) \/ Resume(j) \/ Cancel(j) \/ Runner(j)
        PROVE  Contract!Next
    BY <1>4, PauseImplements, ResumeImplements, CancelImplements, RunnerImplements
    DEF Contract!Next
  <1> QED BY <1>1, <1>2, <1>3, <1>4 DEF Next

-----------------------------------------------------------------------------
(* The theorems                                                            *)

\* Every entry, the slot and the counters keep their types.
THEOREM TypeCorrect == Spec => []TypeOK
  <1>1. IInv => TypeOK
    BY InvariantIs
  <1> QED BY <1>1, Always, PTL

\* The scheduler loses no wakeup: whatever pauses, cancels, exports and answers
\* come in whatever order, the slot is never free with a job waiting for it.
THEOREM NoLostWakeup == Spec => []NoIdleSlot
  <1>1. IInv => NoIdleSlot
    BY InvariantIs DEF Sound
  <1> QED BY <1>1, Always, PTL

\* A runner is at work exactly when its job holds the slot.
THEOREM OneInferenceAtATime == Spec => []OneInference
  <1>1. ASSUME IInv, NEW j \in Jobs PROVE job[j].at \in Busy <=> active = j
    BY <1>1, EntryIs DEF Consistent
  <1>2. IInv => OneInference
    BY <1>1 DEF OneInference
  <1> QED BY <1>2, Always, PTL

\* A pause or an export that comes at any point of a run is still known at its end.
THEOREM StopIsRemembered == Spec => []StopRemembered
  <1>1. IInv => StopRemembered
    BY EntryIs DEF StopRemembered, Consistent
  <1> QED BY <1>1, Always, PTL

\* No run of the matte service begins for a paused job or during an export.
THEOREM NoRunIsHeld == Spec => NoRunUnderHold
  <1>1. ASSUME IInv, [Next]_vars, NEW j \in Jobs, RunBegins(j)
        PROVE  ~job[j].paused /\ exports = 0
    <2>1. job[j].at = "read" /\ ~job[j].asked
      BY <1>1, NextFollows DEF RunBegins, Follows
    <2> QED BY <1>1, <2>1, EntryIs DEF Consistent
  <1>2. IInv /\ [Next]_vars => [\A j \in Jobs : RunBegins(j) => ~job[j].paused /\ exports = 0]_vars
    BY <1>1
  <1> QED BY <1>2, Always, PTL DEF Spec, NoRunUnderHold

\* Finished windows are thrown away only with their job.
THEOREM WindowsAreKept == Spec => WindowsKept
  <1>1. ASSUME IInv, [Next]_vars, NEW j \in Jobs,
               job[j].staging = "made", job'[j].staging = "none"
        PROVE  Settled(j)'
    BY <1>1, NextFollows DEF Follows, Settled
  <1>2. IInv /\ [Next]_vars =>
          [\A j \in Jobs : job[j].staging = "made" /\ job'[j].staging = "none" => Settled(j)']_vars
    BY <1>1
  <1> QED BY <1>2, Always, PTL DEF Spec, WindowsKept

\* The queue, the runners and the signals do together what the contract promises:
\* whatever overtakes whatever, the slot is handed on in the step that frees it, the
\* holder makes room only for a pause, an export or a waiting job and begins no run
\* under either, an ending is final, and cancelled exactly if the user cancelled.
THEOREM RefinesContract == Spec => ImplementsContract
  <1> QED BY InitImplements, StepImplements, Always, PTL
       DEF Spec, ImplementsContract, Contract!Spec

\* A job ends once, and as cancelled if it was cancelled.
THEOREM EndingsStand == Spec => EndingStands
  <1>1. ASSUME IInv, IInv', [Next]_vars, NEW j \in Jobs
        PROVE  /\ Settled(j) => job'[j].state = job[j].state
               /\ job[j].aborted /\ Settled(j)' => job'[j].state = "cancelled"
    <2>1. Follows(job[j], job'[j])
      BY <1>1, NextFollows
    <2>2. Consistent(Host, j)' /\ Host' = [job |-> job', active |-> active', exports |-> exports']
      BY <1>1 DEF IInv, Good, Host
    <2>3. job'[j].state \in Terminals /\ job'[j].aborted => job'[j].state = "cancelled"
      BY <2>2 DEF Consistent, Busy, Terminals
    <2> QED BY <2>1, <2>3 DEF Follows, Settled
  <1>2. IInv /\ IInv' /\ [Next]_vars =>
          [\A j \in Jobs :
             /\ Settled(j) => job'[j].state = job[j].state
             /\ job[j].aborted /\ Settled(j)' => job'[j].state = "cancelled"]_vars
    BY <1>1
  <1> QED BY <1>2, Always, PTL DEF Spec, EndingStands
=============================================================================
