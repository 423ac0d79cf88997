----------------------------- MODULE BackendPool -----------------------------
(***************************************************************************)
(* Cowrie's backend pool: PoolService keeps virtual machines, PoolServer   *)
(* hands them out, NATService opens ports for them, and the SSH and Telnet *)
(* front ends ask for one per connection and give it back when the         *)
(* connection ends.                                                        *)
(*                                                                         *)
(* Requests, frees and all producer iterations but a chain's first run in  *)
(* the reactor's thread: one step each.  start_pool runs a first iteration *)
(* in a thread of its own, so its machines appear one by one between the   *)
(* requests.  Time is left out: any USED guest may have timed out.         *)
(***************************************************************************)
EXTENDS Integers, Sequences, FiniteSets

CONSTANTS
  Sessions,       \* connections of attackers to the front ends
  Ips,            \* their addresses
  PoolSizes,      \* values of pool_max_vms
  NatModes,       \* whether the pool forwards ports, as configured
  IdLimit,        \* guest ids wrap there; 252 in the code
  MaxFaults, MaxRestarts  \* bounds

None == 0
DefaultSize == 2

ASSUME PoolAssumption ==
  /\ PoolSizes \subseteq Nat \ {0} /\ NatModes \subseteq BOOLEAN
  /\ IdLimit \in Nat \ {0} /\ IsFiniteSet(Sessions)
  /\ MaxFaults \in Nat /\ MaxRestarts \in Nat

VARIABLES
  config,    \* set_configs, and the NAT setting of the file
  guests,    \* PoolService.guests
  nextId, anyUp, ready,
  chains,    \* producer loops, one per start_pool
  nextCall,  \* the chain whose timer loop_next_call is, or None
  recycle,   \* the timer of restart_pool is running
  bindings,  \* NATService.bindings, by guest id
  vms,       \* virtual machines ever booted, and what befell them
  sessions,
  faults, restarts

poolVars == <<guests, nextId, anyUp, ready>>
loopVars == <<chains, nextCall, recycle>>
vars == <<config, guests, nextId, anyUp, ready, chains, nextCall, recycle,
          bindings, vms, sessions, faults, restarts>>

Fault ==
  /\ faults < MaxFaults
  /\ faults' = faults + 1

-----------------------------------------------------------------------------
(* Virtual machines                                                        *)

NewVm == [power |-> "booting", dirty |-> FALSE, past |-> {}]

(* A machine comes up, if it ever does, or stops answering on its ports.   *)
VmUp(v) ==
  /\ vms[v].power = "booting"
  /\ vms' = [vms EXCEPT ![v].power = "up"]
  /\ UNCHANGED <<config, poolVars, loopVars, bindings, sessions, faults, restarts>>

VmHangs(v) ==
  /\ vms[v].power = "up"
  /\ Fault
  /\ vms' = [vms EXCEPT ![v].power = "hung", ![v].past = @ \cup {"hung"}]
  /\ UNCHANGED <<config, poolVars, loopVars, bindings, sessions, restarts>>

has_connectivity(v) == vms[v].power = "up"

Past(S, what) ==
  [v \in 1..Len(vms) |->
     IF v \in S THEN [vms[v] EXCEPT !.past = @ \cup {what}] ELSE vms[v]]

-----------------------------------------------------------------------------
(* The producer                                                            *)

NewGuest(id, v) ==
  [id |-> id, vm |-> v, state |-> "created", prev |-> "none",
   connected |-> 0, ips |-> {}]

(* Mutant: the wrap comes one too late.                                    *)
IdAfterLimit(id, n) == (id + n) % (IdLimit + 1)

IdAfter(id, n) == (id + n) % IdLimit

InState(states) == {i \in 1..Len(guests) : guests[i].state \in states}

(* Mutant: timed-out guests are looked for among all that were handed out. *)
TimedOutAny(old) == old \cap InState({"using", "used"})

(* __producer_mark_timed_out, of the guests whose time has passed.         *)
TimedOut(old) == old \cap InState({"used"})

(* __producer_destroy_timed_out, unless there is but one guest.            *)
Doomed(old) ==
  IF Len(guests) > 1 THEN InState({"unavailable"}) \cup TimedOut(old) ELSE {}

(* __producer_check_health                                                 *)
Unhealthy ==
  {i \in InState({"available", "using", "used"}) :
     ~has_connectivity(guests[i].vm)}

Checked ==
  [i \in 1..Len(guests) |->
     IF i \in Unhealthy THEN [guests[i] EXCEPT !.state = "unavailable"]
     ELSE guests[i]]

(* The members of seq at the places S, in their order.                     *)
At(seq, S) ==
  [k \in 1..Cardinality(S) |->
     seq[CHOOSE i \in S : Cardinality({j \in S : j <= i}) = k]]

(* Mutant: guests found without connectivity are dropped at once.          *)
StayingHealthy(old) == (1..Len(guests)) \ (Doomed(old) \cup Unhealthy)

(* The guests an iteration leaves in the list before it makes others.      *)
Staying(old) == (1..Len(guests)) \ Doomed(old)

Swept(old) == At(Checked, Staying(old))

MachinesOf(S) == {guests[i].vm : i \in S}

(* destroy_guest does nothing while the backend is stopped, and logs an    *)
(* error of libvirt: the guest is dropped all the same.                    *)
Destroyed(S, failing) ==
  [v \in 1..Len(vms) |->
     IF v \notin S \/ ~ready THEN vms[v]
     ELSE IF v = failing THEN [vms[v] EXCEPT !.past = @ \cup {"undead"}]
     ELSE [vms[v] EXCEPT !.power = "gone", !.dirty = FALSE]]

Missing(n) == IF n < config.max THEN config.max - n ELSE 0

(* __producer_create_guests, of n guests at once.                          *)
NewGuests(n) ==
  [k \in 1..n |-> NewGuest(IdAfter(nextId, k - 1), Len(vms) + k)]

(* __producer_mark_available                                               *)
MarkAvailable(gs, S) ==
  [i \in 1..Len(gs) |->
     IF i \in S THEN [gs[i] EXCEPT !.state = "available"] ELSE gs[i]]

(* The first iteration of a chain, in its own thread.                      *)
ChainBegin(c) ==
  /\ chains[c].pc = "begin"
  /\ \E timedOut \in SUBSET (1..Len(guests)) :
       LET left == Missing(Len(Swept(timedOut)))
       IN  /\ guests' = Swept(timedOut)
           /\ vms' = Destroyed(MachinesOf(Doomed(timedOut)), None)
           /\ chains' = [chains EXCEPT ![c].left = left,
                           ![c].pc = IF left = 0 THEN "mark" ELSE "boot"]
  /\ UNCHANGED <<config, nextId, anyUp, ready, nextCall, recycle, bindings,
                 sessions, faults, restarts>>

(* create_guest returns a machine; when the backend is stopped it returns  *)
(* nothing, and when the boot fails it raises: either way the loop is over.*)
ChainBoot(c) ==
  /\ chains[c].pc = "boot" /\ ready
  /\ vms' = Append(vms, NewVm)
  /\ chains' = [chains EXCEPT ![c].pc = "append", ![c].vm = Len(vms) + 1]
  /\ UNCHANGED <<config, poolVars, nextCall, recycle, bindings, sessions, faults,
                 restarts>>

ChainBootFails(c) ==
  /\ chains[c].pc = "boot"
  /\ IF ready THEN Fault ELSE faults' = faults
  /\ chains' = [chains EXCEPT ![c].pc = "dead"]
  /\ UNCHANGED <<config, poolVars, nextCall, recycle, bindings, vms, sessions,
                 restarts>>

ChainAppend(c) ==
  /\ chains[c].pc = "append"
  /\ guests' = Append(guests, NewGuest(nextId, chains[c].vm))
  /\ nextId' = IdAfter(nextId, 1)
  /\ chains' = [chains EXCEPT ![c].left = @ - 1, ![c].vm = None,
                  ![c].pc = IF chains[c].left = 1 THEN "mark" ELSE "boot"]
  /\ UNCHANGED <<config, anyUp, ready, nextCall, recycle, bindings, vms, sessions,
                 faults, restarts>>

ChainMark(c) ==
  /\ chains[c].pc = "mark"
  /\ \E i \in 1..Len(guests) :
       /\ guests[i].state = "created" /\ has_connectivity(guests[i].vm)
       /\ guests' = MarkAvailable(guests, {i})
  /\ anyUp' = TRUE
  /\ UNCHANGED <<config, nextId, ready, loopVars, bindings, vms, sessions,
                 faults, restarts>>

ChainSchedule(c) ==
  /\ chains[c].pc = "mark"
  /\ chains' = [chains EXCEPT ![c].pc = "waiting"]
  /\ nextCall' = c
  /\ UNCHANGED <<config, poolVars, recycle, bindings, vms, sessions, faults,
                 restarts>>

(* A later iteration, on the timer.  It makes "made" guests of those that  *)
(* are missing; if that is not all, the loop is over.  One destruction or  *)
(* one boot may fail.                                                      *)
ChainIterate(c) ==
  /\ chains[c].pc = "waiting"
  /\ \E timedOut \in SUBSET (1..Len(guests)), failing \in {None} \cup 1..Len(vms) :
       LET n == Missing(Len(Swept(timedOut)))
       IN  /\ failing \in MachinesOf(Doomed(timedOut)) \cup {None}
           /\ \E made \in 0..n :
                LET all == Swept(timedOut) \o NewGuests(made)
                    up  == {i \in 1..Len(Swept(timedOut)) :
                              /\ all[i].state = "created"
                              /\ has_connectivity(all[i].vm)}
                    wrong == failing # None \/ (made < n /\ ready)
                IN  /\ made > 0 => ready
                    /\ IF wrong THEN Fault ELSE faults' = faults
                    /\ vms' = Destroyed(MachinesOf(Doomed(timedOut)), failing)
                                \o [k \in 1..made |-> NewVm]
                    /\ nextId' = IdAfter(nextId, made)
                    /\ IF made < n
                       THEN /\ guests' = all
                            /\ chains' = [chains EXCEPT ![c].pc = "dead"]
                            /\ UNCHANGED <<anyUp, nextCall>>
                       ELSE /\ guests' = MarkAvailable(all, up)
                            /\ anyUp' = (anyUp \/ up # {})
                            /\ nextCall' = c
                            /\ UNCHANGED chains
  /\ UNCHANGED <<config, ready, recycle, bindings, sessions, restarts>>

-----------------------------------------------------------------------------
(* Stopping, and recycling                                                 *)

(* cancel raises for a timer that has run or was cancelled.                *)
Cancellable == \A c \in {nextCall} \ {None} : chains[c].pc = "waiting"

AllClosed == [id \in DOMAIN bindings |-> [bindings[id] EXCEPT !.open = FALSE]]

Cancelled ==
  IF nextCall = None THEN chains ELSE [chains EXCEPT ![nextCall].pc = "dead"]

AllOff ==
  [v \in 1..Len(vms) |->
     [power |-> "gone", dirty |-> FALSE, past |-> vms[v].past \cup {"stopped"}]]

(* stop_pool; the guests stay in the list.                                 *)
StopPool ==
  /\ vms' = AllOff
  /\ bindings' = IF config.nat THEN AllClosed ELSE bindings

(* restart_pool, on its own timer: stop_pool, then start_pool, which arms  *)
(* the timer again.  When the cancelling raises, nothing else happens.     *)
(* The period (25 minutes as shipped) is longer than a first iteration.    *)
Recycle ==
  /\ recycle /\ Cancellable
  /\ restarts < MaxRestarts \/ ~ready
  /\ \A c \in 1..Len(chains) : chains[c].pc \in {"waiting", "dead"}
  /\ StopPool
  /\ chains' = Append(Cancelled, [pc |-> "begin", left |-> 0, vm |-> None])
  /\ guests' = << >> /\ nextId' = 0 /\ anyUp' = FALSE /\ ready' = TRUE
  /\ restarts' = restarts + 1
  /\ UNCHANGED <<config, nextCall, recycle, sessions, faults>>

RecycleRaises ==
  /\ recycle /\ ~Cancellable
  /\ \A c \in 1..Len(chains) : chains[c].pc \in {"waiting", "dead"}
  /\ recycle' = FALSE
  /\ UNCHANGED <<config, poolVars, chains, nextCall, bindings, vms, sessions,
                 faults, restarts>>

-----------------------------------------------------------------------------
(* Sessions: a front end, its connection to the pool, and the pool's end   *)

NoBinding == [count |-> 0, open |-> FALSE, vm |-> None]

NoSession ==
  [pc |-> "new", open |-> FALSE, ip |-> None, id |-> None, vm |-> None,
   dirty |-> FALSE]

GoneSession == [NoSession EXCEPT !.pc = "gone"]

To(s, pc) == sessions' = [sessions EXCEPT ![s].pc = pc]

(* The first connection of all carries the settings of the front end; the  *)
(* listeners open when they are acknowledged.                              *)
Configure ==
  /\ ~config.set
  /\ \E size \in PoolSizes, share \in BOOLEAN :
       config' = [config EXCEPT !.set = TRUE, !.max = size, !.share = share]
  /\ UNCHANGED <<poolVars, loopVars, bindings, vms, sessions, faults, restarts>>

(* connectionMade dials the pool, and pool_connection_success asks it for  *)
(* a machine, though the attacker may have left by then.                   *)
Connect(s) ==
  /\ config.set /\ sessions[s].pc = "new"
  /\ \E ip \in Ips :
       sessions' = [sessions EXCEPT ![s].pc = "asked", ![s].open = TRUE,
                                    ![s].ip = ip]
  /\ UNCHANGED <<config, poolVars, loopVars, bindings, vms, faults, restarts>>

(* Mutant: only guests whose attacker has left are looked at.              *)
CandidatesUsed(ip) ==
  LET own  == {i \in InState({"used"}) : ip \in guests[i].ips}
      any  == InState({"using", "used"})
      few  == {i \in any : \A j \in any : guests[i].connected <= guests[j].connected}
  IN  IF own # {} THEN own
      ELSE IF InState({"available"}) # {} THEN InState({"available"})
      ELSE IF config.share THEN few ELSE {}

(* The guests request_vm would serve to an address, the first of which it  *)
(* takes: one that has served it, a free one, or one with few clients.     *)
Candidates(ip) ==
  LET any  == InState({"using", "used"})
      own  == {i \in any : ip \in guests[i].ips}
      few  == {i \in any : \A j \in any : guests[i].connected <= guests[j].connected}
  IN  IF own # {} THEN own
      ELSE IF InState({"available"}) # {} THEN InState({"available"})
      ELSE IF config.share THEN few ELSE {}

(* Mutant: the state to go back to is remembered from the first request.   *)
GivenKeepsPrev(i, ip) ==
  LET g == guests[i] IN
  guests' = [guests EXCEPT ![i] =
    [g EXCEPT !.prev = IF @ = "none" THEN g.state ELSE @, !.state = "using",
              !.connected = @ + 1, !.ips = @ \cup {ip}]]

(* Mutant: an address is counted once.                                     *)
GivenOncePerAddress(i, ip) ==
  LET g == guests[i] IN
  guests' = [guests EXCEPT ![i] =
    [g EXCEPT !.prev = g.state, !.state = "using",
              !.connected = IF ip \in g.ips THEN @ ELSE @ + 1,
              !.ips = @ \cup {ip}]]

Given(i, ip) ==
  LET g == guests[i] IN
  guests' = [guests EXCEPT ![i] =
    [g EXCEPT !.prev = g.state, !.state = "using",
              !.connected = @ + 1, !.ips = @ \cup {ip}]]

(* The ports of a stopped pool are closed but still listed: they have no   *)
(* number, and packing the answer raises.                                  *)
request_binding(i) ==
  LET id == guests[i].id IN
  bindings' =
    IF ~config.nat THEN bindings
    ELSE IF bindings[id].count > 0
    THEN [bindings EXCEPT ![id].count = @ + 1]
    ELSE [bindings EXCEPT ![id] =
            [count |-> 1, open |-> TRUE, vm |-> guests[i].vm]]

(* A binding is looked up by the guest's id: it may be one that clients of *)
(* an earlier machine of this id still hold, whose ports lead there.       *)
Misled(i) ==
  LET b == bindings[guests[i].id] IN
  IF config.nat /\ b.count > 0 /\ b.vm # guests[i].vm
  THEN {guests[i].vm, b.vm} ELSE {}

(* The server answers a request.  When the attacker has left before the    *)
(* answer is there, or the answer cannot be packed, the session holds its  *)
(* guest and nobody will give it back.                                     *)
Serve(s) ==
  /\ sessions[s].pc = "asked"
  /\ \E i \in Candidates(sessions[s].ip) :
       /\ \A j \in Candidates(sessions[s].ip) : i <= j
       /\ Given(i, sessions[s].ip)
       /\ request_binding(i)
       /\ vms' = Past(Misled(i), "misled")
       /\ LET packed == config.nat => bindings'[guests[i].id].open
          IN  sessions' = [sessions EXCEPT
                ![s].pc = IF packed /\ sessions[s].open THEN "served" ELSE "lost",
                ![s].id = guests[i].id, ![s].vm = guests[i].vm]
  /\ UNCHANGED <<config, nextId, anyUp, ready, loopVars, faults, restarts>>

(* NoAvailableVMs.  If any guest ever came up the pool is stopped first,   *)
(* unless the cancelling of the timer raises.                              *)
Refuse(s) ==
  /\ sessions[s].pc = "asked" /\ Candidates(sessions[s].ip) = {}
  /\ sessions' = [sessions EXCEPT ![s] = GoneSession]
  /\ IF anyUp /\ Cancellable
     THEN StopPool /\ ready' = FALSE /\ chains' = Cancelled
     ELSE UNCHANGED <<ready, chains, vms, bindings>>
  /\ UNCHANGED <<config, guests, nextId, anyUp, nextCall, recycle, faults, restarts>>

(* The machine a session's front end reaches.                              *)
Reached(s) ==
  IF config.nat THEN bindings[sessions[s].id].vm ELSE sessions[s].vm

(* The attacker is logged in to it.                                        *)
Login(s) ==
  /\ sessions[s].pc = "served" /\ ~sessions[s].dirty
  /\ has_connectivity(Reached(s))
  /\ config.nat => bindings[sessions[s].id].open
  /\ sessions' = [sessions EXCEPT ![s].dirty = TRUE]
  /\ vms' = [vms EXCEPT ![Reached(s)].dirty = TRUE]
  /\ UNCHANGED <<config, poolVars, loopVars, bindings, faults, restarts>>

(* connectionLost: the machine is given back if its id is known by now.  A *)
(* request under way is served to nobody.                                  *)
Disconnect(s) ==
  /\ sessions[s].open
  /\ sessions' = [sessions EXCEPT ![s].open = FALSE,
       ![s].pc = IF sessions[s].pc = "served" THEN "leaving" ELSE sessions[s].pc]
  /\ UNCHANGED <<config, poolVars, loopVars, bindings, vms, faults, restarts>>

(* The front end's process dies: the pool is told nothing.                 *)
FrontEndDies(s) ==
  /\ sessions[s].pc = "served"
  /\ Fault
  /\ sessions' = [sessions EXCEPT ![s].pc = "lost", ![s].open = FALSE]
  /\ UNCHANGED <<config, poolVars, loopVars, bindings, vms, restarts>>

(* Mutant: the binding goes with the first of its clients.                 *)
free_bindingAtOnce(id) ==
  bindings' = IF config.nat THEN [bindings EXCEPT ![id] = NoBinding] ELSE bindings

free_binding(id) ==
  bindings' =
    IF ~config.nat THEN bindings
    ELSE IF bindings[id].count = 1 THEN [bindings EXCEPT ![id] = NoBinding]
    ELSE [bindings EXCEPT ![id].count = @ - 1]

(* free_vm of a machine that was logged in to, reuse_vm of one that was    *)
(* not, for the first guest of that id.                                    *)
Freed(g, dirty) ==
  LET left == [g EXCEPT !.connected = @ - 1] IN
  IF left.connected # 0 THEN left
  ELSE IF dirty THEN [left EXCEPT !.state = "used"]
  ELSE [left EXCEPT !.state = g.prev, !.prev = "none"]

Free(s) ==
  /\ sessions[s].pc = "leaving"
  /\ LET id   == sessions[s].id
         same == {i \in 1..Len(guests) : guests[i].id = id}
     IN  IF config.nat /\ bindings[id].count = 0
         THEN /\ To(s, "lost")
              /\ UNCHANGED <<guests, bindings, vms>>
         ELSE /\ sessions' = [sessions EXCEPT ![s] = GoneSession]
              /\ free_binding(id)
              /\ IF same = {} THEN UNCHANGED <<guests, vms>>
                 ELSE \E i \in same :
                   /\ \A j \in same : i <= j
                   /\ guests' = [guests EXCEPT ![i] = Freed(@, sessions[s].dirty)]
                   /\ vms' = IF guests[i].vm # sessions[s].vm
                             THEN Past({guests[i].vm, sessions[s].vm}, "mistaken")
                             ELSE IF guests'[i].state = "available"
                             THEN Past({guests[i].vm}, "reused") ELSE vms
  /\ UNCHANGED <<config, nextId, anyUp, ready, loopVars, faults, restarts>>

-----------------------------------------------------------------------------
Init ==
  /\ \E nat \in NatModes :
       config = [max |-> DefaultSize, share |-> TRUE, set |-> FALSE, nat |-> nat]
  /\ guests = << >> /\ nextId = 0 /\ anyUp = FALSE /\ ready = TRUE
  /\ chains = <<[pc |-> "begin", left |-> 0, vm |-> None]>>
  /\ nextCall = None /\ recycle = TRUE
  /\ bindings = [id \in 0..(IdLimit - 1) |-> NoBinding]
  /\ vms = << >>
  /\ sessions = [s \in Sessions |-> NoSession]
  /\ faults = 0 /\ restarts = 0

ChainStep(c) ==
  \/ ChainBegin(c) \/ ChainBoot(c) \/ ChainBootFails(c) \/ ChainAppend(c)
  \/ ChainMark(c) \/ ChainSchedule(c) \/ ChainIterate(c)

SessionStep(s) ==
  \/ Connect(s) \/ Serve(s) \/ Refuse(s) \/ Login(s)
  \/ Disconnect(s) \/ FrontEndDies(s) \/ Free(s)

Next ==
  \/ \E c \in 1..Len(chains) : ChainStep(c)
  \/ \E v \in 1..Len(vms) : VmUp(v) \/ VmHangs(v)
  \/ Recycle \/ RecycleRaises \/ Configure
  \/ \E s \in Sessions : SessionStep(s)

Spec == Init /\ [][Next]_vars

(* The reactor's timers fire and the first iteration's thread runs on.     *)
FairSpec ==
  /\ Spec
  /\ WF_vars(Recycle \/ RecycleRaises)
  /\ \A c \in 1..(MaxRestarts + Cardinality(Sessions) + 1) :
       WF_vars(c \in 1..Len(chains) /\ ChainStep(c))

-----------------------------------------------------------------------------
(* Properties                                                              *)

States == {"created", "available", "using", "used", "unavailable"}

Vms == 1..Len(vms)

(* The pool's lists and counters are well formed: ids stay below the wrap, *)
(* no guest has more clients than there are connections.                   *)
TypeOK ==
  /\ config.max \in PoolSizes \cup {DefaultSize}
  /\ \A i \in 1..Len(guests) :
       /\ guests[i].id \in 0..(IdLimit - 1) /\ guests[i].vm \in Vms
       /\ guests[i].state \in States
       /\ guests[i].ips \subseteq Ips
       /\ guests[i].connected <= Cardinality(Sessions)
  /\ nextId \in 0..(IdLimit - 1)
  /\ nextCall \in {None} \cup 1..Len(chains)
  /\ \A s \in Sessions : sessions[s].vm \in {None} \cup Vms

Excused(v, what) == vms[v].past \cap what # {}

Holders(v) ==
  {s \in Sessions : sessions[s].vm = v
                      /\ sessions[s].pc \in {"served", "leaving", "lost"}}

(* "connected" of a guest is the number of connections that were given its *)
(* machine and have not given it back, through any order of requests,      *)
(* frees, re-uses and recycling, unless a free was meant for an earlier    *)
(* machine of that id (request_vm, free_vm, reuse_vm).                     *)
CountsItsHolders ==
  \A i \in 1..Len(guests) :
    \/ guests[i].connected = Cardinality(Holders(guests[i].vm))
    \/ Excused(guests[i].vm, {"mistaken"})

(* A free guest is pristine: no machine an attacker logged in to goes back *)
(* to "available", whoever leaves last and however (prev_state, reuse_vm), *)
(* unless ports or a free of it were meant for another machine of its id.  *)
AvailableIsPristine ==
  \A i \in 1..Len(guests) :
    guests[i].state = "available" =>
      ~vms[guests[i].vm].dirty \/ Excused(guests[i].vm, {"mistaken", "misled"})

(* The producer destroys no machine that a client is on: it is gone under  *)
(* a client only if it stopped answering, the whole pool was stopped, or a *)
(* free was meant for another (mark_timed_out, destroy_timed_out).         *)
NoEvictionUnderClient ==
  \A s \in Sessions :
    sessions[s].pc = "served" /\ vms[sessions[s].vm].power = "gone" =>
      Excused(sessions[s].vm, {"hung", "stopped", "mistaken"})

(* Connections of one address see one machine (README of the pool: the     *)
(* same attacker gets a consistent view), while it lives.  A machine that  *)
(* went back to the free ones keeps its addresses: with two of those an    *)
(* address may be given the one, and then the other once that is in use.   *)
ConsistentView ==
  \A s, t \in Sessions :
    sessions[s].pc = "served" /\ sessions[t].pc = "served"
      /\ sessions[s].ip = sessions[t].ip =>
        \/ sessions[s].vm = sessions[t].vm
        \/ \E u \in {s, t} :
             Excused(sessions[u].vm, {"hung", "stopped", "mistaken", "reused"})

(* While a connection has its machine, the ports it was told are open and  *)
(* lead to that machine, unless the pool was stopped or they were those of *)
(* an earlier machine of its id (request_binding, free_binding, free_all). *)
PortsLeadToTheMachine ==
  \A s \in Sessions :
    sessions[s].pc = "served" /\ config.nat =>
      LET b == bindings[sessions[s].id] IN
      \/ b.open /\ b.vm = sessions[s].vm
      \/ Excused(sessions[s].vm, {"stopped", "misled"})

Listed == {guests[i].vm : i \in 1..Len(guests)}
InHand == {chains[c].vm : c \in 1..Len(chains)}

(* A machine that runs is one the pool knows of; otherwise its destruction *)
(* failed (destroy_guest swallows the error, and the guest is dropped).    *)
NoOrphans ==
  \A v \in Vms : vms[v].power # "gone" =>
    v \in Listed \cup InHand \/ Excused(v, {"undead"})

(* Log message of request_vm, pool_service.py:450: "Inconsistent state in  *)
(* pool, restarting...": a pool that was stopped runs again some day.      *)
RestartsAfterStop == ~ready ~> ready
=============================================================================
