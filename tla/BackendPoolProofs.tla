-------------------------- MODULE BackendPoolProofs --------------------------
(***************************************************************************)
(* Proofs about Cowrie's backend pool.  A state is first seen to be well   *)
(* shaped; then every step of the producer is shown to be one of the kind  *)
(* Machinery, which never looks at places in the list of guests, and each  *)
(* invariant is carried over that kind and over the steps of the sessions. *)
(***************************************************************************)
EXTENDS BackendPool, FiniteSetTheorems, SequenceTheorems, TLAPS

-----------------------------------------------------------------------------
(* The invariants                                                          *)

(* What the pool holds, in whatever order.                                 *)
Entries == {guests[i] : i \in 1..Len(guests)}

Ids == 0..(IdLimit - 1)
UsedPcs == {"served", "leaving", "lost"}
Usable == {"available", "using", "used"}

Guest ==
  [id : Ids, vm : Vms, state : States, prev : {"none"} \cup Usable,
   connected : Int, ips : SUBSET Ips]
Chain ==
  [pc : {"begin", "boot", "append", "mark", "waiting", "dead"}, left : Int,
   vm : {None} \cup Vms]
Tags == {"hung", "undead", "stopped", "mistaken", "misled", "reused"}
Machine ==
  [power : {"booting", "up", "hung", "gone"}, dirty : BOOLEAN,
   past : SUBSET Tags]
Session ==
  [pc : UsedPcs \cup {"new", "asked", "gone"}, open : BOOLEAN,
   ip : {None} \cup Ips, id : Ids, vm : {None} \cup Vms, dirty : BOOLEAN]
Binding == [count : Nat, open : BOOLEAN, vm : {None} \cup Vms]
Config ==
  [max : PoolSizes \cup {DefaultSize}, share : BOOLEAN, set : BOOLEAN,
   nat : BOOLEAN]

(* A session has an address once it has asked, and a machine while it      *)
(* holds one; only one that was served is logged in.                       *)
SessionsOK ==
  \A s \in Sessions :
    /\ sessions[s].pc \in UsedPcs \cup {"asked"} => sessions[s].ip \in Ips
    /\ sessions[s].vm # None <=> sessions[s].pc \in UsedPcs
    /\ sessions[s].pc \in {"new", "asked"} => ~sessions[s].dirty

Shape ==
  /\ config \in Config
  /\ guests \in Seq(Guest) /\ nextId \in Ids
  /\ anyUp \in BOOLEAN /\ ready \in BOOLEAN
  /\ chains \in Seq(Chain) /\ nextCall \in {None} \cup 1..Len(chains)
  /\ bindings \in [Ids -> Binding]
  /\ vms \in Seq(Machine)
  /\ sessions \in [Sessions -> Session]
  /\ SessionsOK

(* No machine is twice in the pool, or in the pool and in hand.            *)
Distinct ==
  \A i, j \in 1..Len(guests) : guests[i].vm = guests[j].vm => i = j

Hands ==
  \A c \in 1..Len(chains) :
    /\ chains[c].vm # None <=> chains[c].pc = "append"
    /\ chains[c].vm # None =>
         /\ chains[c].vm \notin Listed
         /\ \A d \in 1..Len(chains) : chains[d].vm = chains[c].vm => d = c

(* While the backend is stopped, no machine runs.                          *)
Off == ~ready => \A v \in Vms : vms[v].power = "gone"

Structure == Shape /\ Distinct /\ Hands /\ Off

-----------------------------------------------------------------------------
Tagged(v, what) == what \in vms[v].past

(* A guest remembers no state to go back to before its first client, and   *)
(* "available" only with the first.                                        *)
Remembered ==
  \A g \in Entries :
    /\ g.prev = "none" => g.connected =< 0
    /\ g.prev = "available" => g.connected =< 1
    /\ g.state \in {"created", "available"} => g.prev = "none"

Asked == {s \in Sessions : sessions[s].pc \notin {"new", "asked"}}

Bounded == \A g \in Entries : g.connected =< Cardinality(Asked)

(* A holder of a listed machine knows its id, and is among its addresses;  *)
(* a machine in hand has none.                                             *)
Linked ==
  \A s \in Sessions :
    /\ \A g \in Entries :
         g.vm = sessions[s].vm => g.id = sessions[s].id /\ sessions[s].ip \in g.ips
    /\ sessions[s].vm # None => sessions[s].vm \notin InHand

(* What the power of a machine says about its past and its place.          *)
Powered ==
  /\ \A v \in Vms :
       /\ vms[v].power = "gone" /\ v \in Listed \cup InHand => Tagged(v, "stopped")
       /\ vms[v].power = "hung" => Tagged(v, "hung")
  /\ \A g \in Entries :
       /\ g.state # "created" => vms[g.vm].power # "booting"
       /\ g.state = "unavailable" => Excused(g.vm, {"hung", "stopped"})

Counted ==
  /\ \A g \in Entries :
       \/ Tagged(g.vm, "mistaken")
       \/ /\ g.connected = Cardinality(Holders(g.vm))
          /\ Holders(g.vm) # {} => g.state \in {"using", "unavailable"}
  /\ \A s \in Sessions :
       sessions[s].vm # None =>
         \/ sessions[s].vm \in Listed
         \/ Excused(sessions[s].vm, {"hung", "stopped", "mistaken"})

Misplaced == {"mistaken", "misled"}

Pristine ==
  /\ \A g \in Entries :
       \/ Excused(g.vm, Misplaced)
       \/ /\ g.state \in {"created", "available"} => ~vms[g.vm].dirty
          /\ g.prev = "available" /\ vms[g.vm].dirty =>
               \A s \in Holders(g.vm) : sessions[s].dirty
  /\ \A v \in Vms \cap InHand : ~vms[v].dirty \/ Excused(v, Misplaced)

Clients(id) == {s \in Sessions : sessions[s].id = id /\ sessions[s].vm # None}

LeadsToIt(s) ==
  LET b == bindings[sessions[s].id]
      v == sessions[s].vm
  IN  \/ b.vm = v /\ (b.open \/ Tagged(v, "stopped"))
      \/ b.vm \in Vms /\ Tagged(v, "misled") /\ Tagged(b.vm, "misled")

Forwarded ==
  config.nat =>
    /\ \A id \in Ids : bindings[id].count = Cardinality(Clients(id))
    /\ \A id \in Ids : bindings[id].count > 0 => bindings[id].vm \in Vms
    /\ \A s \in Sessions : sessions[s].pc = "served" => LeadsToIt(s)

Moved == {"hung", "stopped", "mistaken", "reused"}

Consistent ==
  \A g \in Entries : g.ips # {} =>
    \/ Excused(g.vm, Moved)
    \/ /\ g.state \in {"using", "used"}
       /\ \A h \in Entries :
            h.vm = g.vm \/ Excused(h.vm, Moved) \/ h.ips \cap g.ips = {}

-----------------------------------------------------------------------------
(* Sub-sequences                                                           *)

(* The place of a member among those of S.                                 *)
Rank(S, i) == Cardinality({j \in S : j =< i})

(* Ranks number the members of a finite set of places from 1 on.           *)
LEMMA Ranks ==
  ASSUME NEW S \in SUBSET Nat, IsFiniteSet(S)
  PROVE  /\ Cardinality(S) \in Nat
         /\ \A i \in S : Rank(S, i) \in 1..Cardinality(S)
         /\ \A i, k \in S : Rank(S, i) = Rank(S, k) => i = k
         /\ \A r \in 1..Cardinality(S) : \E i \in S : Rank(S, i) = r
<1> DEFINE Below(i) == {j \in S : j =< i}
<1>1. IsFiniteSet(S) /\ Cardinality(S) \in Nat
  BY FS_CardinalityType
<1>2. \A i \in S : IsFiniteSet(Below(i)) /\ Rank(S, i) \in 1..Cardinality(S)
  <2> SUFFICES ASSUME NEW i \in S
               PROVE  IsFiniteSet(Below(i)) /\ Rank(S, i) \in 1..Cardinality(S)
    OBVIOUS
  <2>1. IsFiniteSet(Below(i)) /\ Cardinality(Below(i)) =< Cardinality(S)
    BY <1>1, FS_Subset
  <2>2. Cardinality(Below(i)) \in Nat /\ Cardinality(Below(i)) # 0
    BY <2>1, FS_CardinalityType, FS_EmptySet
  <2> QED  BY <2>1, <2>2, <1>1 DEF Rank
<1>3. \A i, k \in S : i < k => Rank(S, i) # Rank(S, k)
  <2> SUFFICES ASSUME NEW i \in S, NEW k \in S, i < k
               PROVE  Cardinality(Below(i)) # Cardinality(Below(k))
    BY DEF Rank
  <2>1. Below(i) \subseteq Below(k) /\ k \in Below(k) /\ k \notin Below(i)
    <3>1. \A j \in S : j \in Nat
      OBVIOUS
    <3>2. k =< k /\ ~(k =< i) /\ \A j \in S : j =< i => j =< k
      BY <3>1
    <3> QED  BY <3>2
  <2> QED  BY <2>1, <1>2, FS_Subset
<1>4. \A i, k \in S : Rank(S, i) = Rank(S, k) => i = k
  BY <1>3
<1> DEFINE f == [i \in S |-> Rank(S, i)]
<1>5. f \in Injection(S, 1..Cardinality(S))
  BY <1>2, <1>4 DEF Injection, IsInjective
<1>6. IsFiniteSet(1..Cardinality(S)) /\ Cardinality(1..Cardinality(S)) = Cardinality(S)
  <2> PICK c \in Nat : c = Cardinality(S)
    BY <1>1
  <2>1. IsFiniteSet(1..c) /\ Cardinality(1..c) = c
    BY FS_Interval
  <2> QED  BY <2>1
<1>7. f \in Surjection(S, 1..Cardinality(S))
  BY <1>5, <1>6, FS_Injection
<1>8. \A r \in 1..Cardinality(S) : \E i \in S : Rank(S, i) = r
  BY <1>7 DEF Surjection
<1> QED  BY <1>1, <1>2, <1>4, <1>8

(* The places of S in their order.                                         *)
Places(S) == [k \in 1..Cardinality(S) |-> CHOOSE i \in S : Rank(S, i) = k]

LEMMA PlacesOnce ==
  ASSUME NEW S \in SUBSET Nat, IsFiniteSet(S)
  PROVE  /\ Cardinality(S) \in Nat
         /\ \A k \in 1..Cardinality(S) : Places(S)[k] \in S
         /\ \A k, l \in 1..Cardinality(S) : Places(S)[k] = Places(S)[l] => k = l
         /\ \A i \in S : \E k \in 1..Cardinality(S) : Places(S)[k] = i
<1>1. /\ Cardinality(S) \in Nat
      /\ \A i \in S : Rank(S, i) \in 1..Cardinality(S)
      /\ \A i, k \in S : Rank(S, i) = Rank(S, k) => i = k
      /\ \A r \in 1..Cardinality(S) : \E i \in S : Rank(S, i) = r
  BY Ranks
<1>2. \A k \in 1..Cardinality(S) : Places(S)[k] \in S /\ Rank(S, Places(S)[k]) = k
  BY <1>1 DEF Places
<1>3. \A k, l \in 1..Cardinality(S) : Places(S)[k] = Places(S)[l] => k = l
  BY <1>2
<1>4. \A i \in S : \E k \in 1..Cardinality(S) : Places(S)[k] = i
  <2> SUFFICES ASSUME NEW i \in S
               PROVE  Places(S)[Rank(S, i)] = i
    BY <1>1
  <2> QED  BY <1>1, <1>2
<1> QED  BY <1>1, <1>2, <1>3, <1>4

(* At(seq, S) holds each member of seq at a place in S exactly once.       *)
LEMMA AtPlaces ==
  ASSUME NEW seq, NEW S
  PROVE  At(seq, S) = [k \in 1..Cardinality(S) |-> seq[Places(S)[k]]]
BY DEF At, Places, Rank

-----------------------------------------------------------------------------
(* Steps of the producer, seen by machine and not by place                 *)

Same(g, h) ==
  /\ h.vm = g.vm /\ h.id = g.id /\ h.prev = g.prev
  /\ h.connected = g.connected /\ h.ips = g.ips

Follows(g, h) ==
  /\ Same(g, h)
  /\ \/ h.state = g.state
     \/ /\ g.state \in Usable /\ h.state = "unavailable"
        /\ vms[g.vm].power # "up"
     \/ /\ g.state = "created" /\ h.state = "available"
        /\ vms[g.vm].power = "up"

Fresh(h) ==
  /\ h.vm \notin Listed /\ h.vm \notin InHand' /\ (h.vm \in InHand \/ h.vm \notin Vms)
  /\ h.state = "created" /\ h.prev = "none" /\ h.connected = 0 /\ h.ips = {}

Dropped(g) ==
  /\ g.state \in {"used", "unavailable"}
  /\ ready => vms'[g.vm].power = "gone" \/ "undead" \in vms'[g.vm].past

Aged(v) ==
  /\ vms'[v].dirty => vms[v].dirty
  /\ vms[v].past \subseteq vms'[v].past
  /\ \/ vms'[v].power = vms[v].power
     \/ vms[v].power = "booting" /\ vms'[v].power = "up"
     \/ /\ vms[v].power = "up" /\ vms'[v].power = "hung"
        /\ "hung" \in vms'[v].past
     \/ vms'[v].power = "gone" /\ v \notin Listed' \cup InHand'

Machinery ==
  /\ UNCHANGED <<sessions, bindings, ready>> /\ config'.nat = config.nat
  /\ Vms \subseteq Vms'
  /\ \A v \in Vms : Aged(v)
  /\ \A v \in Vms' \ Vms : vms'[v] = NewVm /\ v \in Listed' \cup InHand'
  /\ \A h \in Entries' : Fresh(h) \/ \E g \in Entries : Follows(g, h)
  /\ \A g \in Entries : Dropped(g) \/ \E h \in Entries' : Follows(g, h)
  /\ \A v \in Vms \cap InHand : v \in InHand' \cup Listed'
  /\ \A v \in Vms \cap InHand' : v \in InHand

MachineStep ==
  \/ \E c \in 1..Len(chains) : ChainStep(c)
  \/ \E v \in 1..Len(vms) : VmUp(v) \/ VmHangs(v)
  \/ Configure \/ RecycleRaises

-----------------------------------------------------------------------------
(* The shape of a state                                                    *)

LEMMA Lists ==
  ASSUME Shape
  PROVE  /\ Len(guests) \in Nat /\ DOMAIN guests = 1..Len(guests)
         /\ \A i \in 1..Len(guests) : guests[i] \in Guest
         /\ Len(chains) \in Nat /\ DOMAIN chains = 1..Len(chains)
         /\ \A c \in 1..Len(chains) : chains[c] \in Chain
         /\ Len(vms) \in Nat /\ DOMAIN vms = Vms
         /\ \A v \in Vms : vms[v] \in Machine
BY LenProperties, ElementOfSeq DEF Shape, Vms

LEMMA Wider ==
  ASSUME Vms \subseteq Vms'
  PROVE  /\ Guest \subseteq Guest' /\ Chain \subseteq Chain'
         /\ Session \subseteq Session' /\ Binding \subseteq Binding'
<1>1. Guest \subseteq Guest'
  BY DEF Guest
<1>2. Chain \subseteq Chain'
  BY DEF Chain
<1>3. Session \subseteq Session'
  BY DEF Session
<1>4. Binding \subseteq Binding'
  BY DEF Binding
<1> QED  BY <1>1, <1>2, <1>3, <1>4

(* A function on 1..n with values in S is a sequence of length n.          *)
LEMMA AsSeq ==
  ASSUME NEW S, NEW n \in Nat, NEW f \in [1..n -> S]
  PROVE  f \in Seq(S) /\ Len(f) = n
<1>1. f \in Seq(S)
  BY SeqDef
<1>2. DOMAIN f = 1..n /\ DOMAIN f = 1..Len(f) /\ Len(f) \in Nat
  BY <1>1, LenProperties
<1>3. Len(f) = n
  BY <1>2
<1> QED  BY <1>1, <1>3

(* While guests and chains stay, more machines leave the structure.        *)
LEMMA ShapeGrows ==
  ASSUME Structure, vms' \in Seq(Machine), Vms \subseteq Vms', Off',
         config' \in Config, anyUp' \in BOOLEAN, ready' \in BOOLEAN,
         UNCHANGED <<guests, nextId, chains, nextCall, bindings, sessions>>
  PROVE  Structure'
<1>1. Guest \subseteq Guest' /\ Chain \subseteq Chain' /\ Session \subseteq Session'
      /\ Binding \subseteq Binding'
  BY Wider
<1>2. guests' \in Seq(Guest') /\ chains' \in Seq(Chain')
  BY <1>1, SeqMonotonic DEF Structure, Shape
<1>3. sessions' \in [Sessions -> Session'] /\ bindings' \in [Ids -> Binding']
  BY <1>1 DEF Structure, Shape
<1>4. SessionsOK'
  BY DEF Structure, Shape, SessionsOK
<1>5. Distinct' /\ Hands'
  BY DEF Structure, Distinct, Hands, Listed
<1> QED  BY <1>2, <1>3, <1>4, <1>5
         DEF Structure, Shape, Config, Ids, Machine, Tags

LEMMA MachineChanged ==
  ASSUME Shape, NEW v \in Vms, NEW m \in Machine, vms' = [vms EXCEPT ![v] = m]
  PROVE  /\ vms' \in Seq(Machine) /\ Vms' = Vms
         /\ vms'[v] = m /\ \A w \in Vms : w # v => vms'[w] = vms[w]
BY ExceptSeq DEF Shape, Vms

(* A step that touches neither the guests nor what is in hand.            *)
LEMMA Unmoved ==
  ASSUME UNCHANGED <<guests, sessions, bindings, ready>>,
         Vms \cap InHand' = Vms \cap InHand,
         config'.nat = config.nat, Vms' = Vms, \A v \in Vms : Aged(v)
  PROVE  Machinery
<1>1. Entries' = Entries /\ Listed' = Listed
  BY DEF Entries, Listed
<1>2. \A g \in Entries : Follows(g, g)
  BY DEF Follows, Same
<1> QED  BY <1>1, <1>2 DEF Machinery

LEMMA VmUpKeeps ==
  ASSUME Structure, NEW v \in Vms, VmUp(v)
  PROVE  Structure' /\ Machinery
<1>1. vms[v] \in Machine
  BY Lists DEF Structure
<1> DEFINE m == [vms[v] EXCEPT !.power = "up"]
<1>2. /\ m \in Machine /\ m.dirty = vms[v].dirty /\ m.past = vms[v].past
      /\ m.power = "up"
  BY <1>1 DEF Machine
<1>3. vms' = [vms EXCEPT ![v] = m]
  BY DEF VmUp
<1> HIDE DEF m
<1>4. /\ vms' \in Seq(Machine) /\ Vms' = Vms
      /\ vms'[v] = m /\ \A w \in Vms : w # v => vms'[w] = vms[w]
  BY <1>2, <1>3, MachineChanged DEF Structure
<1>5. UNCHANGED <<config, guests, nextId, anyUp, ready, chains, nextCall,
                  bindings, sessions>>
  BY DEF VmUp, poolVars, loopVars
<1>8. Off'
  BY <1>1, <1>4, <1>5 DEF Structure, Off, VmUp
<1>6. Structure'
  BY <1>4, <1>5, <1>8, ShapeGrows DEF Structure, Shape
<1>7. (\A w \in Vms : Aged(w)) /\ InHand' = InHand
  BY <1>2, <1>4, <1>5 DEF Aged, VmUp, InHand
<1> QED  BY <1>4, <1>5, <1>6, <1>7, Unmoved

LEMMA VmHangsKeeps ==
  ASSUME Structure, NEW v \in Vms, VmHangs(v)
  PROVE  Structure' /\ Machinery
<1>1. vms[v] \in Machine
  BY Lists DEF Structure
<1> DEFINE m == [vms[v] EXCEPT !.power = "hung", !.past = @ \cup {"hung"}]
<1>2. /\ m \in Machine /\ m.dirty = vms[v].dirty
      /\ m.past = vms[v].past \cup {"hung"} /\ m.power = "hung"
  <2>1. vms[v].past \cup {"hung"} \in SUBSET Tags
    BY <1>1 DEF Machine, Tags
  <2>2. /\ m.dirty = vms[v].dirty /\ m.power = "hung"
        /\ m.past = vms[v].past \cup {"hung"}
    BY <1>1 DEF Machine
  <2> QED  BY <1>1, <2>1, <2>2 DEF Machine
<1>3. vms' = [vms EXCEPT ![v] = m]
  BY <1>1, Lists DEF VmHangs, Structure, Machine
<1> HIDE DEF m
<1>4. /\ vms' \in Seq(Machine) /\ Vms' = Vms
      /\ vms'[v] = m /\ \A w \in Vms : w # v => vms'[w] = vms[w]
  BY <1>2, <1>3, MachineChanged DEF Structure
<1>5. UNCHANGED <<config, guests, nextId, anyUp, ready, chains, nextCall,
                  bindings, sessions>>
  BY DEF VmHangs, poolVars, loopVars
<1>6. Off'
  BY <1>4, <1>5 DEF Structure, Off, VmHangs
<1>7. Structure'
  BY <1>4, <1>5, <1>6, ShapeGrows DEF Structure, Shape
<1>8. (\A w \in Vms : Aged(w)) /\ InHand' = InHand
  BY <1>2, <1>4, <1>5 DEF Aged, VmHangs, InHand
<1> QED  BY <1>4, <1>5, <1>7, <1>8, Unmoved

LEMMA ConfigureKeeps ==
  ASSUME Structure, Configure
  PROVE  Structure' /\ Machinery
<1>1. UNCHANGED <<guests, nextId, anyUp, ready, chains, nextCall, bindings,
                  sessions, vms>>
  BY DEF Configure, poolVars, loopVars
<1>2. config \in Config
  BY DEF Structure, Shape
<1>3. config' \in Config /\ config'.nat = config.nat
  BY <1>2 DEF Configure, Config
<1>4. Vms' = Vms /\ vms' \in Seq(Machine) /\ Off'
  BY <1>1 DEF Structure, Shape, Off, Vms
<1>5. Structure'
  BY <1>1, <1>3, <1>4, ShapeGrows DEF Structure, Shape
<1>6. (\A w \in Vms : Aged(w)) /\ InHand' = InHand
  BY <1>1 DEF Aged, InHand
<1> QED  BY <1>1, <1>3, <1>4, <1>5, <1>6, Unmoved

LEMMA RecycleRaisesKeeps ==
  ASSUME Structure, RecycleRaises
  PROVE  Structure' /\ Machinery
<1>1. UNCHANGED <<config, guests, nextId, anyUp, ready, chains, nextCall,
                  bindings, sessions, vms>>
  BY DEF RecycleRaises, poolVars
<1>2. Vms' = Vms /\ vms' \in Seq(Machine) /\ Off'
  BY <1>1 DEF Structure, Shape, Off, Vms
<1>3. Structure'
  BY <1>1, <1>2, ShapeGrows DEF Structure, Shape
<1>4. (\A w \in Vms : Aged(w)) /\ InHand' = InHand
  BY <1>1 DEF Aged, InHand
<1> QED  BY <1>1, <1>2, <1>3, <1>4, Unmoved

-----------------------------------------------------------------------------
(* Chains                                                                  *)

(* A chain that ends up with nothing in hand.                              *)
LEMMA ChainMoved ==
  ASSUME Structure, NEW c \in 1..Len(chains), NEW d \in Chain,
         d.vm = None, d.pc # "append",
         chains' = [chains EXCEPT ![c] = d],
         \A v \in Vms \cap InHand : v # chains[c].vm => v \notin Listed'
  PROVE  /\ chains' \in Seq(Chain) /\ Len(chains') = Len(chains) /\ Hands'
         /\ Vms \cap InHand' = (Vms \cap InHand) \ {chains[c].vm}
         /\ InHand' \subseteq Vms \cup {None}
<1>1. /\ chains' \in Seq(Chain) /\ Len(chains') = Len(chains) /\ chains'[c] = d
      /\ \A e \in 1..Len(chains) : e # c => chains'[e] = chains[e]
  BY ExceptSeq DEF Structure, Shape
<1>2. \A e \in 1..Len(chains) : chains[e].vm \in Vms \cup {None}
  BY Lists DEF Structure, Chain
<1>3. None \notin Vms
  BY Lists DEF Structure, Vms, None
<1>4. \A e \in 1..Len(chains) : e # c /\ chains[e].vm # None =>
        chains[e].vm \notin Listed' /\ chains[e].vm # chains[c].vm
  <2> SUFFICES ASSUME NEW e \in 1..Len(chains), e # c, chains[e].vm # None
               PROVE  chains[e].vm \notin Listed' /\ chains[e].vm # chains[c].vm
    OBVIOUS
  <2>1. chains[e].vm # chains[c].vm
    BY DEF Structure, Hands
  <2>2. chains[e].vm \in Vms \cap InHand
    BY <1>2 DEF InHand
  <2> QED  BY <2>1, <2>2
<1>5. Hands'
  <2> SUFFICES ASSUME NEW e \in 1..Len(chains)
               PROVE  /\ chains'[e].vm # None <=> chains'[e].pc = "append"
                      /\ chains'[e].vm # None =>
                           /\ chains'[e].vm \notin Listed'
                           /\ \A a \in 1..Len(chains) :
                                chains'[a].vm = chains'[e].vm => a = e
    BY <1>1 DEF Hands
  <2>1. CASE e = c
    BY <2>1, <1>1
  <2>2. CASE e # c
    BY <2>2, <1>1, <1>4 DEF Structure, Hands
  <2> QED  BY <2>1, <2>2
<1>6. Vms \cap InHand' = (Vms \cap InHand) \ {chains[c].vm}
  <2>1. ASSUME NEW v \in Vms, v \in InHand, v # chains[c].vm
        PROVE  v \in InHand'
    BY <2>1, <1>1 DEF InHand
  <2>2. ASSUME NEW v \in Vms, v \in InHand'
        PROVE  v \in InHand /\ v # chains[c].vm
    <3>1. PICK e \in 1..Len(chains) : v = chains'[e].vm
      BY <2>2, <1>1 DEF InHand
    <3>2. e # c
      BY <3>1, <1>1, <1>3
    <3> QED  BY <3>1, <3>2, <1>1, <1>3, <1>4 DEF InHand
  <2> QED  BY <2>1, <2>2
<1>7. InHand' \subseteq Vms \cup {None}
  BY <1>1, <1>2 DEF InHand
<1> QED  BY <1>1, <1>5, <1>6, <1>7

(* A chain that had nothing in hand, and a timer.                          *)
LEMMA ChainStays ==
  ASSUME Structure, NEW c \in 1..Len(chains), NEW d \in Chain,
         d.vm = None, d.pc # "append", chains[c].pc # "append",
         chains' = [chains EXCEPT ![c] = d],
         nextCall' \in {None} \cup 1..Len(chains),
         UNCHANGED <<config, guests, nextId, anyUp, ready, bindings, vms, sessions>>
  PROVE  Structure' /\ Machinery
<1>1. Listed' = Listed /\ Vms' = Vms /\ chains[c].vm = None
  BY DEF Listed, Vms, Structure, Hands
<1>2. \A v \in Vms \cap InHand : v \notin Listed' /\ v # None
  BY <1>1, Lists DEF Structure, Hands, InHand, Vms, None
<1>3. /\ chains' \in Seq(Chain) /\ Len(chains') = Len(chains) /\ Hands'
      /\ Vms \cap InHand' = (Vms \cap InHand) \ {chains[c].vm}
  BY <1>2, ChainMoved
<1>4. Vms \cap InHand' = Vms \cap InHand
  BY <1>1, <1>2, <1>3
<1>5. Guest' = Guest /\ Chain' = Chain /\ Session' = Session /\ Binding' = Binding
  BY <1>1 DEF Guest, Chain, Session, Binding
<1>6. Shape'
  BY <1>3, <1>5 DEF Structure, Shape, SessionsOK, Config, Ids, Machine, Tags
<1>7. Distinct' /\ Off'
  BY <1>1 DEF Structure, Distinct, Off
<1>8. \A w \in Vms : Aged(w)
  BY DEF Aged
<1> QED  BY <1>1, <1>3, <1>4, <1>6, <1>7, <1>8, Unmoved DEF Structure

LEMMA ChainBootFailsKeeps ==
  ASSUME Structure, NEW c \in 1..Len(chains), ChainBootFails(c)
  PROVE  Structure' /\ Machinery
<1> DEFINE d == [chains[c] EXCEPT !.pc = "dead"]
<1>1. chains[c] \in Chain /\ chains[c].pc = "boot" /\ chains[c].vm = None
  BY Lists DEF Structure, Hands, ChainBootFails
<1>2. d \in Chain /\ d.vm = None /\ d.pc = "dead"
  BY <1>1 DEF Chain
<1>3. chains' = [chains EXCEPT ![c] = d]
  BY DEF ChainBootFails
<1>4. nextCall' \in {None} \cup 1..Len(chains)
  BY DEF ChainBootFails, Structure, Shape
<1>5. UNCHANGED <<config, guests, nextId, anyUp, ready, bindings, vms, sessions>>
  BY DEF ChainBootFails, poolVars
<1> HIDE DEF d
<1> QED  BY <1>1, <1>2, <1>3, <1>4, <1>5, ChainStays

LEMMA ChainScheduleKeeps ==
  ASSUME Structure, NEW c \in 1..Len(chains), ChainSchedule(c)
  PROVE  Structure' /\ Machinery
<1> DEFINE d == [chains[c] EXCEPT !.pc = "waiting"]
<1>1. chains[c] \in Chain /\ chains[c].pc = "mark" /\ chains[c].vm = None
  BY Lists DEF Structure, Hands, ChainSchedule
<1>2. d \in Chain /\ d.vm = None /\ d.pc = "waiting"
  BY <1>1 DEF Chain
<1>3. chains' = [chains EXCEPT ![c] = d] /\ nextCall' = c
  BY DEF ChainSchedule
<1>4. UNCHANGED <<config, guests, nextId, anyUp, ready, bindings, vms, sessions>>
  BY DEF ChainSchedule, poolVars
<1> HIDE DEF d
<1> QED  BY <1>1, <1>2, <1>3, <1>4, ChainStays

LEMMA ChainBootKeeps ==
  ASSUME Structure, NEW c \in 1..Len(chains), ChainBoot(c)
  PROVE  Structure' /\ Machinery
<1> DEFINE n == Len(vms)
           d == [chains[c] EXCEPT !.pc = "append", !.vm = n + 1]
<1>1. /\ n \in Nat /\ Vms = 1..n /\ chains[c] \in Chain
      /\ chains[c].pc = "boot" /\ chains[c].vm = None
      /\ \A e \in 1..Len(chains) : chains[e] \in Chain
  BY Lists DEF Structure, Hands, ChainBoot, Vms
<1>2. NewVm \in Machine
  BY DEF NewVm, Machine
<1>3. /\ vms' \in Seq(Machine) /\ Len(vms') = n + 1 /\ vms'[n + 1] = NewVm
      /\ \A v \in Vms : vms'[v] = vms[v]
  BY <1>1, <1>2, AppendProperties DEF ChainBoot, Structure, Shape
<1>4. Vms' = Vms \cup {n + 1} /\ n + 1 \notin Vms
  BY <1>1, <1>3 DEF Vms
<1>5. chains' = [chains EXCEPT ![c] = d]
  BY <1>1, Lists DEF ChainBoot, Structure, Chain
<1>6. d \in Chain' /\ d.vm = n + 1 /\ d.pc = "append"
  BY <1>1, <1>4 DEF Chain
<1>7. UNCHANGED <<config, guests, nextId, anyUp, ready, nextCall, bindings, sessions>>
  BY DEF ChainBoot, poolVars
<1> HIDE DEF d, n
<1>8. /\ Guest \subseteq Guest' /\ Chain \subseteq Chain' /\ Session \subseteq Session'
      /\ Binding \subseteq Binding'
  BY <1>4, Wider
<1>9. chains \in Seq(Chain')
  BY <1>8, SeqMonotonic DEF Structure, Shape
<1>10. /\ chains' \in Seq(Chain') /\ Len(chains') = Len(chains) /\ chains'[c] = d
       /\ \A e \in 1..Len(chains) : e # c => chains'[e] = chains[e]
  BY <1>5, <1>6, <1>9, ExceptSeq
<1>11. Listed' = Listed /\ Listed \subseteq Vms
  BY <1>7, Lists DEF Listed, Structure, Guest
<1>12. \A e \in 1..Len(chains) : chains[e].vm \in Vms \cup {None}
  BY <1>1 DEF Chain
<1>13. Hands'
  <2> SUFFICES ASSUME NEW e \in 1..Len(chains)
               PROVE  /\ chains'[e].vm # None <=> chains'[e].pc = "append"
                      /\ chains'[e].vm # None =>
                           /\ chains'[e].vm \notin Listed'
                           /\ \A a \in 1..Len(chains) :
                                chains'[a].vm = chains'[e].vm => a = e
    BY <1>10 DEF Hands
  <2>1. n + 1 # None
    BY <1>1 DEF None
  <2>2. CASE e = c
    BY <2>1, <2>2, <1>4, <1>6, <1>10, <1>11, <1>12
  <2>3. CASE e # c
    BY <2>1, <2>3, <1>4, <1>6, <1>10, <1>11, <1>12 DEF Structure, Hands
  <2> QED  BY <2>2, <2>3
<1>14. guests' \in Seq(Guest') /\ sessions' \in [Sessions -> Session']
       /\ bindings' \in [Ids -> Binding']
  BY <1>7, <1>8, SeqMonotonic DEF Structure, Shape
<1>15. SessionsOK' /\ Distinct'
  BY <1>7 DEF Structure, Shape, SessionsOK, Distinct
<1>16. Shape'
  BY <1>3, <1>7, <1>10, <1>14, <1>15
     DEF Structure, Shape, Config, Ids, Machine, Tags
<1>17. Off'
  BY <1>7 DEF ChainBoot, Off
<1>18. Entries' = Entries /\ \A g \in Entries : Follows(g, g)
  BY <1>7 DEF Entries, Follows, Same
<1>19. \A v \in Vms : Aged(v)
  BY <1>3 DEF Aged
<1>20. n + 1 \in InHand'
  BY <1>6, <1>10 DEF InHand
<1>21. \A v \in Vms : v \in InHand' <=> v \in InHand
  <2> SUFFICES ASSUME NEW v \in Vms
               PROVE  v \in InHand' <=> v \in InHand
    OBVIOUS
  <2>1. v # None /\ v # n + 1
    BY <1>1, <1>4 DEF None
  <2>2. v \in InHand <=> \E e \in 1..Len(chains) : chains[e].vm = v
    BY DEF InHand
  <2>3. v \in InHand' <=> \E e \in 1..Len(chains) : chains'[e].vm = v
    BY <1>10 DEF InHand
  <2>4. \A e \in 1..Len(chains) : chains'[e].vm = v <=> chains[e].vm = v
    BY <2>1, <1>1, <1>6, <1>10
  <2> QED  BY <2>2, <2>3, <2>4
<1> QED  BY <1>3, <1>4, <1>7, <1>13, <1>15, <1>16, <1>17, <1>18, <1>19, <1>20, <1>21
         DEF Machinery, Structure

(* One guest changes, but for its machine.                                 *)
LEMMA GuestChanged ==
  ASSUME Structure, NEW i \in 1..Len(guests), NEW h \in Guest,
         h.vm = guests[i].vm, guests' = [guests EXCEPT ![i] = h]
  PROVE  /\ guests' \in Seq(Guest) /\ Distinct' /\ Listed' = Listed
         /\ guests[i] \in Entries /\ h \in Entries'
         /\ \A e \in Entries' : e = h \/ (e \in Entries /\ e.vm # h.vm)
         /\ \A e \in Entries : e = guests[i] \/ (e \in Entries' /\ e.vm # h.vm)
<1>1. /\ guests' \in Seq(Guest) /\ Len(guests') = Len(guests) /\ guests'[i] = h
      /\ \A j \in 1..Len(guests) : j # i => guests'[j] = guests[j]
  BY ExceptSeq DEF Structure, Shape
<1>2. \A j \in 1..Len(guests) : guests'[j].vm = guests[j].vm
  BY <1>1
<1>3. Distinct' /\ Listed' = Listed
  BY <1>1, <1>2 DEF Structure, Distinct, Listed
<1>4. guests[i] \in Entries /\ h \in Entries'
  BY <1>1 DEF Entries
<1>5. \A j \in 1..Len(guests) : j # i => guests[j].vm # h.vm
  BY DEF Structure, Distinct
<1>6. \A e \in Entries' : e = h \/ (e \in Entries /\ e.vm # h.vm)
  BY <1>1, <1>5 DEF Entries
<1>7. \A e \in Entries : e = guests[i] \/ (e \in Entries' /\ e.vm # h.vm)
  BY <1>1, <1>5 DEF Entries
<1> QED  BY <1>1, <1>3, <1>4, <1>6, <1>7

LEMMA ChainMarkKeeps ==
  ASSUME Structure, NEW c \in 1..Len(chains), ChainMark(c)
  PROVE  Structure' /\ Machinery
<1>1. PICK i \in 1..Len(guests) :
        /\ guests[i].state = "created" /\ has_connectivity(guests[i].vm)
        /\ guests' = MarkAvailable(guests, {i})
  BY DEF ChainMark
<1> DEFINE g == guests[i]
           h == [g EXCEPT !.state = "available"]
<1>2. g \in Guest /\ DOMAIN guests = 1..Len(guests)
  BY Lists DEF Structure
<1>3. /\ h \in Guest /\ h.state = "available" /\ h.vm = g.vm
      /\ Same(g, h)
  BY <1>2 DEF Guest, States, Same
<1>4. guests' = [guests EXCEPT ![i] = h]
  BY <1>1, <1>2 DEF MarkAvailable
<1>5. UNCHANGED <<config, nextId, ready, chains, nextCall, bindings, vms, sessions>>
      /\ anyUp' \in BOOLEAN
  BY DEF ChainMark, loopVars
<1>6. Follows(g, h)
  BY <1>1, <1>3 DEF Follows, has_connectivity
<1> HIDE DEF h
<1>7. /\ guests' \in Seq(Guest) /\ Distinct' /\ Listed' = Listed
      /\ g \in Entries /\ h \in Entries'
      /\ \A e \in Entries' : e = h \/ (e \in Entries /\ e.vm # h.vm)
      /\ \A e \in Entries : e = g \/ (e \in Entries' /\ e.vm # h.vm)
  BY <1>3, <1>4, GuestChanged
<1>8. Vms' = Vms /\ InHand' = InHand
  BY <1>5 DEF Vms, InHand
<1>9. Guest' = Guest /\ Chain' = Chain /\ Session' = Session /\ Binding' = Binding
  BY <1>8 DEF Guest, Chain, Session, Binding
<1>10. Shape'
  BY <1>5, <1>7, <1>9 DEF Structure, Shape, SessionsOK, Config, Ids, Machine, Tags
<1>11. Hands' /\ Off'
  BY <1>5, <1>7, <1>8 DEF Structure, Hands, Off
<1>12. \A w \in Vms : Aged(w)
  BY <1>5 DEF Aged
<1>13. \A e \in Entries : Follows(e, e)
  BY DEF Follows, Same
<1> HIDE DEF g
<1> QED  BY <1>5, <1>6, <1>7, <1>8, <1>10, <1>11, <1>12, <1>13 DEF Machinery, Structure

LEMMA ChainAppendKeeps ==
  ASSUME Structure, NEW c \in 1..Len(chains), ChainAppend(c)
  PROVE  Structure' /\ Machinery
<1> DEFINE v == chains[c].vm
           h == NewGuest(nextId, v)
           q == IF chains[c].left = 1 THEN "mark" ELSE "boot"
           d == [chains[c] EXCEPT !.left = @ - 1, !.vm = None, !.pc = q]
<1>1. /\ chains[c] \in Chain /\ chains[c].pc = "append" /\ v # None /\ v \notin Listed
      /\ \A e \in 1..Len(chains) : chains[e].vm = v => e = c
  BY Lists DEF Structure, Hands, ChainAppend
<1>2. v \in Vms /\ v \in InHand
  BY <1>1 DEF Chain, InHand
<1>3. d \in Chain /\ d.vm = None /\ d.pc # "append"
  <2>1. q \in {"mark", "boot"} /\ chains[c].left - 1 \in Int
    BY <1>1 DEF Chain
  <2> HIDE DEF q
  <2> QED  BY <1>1, <2>1 DEF Chain
<1>4. chains' = [chains EXCEPT ![c] = d]
  BY <1>1, Lists DEF ChainAppend, Structure, Chain
<1>5. /\ h \in Guest /\ h.vm = v /\ h.state = "created" /\ h.prev = "none"
      /\ h.connected = 0 /\ h.ips = {}
  BY <1>2 DEF NewGuest, Guest, States, Structure, Shape
<1>6. UNCHANGED <<config, anyUp, ready, nextCall, bindings, vms, sessions>>
  BY DEF ChainAppend
<1>7. guests' = Append(guests, h) /\ nextId' = IdAfter(nextId, 1)
  BY DEF ChainAppend
<1> HIDE DEF h, d
<1> PICK n \in Nat : n = Len(guests)
  BY Lists DEF Structure
<1>8. /\ guests' \in Seq(Guest) /\ Len(guests') = n + 1 /\ guests'[n + 1] = h
      /\ \A i \in 1..n : guests'[i] = guests[i]
  BY <1>5, <1>7, AppendProperties DEF Structure, Shape
<1>9. Entries' = Entries \cup {h} /\ Listed' = Listed \cup {v}
  <2>1. 1..(n + 1) = (1..n) \cup {n + 1}
    OBVIOUS
  <2> QED  BY <2>1, <1>5, <1>8 DEF Entries, Listed
<1>10. Distinct'
  BY <1>1, <1>5, <1>8 DEF Structure, Distinct, Listed
<1>11. Vms' = Vms /\ v # None /\ None \notin Vms
  BY <1>1, <1>6, Lists DEF Vms, None, Structure
<1>12. \A w \in Vms \cap InHand : w # v => w \notin Listed'
  <2> SUFFICES ASSUME NEW w \in Vms, w \in InHand, w # v
               PROVE  w \notin Listed
    BY <1>9
  <2> QED  BY <1>11 DEF InHand, Structure, Hands
<1>13. /\ chains' \in Seq(Chain) /\ Len(chains') = Len(chains) /\ Hands'
       /\ Vms \cap InHand' = (Vms \cap InHand) \ {v}
  BY <1>3, <1>4, <1>12, ChainMoved
<1>14. Guest' = Guest /\ Chain' = Chain /\ Session' = Session /\ Binding' = Binding
  BY <1>11 DEF Guest, Chain, Session, Binding
<1>15. nextId' \in Ids
  BY <1>7, PoolAssumption DEF Structure, Shape, IdAfter, Ids
<1>16. Shape'
  BY <1>6, <1>8, <1>13, <1>14, <1>15
     DEF Structure, Shape, SessionsOK, Config, Ids, Machine, Tags
<1>17. Off'
  BY <1>6, <1>11 DEF Structure, Off
<1>18. (\A w \in Vms : Aged(w)) /\ \A e \in Entries : Follows(e, e)
  BY <1>6 DEF Aged, Follows, Same
<1>19. Fresh(h)
  BY <1>1, <1>2, <1>5, <1>13 DEF Fresh
<1>20. \A w \in Vms \cap InHand : w \in InHand' \cup Listed'
  BY <1>9, <1>13
<1> HIDE DEF v
<1> QED  BY <1>6, <1>9, <1>10, <1>11, <1>13, <1>16, <1>17, <1>18, <1>19, <1>20
         DEF Machinery, Structure

-----------------------------------------------------------------------------
(* An iteration                                                            *)

LEMMA CheckedFollows ==
  ASSUME Shape, NEW i \in 1..Len(guests)
  PROVE  Checked[i] \in Guest /\ Follows(guests[i], Checked[i])
<1>1. guests[i] \in Guest
  BY Lists
<1>2. CASE i \in Unhealthy
  <2> DEFINE h == [guests[i] EXCEPT !.state = "unavailable"]
  <2>1. /\ guests[i].state \in Usable /\ vms[guests[i].vm].power # "up"
    BY <1>2 DEF Unhealthy, InState, has_connectivity, Usable
  <2>2. h \in Guest /\ Same(guests[i], h) /\ h.state = "unavailable"
    BY <1>1 DEF Guest, States, Same
  <2>3. Checked[i] = h
    BY <1>2 DEF Checked
  <2> QED  BY <2>1, <2>2, <2>3 DEF Follows
<1>3. CASE i \notin Unhealthy
  <2>1. Checked[i] = guests[i]
    BY <1>3 DEF Checked
  <2> QED  BY <1>1, <2>1 DEF Follows, Same
<1> QED  BY <1>2, <1>3

LEMMA MarkedFollows ==
  ASSUME Shape, NEW i \in 1..Len(guests), Checked[i].state = "created",
         has_connectivity(Checked[i].vm)
  PROVE  /\ [Checked[i] EXCEPT !.state = "available"] \in Guest
         /\ Follows(guests[i], [Checked[i] EXCEPT !.state = "available"])
<1> DEFINE h == [Checked[i] EXCEPT !.state = "available"]
<1>1. Checked[i] \in Guest /\ Follows(guests[i], Checked[i])
  BY CheckedFollows
<1>2. guests[i].state = "created" /\ vms[guests[i].vm].power = "up"
  BY <1>1 DEF Follows, Same, has_connectivity, Usable
<1>3. h \in Guest /\ Same(guests[i], h) /\ h.state = "available"
  <2>1. h \in Guest /\ h.state = "available" /\ Same(Checked[i], h)
    BY <1>1 DEF Guest, States, Same
  <2> QED  BY <2>1, <1>1 DEF Same, Follows
<1> QED  BY <1>2, <1>3 DEF Follows

(* Every guest that stays is in the swept list once.                       *)
LEMMA SweptPlaces ==
  ASSUME Shape, NEW old \in SUBSET (1..Len(guests))
  PROVE  LET m == Cardinality(Staying(old))
             f == Places(Staying(old))
         IN  /\ m \in Nat
             /\ Swept(old) \in [1..m -> Guest] /\ Len(Swept(old)) = m
             /\ \A k \in 1..m : /\ f[k] \in Staying(old)
                               /\ Swept(old)[k] = Checked[f[k]]
             /\ \A k, l \in 1..m : f[k] = f[l] => k = l
             /\ \A i \in Staying(old) : \E k \in 1..m : f[k] = i
<1> DEFINE m == Cardinality(Staying(old))
           f == Places(Staying(old))
<1>1. /\ Len(guests) \in Nat /\ Staying(old) \in SUBSET (1..Len(guests))
      /\ Staying(old) \in SUBSET Nat
  BY Lists DEF Staying
<1>2. IsFiniteSet(Staying(old))
  <2> PICK n \in Nat : n = Len(guests)
    BY <1>1
  <2>1. IsFiniteSet(1..n)
    BY FS_Interval
  <2> QED  BY <1>1, <2>1, FS_Subset
<1>3. /\ m \in Nat /\ \A k \in 1..m : f[k] \in Staying(old)
      /\ \A k, l \in 1..m : f[k] = f[l] => k = l
      /\ \A i \in Staying(old) : \E k \in 1..m : f[k] = i
  BY <1>1, <1>2, PlacesOnce
<1>4. Swept(old) = [k \in 1..m |-> Checked[f[k]]]
  BY AtPlaces DEF Swept
<1> HIDE DEF m, f
<1>5. \A k \in 1..m : Checked[f[k]] \in Guest
  BY <1>1, <1>3, CheckedFollows
<1>6. Swept(old) \in [1..m -> Guest]
  BY <1>4, <1>5
<1>7. Len(Swept(old)) = m
  BY <1>3, <1>6, AsSeq
<1>8. \A k \in 1..m : Swept(old)[k] = Checked[f[k]]
  BY <1>4
<1> QED  BY <1>3, <1>6, <1>7, <1>8 DEF m, f

(* The machines after an iteration.                                        *)
LEMMA MachinesAfter ==
  ASSUME Shape, NEW old, NEW failing, NEW made \in Nat,
         vms' = Destroyed(MachinesOf(Doomed(old)), failing)
                  \o [k \in 1..made |-> NewVm]
  PROVE  /\ vms' \in Seq(Machine) /\ Len(vms') = Len(vms) + made
         /\ \A v \in Vms :
              vms'[v] = Destroyed(MachinesOf(Doomed(old)), failing)[v]
         /\ \A v \in Vms' \ Vms : vms'[v] = NewVm
         /\ Vms \subseteq Vms'
<1> DEFINE D == Destroyed(MachinesOf(Doomed(old)), failing)
           N == [k \in 1..made |-> NewVm]
<1> PICK n \in Nat : n = Len(vms)
  BY Lists
<1>1. \A v \in 1..n : D[v] \in Machine
  <2> SUFFICES ASSUME NEW v \in 1..n PROVE D[v] \in Machine
    OBVIOUS
  <2>1. vms[v] \in Machine
    BY Lists DEF Vms
  <2>2. vms[v].past \cup {"undead"} \in SUBSET Tags
    BY <2>1 DEF Machine, Tags
  <2>3. [vms[v] EXCEPT !.past = @ \cup {"undead"}] \in Machine
    BY <2>1, <2>2 DEF Machine
  <2>4. [vms[v] EXCEPT !.power = "gone", !.dirty = FALSE] \in Machine
    BY <2>1 DEF Machine
  <2> QED  BY <2>1, <2>3, <2>4 DEF Destroyed
<1>2. D \in [1..n -> Machine]
  BY <1>1 DEF Destroyed
<1>3. D \in Seq(Machine) /\ Len(D) = n
  BY <1>2, AsSeq
<1>4. N \in [1..made -> Machine]
  BY DEF NewVm, Machine
<1>5. N \in Seq(Machine) /\ Len(N) = made
  BY <1>4, AsSeq
<1> HIDE DEF D
<1>6. /\ vms' \in Seq(Machine) /\ Len(vms') = n + made
      /\ \A v \in 1..(n + made) : vms'[v] = IF v =< n THEN D[v] ELSE N[v - n]
  <2>1. vms' = D \o N
    BY DEF D
  <2> HIDE DEF N
  <2>2. /\ D \o N \in Seq(Machine) /\ Len(D \o N) = Len(D) + Len(N)
        /\ \A i \in 1..(Len(D) + Len(N)) :
             (D \o N)[i] = IF i =< Len(D) THEN D[i] ELSE N[i - Len(D)]
    BY <1>3, <1>5, ConcatProperties
  <2> QED  BY <1>3, <1>5, <2>1, <2>2
<1>7. \A v \in 1..n : v \in 1..(n + made) /\ vms'[v] = D[v]
  BY <1>6
<1>8. \A v \in 1..(n + made) : v \notin 1..n => vms'[v] = NewVm
  <2> SUFFICES ASSUME NEW v \in 1..(n + made), v \notin 1..n
               PROVE  vms'[v] = NewVm
    OBVIOUS
  <2>1. ~(v =< n) /\ v - n \in 1..made
    OBVIOUS
  <2> QED  BY <2>1, <1>6
<1> QED  BY <1>6, <1>7, <1>8 DEF Vms, D

LEMMA IdAfterIn ==
  ASSUME NEW id \in Ids, NEW n \in Nat
  PROVE  IdAfter(id, n) \in Ids
BY PoolAssumption DEF IdAfter, Ids

(* A list of guests that an iteration may leave: those that stay, checked  *)
(* and perhaps found to be up, then new ones.                              *)
Iterated(old, made) ==
  /\ Len(guests') = Cardinality(Staying(old)) + made
  /\ guests' = [k \in 1..(Cardinality(Staying(old)) + made) |-> guests'[k]]
  /\ \A k \in 1..Cardinality(Staying(old)) :
       /\ guests'[k] \in Guest
       /\ Follows(guests[Places(Staying(old))[k]], guests'[k])
  /\ \A k \in 1..made :
       guests'[Cardinality(Staying(old)) + k] =
         NewGuest(IdAfter(nextId, k - 1), Len(vms) + k)

LEMMA IteratedList ==
  ASSUME Structure, NEW old \in SUBSET (1..Len(guests)), NEW made \in Nat,
         NEW up \in SUBSET (1..Len(Swept(old))),
         \A i \in up : /\ Swept(old)[i].state = "created"
                       /\ has_connectivity(Swept(old)[i].vm),
         guests' = MarkAvailable(Swept(old) \o NewGuests(made), up)
  PROVE  Iterated(old, made)
<1> DEFINE f == Places(Staying(old))
           N == NewGuests(made)
           W == Swept(old)
           R == UNION {{W[k] : k \in DOMAIN W}, {N[k] : k \in DOMAIN N}}
<1> PICK m \in Nat : m = Cardinality(Staying(old))
  BY SweptPlaces DEF Structure
<1>1. /\ W \in [1..m -> Guest] /\ Len(W) = m
      /\ \A k \in 1..m : f[k] \in 1..Len(guests) /\ W[k] = Checked[f[k]]
  BY SweptPlaces DEF Structure, Staying
<1>2. N = [k \in 1..made |-> NewGuest(IdAfter(nextId, k - 1), Len(vms) + k)]
  BY DEF NewGuests
<1> HIDE DEF N, W
<1>3. W \in [1..m -> R] /\ N \in [1..made -> R]
  BY <1>1, <1>2
<1> HIDE DEF R
<1>4. W \in Seq(R) /\ Len(W) = m /\ N \in Seq(R) /\ Len(N) = made
  BY <1>3, AsSeq
<1> DEFINE all == W \o N
<1>5. /\ all \in Seq(R) /\ Len(all) = m + made
      /\ \A k \in 1..(m + made) : all[k] = IF k =< m THEN W[k] ELSE N[k - m]
  <2>1. /\ W \o N \in Seq(R) /\ Len(W \o N) = Len(W) + Len(N)
        /\ \A i \in 1..(Len(W) + Len(N)) :
             (W \o N)[i] = IF i =< Len(W) THEN W[i] ELSE N[i - Len(W)]
    BY <1>4, ConcatProperties
  <2> QED  BY <1>4, <2>1
<1>6. guests' = MarkAvailable(all, up) /\ up \in SUBSET (1..m)
  BY <1>1 DEF N, W
<1> HIDE DEF all
<1>7. guests' = [k \in 1..(m + made) |->
                   IF k \in up THEN [all[k] EXCEPT !.state = "available"]
                   ELSE all[k]]
  BY <1>5, <1>6 DEF MarkAvailable
<1>8. Len(guests') = m + made /\ guests' = [k \in 1..(m + made) |-> guests'[k]]
  <2> DEFINE A == {guests'[k] : k \in 1..(m + made)}
  <2>1. guests' \in [1..(m + made) -> A]
    BY <1>7
  <2> HIDE DEF A
  <2>2. guests' = [k \in 1..(m + made) |-> guests'[k]]
    BY <2>1
  <2> QED  BY <2>1, <2>2, AsSeq
<1>9. ASSUME NEW k \in 1..m
      PROVE  guests'[k] \in Guest /\ Follows(guests[f[k]], guests'[k])
  <2>1. /\ k \in 1..(m + made) /\ all[k] = Checked[f[k]] /\ f[k] \in 1..Len(guests)
        /\ W[k] = Checked[f[k]]
    BY <1>1, <1>5
  <2>2. CASE k \in up
    <3>1. Checked[f[k]].state = "created" /\ has_connectivity(Checked[f[k]].vm)
      BY <2>1, <2>2 DEF W
    <3>2. guests'[k] = [Checked[f[k]] EXCEPT !.state = "available"]
      BY <1>7, <2>1, <2>2
    <3> QED  BY <2>1, <3>1, <3>2, MarkedFollows DEF Structure
  <2>3. CASE k \notin up
    <3>1. guests'[k] = Checked[f[k]]
      BY <1>7, <2>1, <2>3
    <3> QED  BY <2>1, <3>1, CheckedFollows DEF Structure
  <2> QED  BY <2>2, <2>3
<1>10. ASSUME NEW k \in 1..made
       PROVE  guests'[m + k] = NewGuest(IdAfter(nextId, k - 1), Len(vms) + k)
  <2>1. m + k \in 1..(m + made) /\ ~(m + k =< m) /\ m + k \notin up /\ (m + k) - m = k
    BY <1>6
  <2> QED  BY <1>2, <1>5, <1>7, <2>1
<1> QED  BY <1>8, <1>9, <1>10 DEF Iterated

LEMMA IteratedGuests ==
  ASSUME Structure, NEW old \in SUBSET (1..Len(guests)), NEW made \in Nat,
         Iterated(old, made), Len(vms') = Len(vms) + made
  PROVE  /\ guests' \in Seq(Guest') /\ Distinct'
         /\ \A i \in 1..Len(guests) : i \in Staying(old) =>
              \E h \in Entries' : Follows(guests[i], h)
         /\ \A h \in Entries' :
              \/ \E g \in Entries : Follows(g, h)
              \/ \E v \in Vms' \ Vms : \E id \in Ids : h = NewGuest(id, v)
         /\ \A v \in Vms' \ Vms : v \in Listed'
         /\ Vms \cap Listed' \subseteq Listed
         /\ \A i \in Doomed(old) : guests[i].vm \notin Listed'
<1> DEFINE f == Places(Staying(old))
<1> PICK m \in Nat : m = Cardinality(Staying(old))
  BY SweptPlaces DEF Structure
<1> PICK n \in Nat : n = Len(vms)
  BY Lists DEF Structure
<1>1. /\ \A k \in 1..m : f[k] \in 1..Len(guests) /\ f[k] \in Staying(old)
      /\ \A k, l \in 1..m : f[k] = f[l] => k = l
      /\ \A i \in Staying(old) : \E k \in 1..m : f[k] = i
  BY SweptPlaces DEF Structure, Staying
<1> HIDE DEF f
<1>2. /\ Len(guests') = m + made
      /\ guests' = [k \in 1..(m + made) |-> guests'[k]]
      /\ \A k \in 1..m : guests'[k] \in Guest /\ Follows(guests[f[k]], guests'[k])
      /\ \A k \in 1..made :
           guests'[m + k] = NewGuest(IdAfter(nextId, k - 1), n + k)
  BY DEF Iterated, f
<1>3. Vms = 1..n /\ Vms' = 1..(n + made)
  BY DEF Vms
<1>4. \A k \in 1..(m + made) : k \in 1..m \/ \E l \in 1..made : k = m + l
  <2> SUFFICES ASSUME NEW k \in 1..(m + made), k \notin 1..m
               PROVE  k - m \in 1..made /\ k = m + (k - m)
    OBVIOUS
  <2> QED  OBVIOUS
<1>5. \A k \in 1..made : IdAfter(nextId, k - 1) \in Ids
  <2> SUFFICES ASSUME NEW k \in 1..made PROVE IdAfter(nextId, k - 1) \in Ids
    OBVIOUS
  <2>1. k - 1 \in Nat /\ nextId \in Ids
    BY DEF Structure, Shape
  <2> QED  BY <2>1, IdAfterIn
<1>6. \A k \in 1..made :
        /\ guests'[m + k] \in Guest' /\ guests'[m + k].vm = n + k
        /\ n + k \in Vms' /\ n + k \notin Vms
  <2> SUFFICES ASSUME NEW k \in 1..made
               PROVE  /\ guests'[m + k] \in Guest' /\ guests'[m + k].vm = n + k
                      /\ n + k \in Vms' /\ n + k \notin Vms
    OBVIOUS
  <2>1. n + k \in Vms' /\ n + k \notin Vms
    BY <1>3
  <2>2. PICK id \in Ids : guests'[m + k] = NewGuest(id, n + k)
    BY <1>2, <1>5
  <2>3. /\ NewGuest(id, n + k) \in Guest' /\ NewGuest(id, n + k).vm = n + k
    BY <2>1 DEF NewGuest, Guest, States
  <2> QED  BY <2>1, <2>2, <2>3
<1>7. Vms \subseteq Vms' /\ Guest \subseteq Guest'
  BY <1>3, Wider
<1>8. \A k \in 1..(m + made) : guests'[k] \in Guest'
  BY <1>2, <1>4, <1>6, <1>7
<1>9. guests' \in Seq(Guest')
  <2>1. guests' \in [1..(m + made) -> Guest']
    BY <1>2, <1>8
  <2> QED  BY <2>1, AsSeq
<1>10. \A k \in 1..m : guests'[k].vm = guests[f[k]].vm /\ guests[f[k]].vm \in Vms
  BY <1>1, <1>2, Lists DEF Follows, Same, Structure, Guest
<1>11. Distinct'
  <2> SUFFICES ASSUME NEW i \in 1..(m + made), NEW j \in 1..(m + made),
                      guests'[i].vm = guests'[j].vm
               PROVE  i = j
    BY <1>2 DEF Distinct
  <2>0. \A k \in 1..made : guests'[m + k].vm \notin Vms
    BY <1>6
  <2>1. CASE i \in 1..m /\ j \in 1..m
    <3>1. /\ guests[f[i]].vm = guests[f[j]].vm
          /\ f[i] \in 1..Len(guests) /\ f[j] \in 1..Len(guests)
      BY <2>1, <1>1, <1>10
    <3>2. f[i] = f[j]
      BY <3>1 DEF Structure, Distinct
    <3> QED  BY <2>1, <3>2, <1>1
  <2>2. CASE i \in 1..m /\ j \notin 1..m
    <3>1. guests'[i].vm \in Vms
      BY <2>2, <1>10
    <3> QED  BY <2>0, <2>2, <3>1, <1>4
  <2>3. CASE i \notin 1..m /\ j \in 1..m
    <3>1. guests'[j].vm \in Vms
      BY <2>3, <1>10
    <3> QED  BY <2>0, <2>3, <3>1, <1>4
  <2>4. CASE i \notin 1..m /\ j \notin 1..m
    <3>1. PICK a \in 1..made : i = m + a
      BY <2>4, <1>4
    <3>2. PICK b \in 1..made : j = m + b
      BY <2>4, <1>4
    <3>3. n + a = n + b
      BY <3>1, <3>2, <1>6
    <3> QED  BY <3>1, <3>2, <3>3
  <2> QED  BY <2>1, <2>2, <2>3, <2>4
<1>12. \A k \in 1..m : k \in 1..Len(guests') /\ guests'[k] \in Entries'
  BY <1>2 DEF Entries
<1>13. \A i \in 1..Len(guests) : i \in Staying(old) =>
         \E h \in Entries' : Follows(guests[i], h)
  BY <1>1, <1>2, <1>12
<1>14. \A h \in Entries' :
         \/ \E g \in Entries : Follows(g, h)
         \/ \E v \in Vms' \ Vms : \E id \in Ids : h = NewGuest(id, v)
  <2> SUFFICES ASSUME NEW h \in Entries'
               PROVE  \/ \E g \in Entries : Follows(g, h)
                      \/ \E v \in Vms' \ Vms : \E id \in Ids : h = NewGuest(id, v)
    OBVIOUS
  <2> PICK k \in 1..(m + made) : h = guests'[k]
    BY <1>2 DEF Entries
  <2>1. CASE k \in 1..m
    <3>1. guests[f[k]] \in Entries /\ Follows(guests[f[k]], h)
      BY <2>1, <1>1, <1>2 DEF Entries
    <3> QED  BY <3>1
  <2>2. CASE \E l \in 1..made : k = m + l
    <3> PICK l \in 1..made : k = m + l
      BY <2>2
    <3> QED  BY <1>2, <1>5, <1>6
  <2> QED  BY <2>1, <2>2, <1>4
<1>15. \A v \in Vms' \ Vms : v \in Listed'
  <2> SUFFICES ASSUME NEW v \in Vms' \ Vms PROVE v \in Listed'
    OBVIOUS
  <2>1. v - n \in 1..made /\ v = n + (v - n) /\ m + (v - n) \in 1..Len(guests')
    BY <1>2, <1>3
  <2>2. guests'[m + (v - n)].vm = v
    BY <2>1, <1>6
  <2> QED  BY <2>1, <2>2 DEF Listed
<1>16. \A v \in Vms \cap Listed' : \E k \in 1..m : v = guests[f[k]].vm
  <2> SUFFICES ASSUME NEW v \in Vms, NEW k \in 1..(m + made), v = guests'[k].vm
               PROVE  \E l \in 1..m : v = guests[f[l]].vm
    BY <1>2 DEF Listed
  <2>1. \A l \in 1..made : guests'[m + l].vm \notin Vms
    BY <1>6
  <2>2. k \in 1..m
    BY <2>1, <1>4
  <2> QED  BY <2>2, <1>10
<1>17. Vms \cap Listed' \subseteq Listed
  BY <1>16, <1>1 DEF Listed
<1>18. \A i \in Doomed(old) : guests[i].vm \notin Listed'
  <2> SUFFICES ASSUME NEW i \in Doomed(old), guests[i].vm \in Listed'
               PROVE  FALSE
    OBVIOUS
  <2>1. i \in 1..Len(guests) /\ i \notin Staying(old)
    BY DEF Doomed, InState, TimedOut, Staying
  <2>2. guests[i].vm \in Vms
    BY <2>1, Lists DEF Structure, Guest
  <2>3. PICK k \in 1..m : guests[i].vm = guests[f[k]].vm
    BY <2>2, <1>16
  <2> QED  BY <2>1, <2>3, <1>1 DEF Structure, Distinct
<1> QED  BY <1>9, <1>11, <1>13, <1>14, <1>15, <1>17, <1>18

LEMMA Renewal ==
  ASSUME Structure, NEW old \in SUBSET (1..Len(guests)), NEW made \in Nat,
         NEW failing, NEW c \in 1..Len(chains), NEW d \in Chain,
         made > 0 => ready, Iterated(old, made),
         vms' = Destroyed(MachinesOf(Doomed(old)), failing)
                  \o [k \in 1..made |-> NewVm],
         chains[c].pc # "append", d.vm = None, d.pc # "append",
         chains' = [chains EXCEPT ![c] = d],
         nextId' \in Ids, anyUp' \in BOOLEAN,
         nextCall' \in {None} \cup 1..Len(chains),
         UNCHANGED <<config, ready, bindings, sessions>>
  PROVE  Structure' /\ Machinery
<1>1. /\ vms' \in Seq(Machine) /\ Len(vms') = Len(vms) + made
      /\ \A v \in Vms : vms'[v] = Destroyed(MachinesOf(Doomed(old)), failing)[v]
      /\ \A v \in Vms' \ Vms : vms'[v] = NewVm
      /\ Vms \subseteq Vms'
  BY MachinesAfter DEF Structure
<1>2. /\ guests' \in Seq(Guest') /\ Distinct'
      /\ \A i \in 1..Len(guests) : i \in Staying(old) =>
           \E h \in Entries' : Follows(guests[i], h)
      /\ \A h \in Entries' :
           \/ \E g \in Entries : Follows(g, h)
           \/ \E v \in Vms' \ Vms : \E id \in Ids : h = NewGuest(id, v)
      /\ \A v \in Vms' \ Vms : v \in Listed'
      /\ Vms \cap Listed' \subseteq Listed
      /\ \A i \in Doomed(old) : guests[i].vm \notin Listed'
  BY <1>1, IteratedGuests
<1>3. None \notin Vms /\ None \notin Vms' /\ Listed \subseteq Vms
  BY <1>1, Lists DEF Vms, None, Listed, Structure, Guest
<1>4. \A v \in Vms \cap InHand : v \notin Listed
  BY <1>3 DEF InHand, Structure, Hands
<1>5. /\ chains' \in Seq(Chain) /\ Len(chains') = Len(chains) /\ Hands'
      /\ Vms \cap InHand' = (Vms \cap InHand) \ {chains[c].vm}
      /\ InHand' \subseteq Vms \cup {None}
  BY <1>2, <1>4, ChainMoved
<1>6. Vms \cap InHand' = Vms \cap InHand
  BY <1>3, <1>5 DEF Structure, Hands
<1>7. /\ Chain \subseteq Chain' /\ Session \subseteq Session' /\ Binding \subseteq Binding'
  BY <1>1, Wider
<1>8. /\ chains' \in Seq(Chain') /\ sessions' \in [Sessions -> Session']
      /\ bindings' \in [Ids -> Binding']
  BY <1>5, <1>7, SeqMonotonic DEF Structure, Shape
<1>9. SessionsOK'
  BY DEF Structure, Shape, SessionsOK
<1>10. Shape'
  BY <1>1, <1>2, <1>5, <1>8, <1>9 DEF Structure, Shape, Config, Ids, Machine, Tags
<1> DEFINE S == MachinesOf(Doomed(old))
<1>11. \A v \in Vms : v \in S => v \notin Listed' /\ v \notin InHand'
  <2> SUFFICES ASSUME NEW v \in Vms, v \in S
               PROVE  v \notin Listed' /\ v \notin InHand'
    OBVIOUS
  <2>1. PICK i \in Doomed(old) : v = guests[i].vm
    BY DEF MachinesOf
  <2>2. i \in 1..Len(guests)
    BY DEF Doomed, InState, TimedOut
  <2>3. v \in Listed
    BY <2>1, <2>2 DEF Listed
  <2> QED  BY <2>1, <2>3, <1>2, <1>4, <1>6
<1> HIDE DEF S
<1>12. \A v \in Vms :
         \/ vms'[v] = vms[v] /\ (v \notin S \/ ~ready)
         \/ /\ vms'[v].power = vms[v].power /\ vms'[v].dirty = vms[v].dirty
            /\ vms'[v].past = vms[v].past \cup {"undead"} /\ v \in S
         \/ /\ vms'[v].power = "gone" /\ ~vms'[v].dirty
            /\ vms'[v].past = vms[v].past /\ v \in S /\ ready
  <2> SUFFICES ASSUME NEW v \in Vms
               PROVE
         \/ vms'[v] = vms[v] /\ (v \notin S \/ ~ready)
         \/ /\ vms'[v].power = vms[v].power /\ vms'[v].dirty = vms[v].dirty
            /\ vms'[v].past = vms[v].past \cup {"undead"} /\ v \in S
         \/ /\ vms'[v].power = "gone" /\ ~vms'[v].dirty
            /\ vms'[v].past = vms[v].past /\ v \in S /\ ready
    OBVIOUS
  <2>1. vms[v] \in Machine
    BY Lists DEF Structure
  <2>2. vms'[v] = IF v \notin S \/ ~ready THEN vms[v]
                  ELSE IF v = failing
                  THEN [vms[v] EXCEPT !.past = @ \cup {"undead"}]
                  ELSE [vms[v] EXCEPT !.power = "gone", !.dirty = FALSE]
    BY <1>1 DEF S, Destroyed, Vms
  <2>3. CASE v \notin S \/ ~ready
    BY <2>2, <2>3
  <2>4. CASE v \in S /\ ready /\ v = failing
    BY <2>1, <2>2, <2>4 DEF Machine
  <2>5. CASE v \in S /\ ready /\ v # failing
    BY <2>1, <2>2, <2>5 DEF Machine
  <2> QED  BY <2>3, <2>4, <2>5
<1>13. \A v \in Vms : Aged(v)
  BY <1>11, <1>12 DEF Aged
<1>14. Off'
  <2> SUFFICES ASSUME ~ready, NEW v \in Vms' PROVE vms'[v].power = "gone"
    BY DEF Off
  <2>1. Vms' = Vms
    <3>1. made = 0 /\ Len(vms) \in Nat
      BY Lists DEF Structure
    <3> QED  BY <1>1, <3>1 DEF Vms
  <2> QED  BY <1>12, <2>1 DEF Structure, Off
<1>15. \A h \in Entries' : Fresh(h) \/ \E g \in Entries : Follows(g, h)
  <2> SUFFICES ASSUME NEW v \in Vms' \ Vms, NEW id \in Ids
               PROVE  Fresh(NewGuest(id, v))
    BY <1>2
  <2> QED  BY <1>3, <1>5 DEF Fresh, NewGuest
<1>16. \A g \in Entries : Dropped(g) \/ \E h \in Entries' : Follows(g, h)
  <2> SUFFICES ASSUME NEW i \in 1..Len(guests), i \notin Staying(old)
               PROVE  Dropped(guests[i])
    BY <1>2 DEF Entries
  <2>1. i \in Doomed(old)
    BY DEF Staying
  <2>2. guests[i].state \in {"used", "unavailable"}
    BY <2>1 DEF Doomed, InState, TimedOut
  <2>3. guests[i].vm \in Vms /\ guests[i].vm \in S
    BY <2>1, Lists DEF Structure, Guest, S, MachinesOf
  <2> QED  BY <2>2, <2>3, <1>12 DEF Dropped
<1> QED  BY <1>1, <1>2, <1>5, <1>6, <1>10, <1>13, <1>14, <1>15, <1>16
         DEF Machinery, Structure

LEMMA NothingAdded ==
  ASSUME NEW S, NEW s \in Seq(S), NEW e(_)
  PROVE  s \o [k \in 1..0 |-> e(k)] = s
<1>1. 1..0 = {}
  OBVIOUS
<1>2. [k \in 1..0 |-> e(k)] = << >>
  BY <1>1
<1> QED  BY <1>2, ConcatEmptySeq

LEMMA NothingMarked ==
  ASSUME NEW S, NEW s \in Seq(S)
  PROVE  MarkAvailable(s, {}) = s
<1>1. s = [i \in 1..Len(s) |-> s[i]]
  BY LenProperties
<1> QED  BY <1>1 DEF MarkAvailable

LEMMA MissingIn ==
  ASSUME Shape, NEW k \in Nat
  PROVE  Missing(k) \in Nat
<1>1. config.max \in PoolSizes \cup {2}
  BY DEF Shape, Config, DefaultSize
<1>2. \A n \in PoolSizes : n \in Nat
  BY PoolAssumption
<1>3. config.max \in Nat
  BY <1>1, <1>2
<1> QED  BY <1>3 DEF Missing

LEMMA ChainBeginKeeps ==
  ASSUME Structure, NEW c \in 1..Len(chains), ChainBegin(c)
  PROVE  Structure' /\ Machinery
<1>1. PICK old \in SUBSET (1..Len(guests)) :
        LET left == Missing(Len(Swept(old)))
        IN  /\ guests' = Swept(old)
            /\ vms' = Destroyed(MachinesOf(Doomed(old)), None)
            /\ chains' = [chains EXCEPT ![c].left = left,
                            ![c].pc = IF left = 0 THEN "mark" ELSE "boot"]
  BY DEF ChainBegin
<1> DEFINE n == Missing(Len(Swept(old)))
           q == IF n = 0 THEN "mark" ELSE "boot"
           d == [chains[c] EXCEPT !.left = n, !.pc = q]
<1>2. PICK m \in Nat : Len(Swept(old)) = m /\ Swept(old) \in [1..m -> Guest]
  BY SweptPlaces DEF Structure
<1>3. n \in Int /\ q \in {"mark", "boot"}
  <2>1. n \in Nat
    BY <1>2, MissingIn DEF Structure
  <2> QED  BY <2>1
<1>4. chains[c] \in Chain /\ chains[c].pc = "begin" /\ chains[c].vm = None
  BY Lists DEF Structure, Hands, ChainBegin
<1>5. chains' = [chains EXCEPT ![c] = d]
  BY <1>1, <1>4, Lists DEF Structure, Chain
<1> HIDE DEF n, q
<1>6. d \in Chain /\ d.vm = None /\ d.pc # "append"
  BY <1>3, <1>4 DEF Chain
<1> HIDE DEF d
<1>7. UNCHANGED <<config, ready, bindings, sessions, nextId, anyUp, nextCall>>
  BY DEF ChainBegin
<1>8. Swept(old) \in Seq(Guest)
  BY <1>2, AsSeq
<1>9. guests' = MarkAvailable(Swept(old) \o NewGuests(0), {})
  <2>1. Swept(old) \o NewGuests(0) = Swept(old)
    BY <1>8, NothingAdded DEF NewGuests
  <2> QED  BY <1>1, <1>8, <2>1, NothingMarked
<1>10. vms' = Destroyed(MachinesOf(Doomed(old)), None) \o [k \in 1..0 |-> NewVm]
  <2> DEFINE D == Destroyed(MachinesOf(Doomed(old)), None)
             A == {D[v] : v \in 1..Len(vms)}
  <2>1. D \in [1..Len(vms) -> A] /\ Len(vms) \in Nat
    BY Lists DEF Destroyed, Structure
  <2> HIDE DEF D, A
  <2>2. D \in Seq(A)
    BY <2>1, AsSeq
  <2>3. D \o [k \in 1..0 |-> NewVm] = D
    BY <2>2, NothingAdded
  <2> QED  BY <1>1, <2>3 DEF D
<1>11. Iterated(old, 0)
  BY <1>9, IteratedList
<1>12. nextId' \in Ids /\ anyUp' \in BOOLEAN /\ nextCall' \in {None} \cup 1..Len(chains)
  BY <1>7 DEF Structure, Shape
<1> PICK z \in Nat : z = 0
  OBVIOUS
<1>13. /\ z > 0 => ready
       /\ Iterated(old, z)
       /\ vms' = Destroyed(MachinesOf(Doomed(old)), None) \o [k \in 1..z |-> NewVm]
  BY <1>10, <1>11
<1> QED  BY <1>4, <1>5, <1>6, <1>7, <1>12, <1>13, Renewal

LEMMA ChainIterateKeeps ==
  ASSUME Structure, NEW c \in 1..Len(chains), ChainIterate(c)
  PROVE  Structure' /\ Machinery
<1>1. PICK old \in SUBSET (1..Len(guests)), failing \in {None} \cup 1..Len(vms) :
       LET n == Missing(Len(Swept(old)))
       IN  \E made \in 0..n :
                LET all == Swept(old) \o NewGuests(made)
                    up  == {i \in 1..Len(Swept(old)) :
                              /\ all[i].state = "created"
                              /\ has_connectivity(all[i].vm)}
                IN  /\ made > 0 => ready
                    /\ vms' = Destroyed(MachinesOf(Doomed(old)), failing)
                                \o [k \in 1..made |-> NewVm]
                    /\ nextId' = IdAfter(nextId, made)
                    /\ IF made < n
                       THEN /\ guests' = all
                            /\ chains' = [chains EXCEPT ![c].pc = "dead"]
                            /\ UNCHANGED <<anyUp, nextCall>>
                       ELSE /\ guests' = MarkAvailable(all, up)
                            /\ anyUp' = (anyUp \/ up # {})
                            /\ nextCall' = c
                            /\ UNCHANGED chains
  BY DEF ChainIterate
<1> PICK n : n = Missing(Len(Swept(old)))
  OBVIOUS
<1>2. PICK m \in Nat : Len(Swept(old)) = m /\ Swept(old) \in [1..m -> Guest]
  BY SweptPlaces DEF Structure
<1>3. n \in Nat
  BY <1>2, MissingIn DEF Structure
<1>4. PICK made \in 0..n :
                LET all == Swept(old) \o NewGuests(made)
                    up  == {i \in 1..m :
                              /\ all[i].state = "created"
                              /\ has_connectivity(all[i].vm)}
                IN  /\ made > 0 => ready
                    /\ vms' = Destroyed(MachinesOf(Doomed(old)), failing)
                                \o [k \in 1..made |-> NewVm]
                    /\ nextId' = IdAfter(nextId, made)
                    /\ IF made < n
                       THEN /\ guests' = all
                            /\ chains' = [chains EXCEPT ![c].pc = "dead"]
                            /\ UNCHANGED <<anyUp, nextCall>>
                       ELSE /\ guests' = MarkAvailable(all, up)
                            /\ anyUp' = (anyUp \/ up # {})
                            /\ nextCall' = c
                            /\ UNCHANGED chains
  BY <1>1, <1>2
<1> DEFINE W == Swept(old)
           N == NewGuests(made)
           up == {i \in 1..m : /\ (W \o N)[i].state = "created"
                               /\ has_connectivity((W \o N)[i].vm)}
<1>5. made \in Nat
  BY <1>3
<1>6. \E A : W \in Seq(A) /\ N \in Seq(A) /\ Len(N) = made
  <2> DEFINE A == {W[k] : k \in 1..m} \cup {N[k] : k \in 1..made}
  <2>1. W \in [1..m -> A]
    BY <1>2
  <2>2. N \in [1..made -> A]
    BY DEF NewGuests
  <2> HIDE DEF A, W, N
  <2> QED  BY <1>5, <2>1, <2>2, AsSeq
<1>7. W \o N \in Seq({(W \o N)[k] : k \in DOMAIN (W \o N)})
      /\ \A i \in 1..m : (W \o N)[i] = W[i]
  <2> PICK A : W \in Seq(A) /\ N \in Seq(A) /\ Len(N) = made
    BY <1>6
  <2>0. Len(W) = m
    BY <1>2
  <2> HIDE DEF W, N
  <2>1. /\ W \o N \in Seq(A) /\ Len(W \o N) = m + made
        /\ \A i \in 1..(m + made) :
             (W \o N)[i] = IF i =< m THEN W[i] ELSE N[i - m]
    BY <2>0, ConcatProperties
  <2>2. DOMAIN (W \o N) = 1..(m + made)
    BY <2>1, LenProperties
  <2> PICK s : s = W \o N
    OBVIOUS
  <2> DEFINE R == {s[k] : k \in DOMAIN s}
  <2>3. s \in [1..(m + made) -> R] /\ m + made \in Nat
    BY <2>1, <2>2, <1>5, LenProperties
  <2> HIDE DEF R
  <2>4. s \in Seq(R)
    BY <2>3, AsSeq
  <2>5. \A i \in 1..m : s[i] = W[i]
    BY <2>1, <1>5
  <2> QED  BY <2>4, <2>5 DEF R
<1>8. MarkAvailable(W \o N, {}) = W \o N
  BY <1>7, NothingMarked
<1>9. Iterated(old, made)
  <2>1. CASE made < n
    <3>1. guests' = MarkAvailable(Swept(old) \o NewGuests(made), {})
      BY <1>4, <1>8, <2>1
    <3> QED  BY <3>1, <1>5, IteratedList
  <2>2. CASE ~(made < n)
    <3>1. guests' = MarkAvailable(Swept(old) \o NewGuests(made), up)
      BY <1>4, <2>2
    <3>2. up \in SUBSET (1..Len(Swept(old)))
      BY <1>2
    <3>3. \A i \in up : /\ Swept(old)[i].state = "created"
                        /\ has_connectivity(Swept(old)[i].vm)
      BY <1>7
    <3> HIDE DEF up
    <3> QED  BY <3>1, <3>2, <3>3, <1>5, IteratedList
  <2> QED  BY <2>1, <2>2
<1>10. UNCHANGED <<config, ready, bindings, sessions>>
  BY DEF ChainIterate
<1>11. nextId' \in Ids
  BY <1>4, <1>5, IdAfterIn DEF Structure, Shape
<1>12. /\ chains[c] \in Chain /\ chains[c].pc = "waiting" /\ chains[c].vm = None
       /\ chains = [chains EXCEPT ![c] = chains[c]]
  <2>1. chains[c].pc = "waiting"
    BY DEF ChainIterate
  <2>2. chains[c] \in Chain /\ chains[c].vm = None
    BY <2>1, Lists DEF Structure, Hands
  <2>3. chains \in [1..Len(chains) -> Chain]
    BY LenProperties DEF Structure, Shape
  <2> QED  BY <2>1, <2>2, <2>3
<1>13. /\ anyUp' \in BOOLEAN /\ nextCall' \in {None} \cup 1..Len(chains)
  BY <1>4 DEF Structure, Shape
<1>14. /\ made > 0 => ready
       /\ vms' = Destroyed(MachinesOf(Doomed(old)), failing)
                   \o [k \in 1..made |-> NewVm]
  BY <1>4
<1>15. \E d \in Chain : /\ d.vm = None /\ d.pc # "append"
                        /\ chains' = [chains EXCEPT ![c] = d]
  <2>1. CASE made < n
    <3> DEFINE d == [chains[c] EXCEPT !.pc = "dead"]
    <3>1. d \in Chain /\ d.vm = None /\ d.pc # "append"
      BY <1>12 DEF Chain
    <3>2. chains' = [chains EXCEPT ![c] = d]
      BY <1>4, <2>1
    <3> HIDE DEF d
    <3> QED  BY <3>1, <3>2
  <2>2. CASE ~(made < n)
    <3>1. chains' = [chains EXCEPT ![c] = chains[c]]
      BY <1>4, <1>12, <2>2
    <3> QED  BY <1>12, <3>1
  <2> QED  BY <2>1, <2>2
<1> PICK d \in Chain : /\ d.vm = None /\ d.pc # "append"
                       /\ chains' = [chains EXCEPT ![c] = d]
  BY <1>15
<1> HIDE DEF W, N, up
<1> QED  BY <1>5, <1>9, <1>10, <1>11, <1>12, <1>13, <1>14, Renewal

LEMMA MachineStepKeeps ==
  ASSUME Structure, MachineStep
  PROVE  Structure' /\ Machinery
<1>1. ASSUME NEW c \in 1..Len(chains), ChainStep(c)
      PROVE  Structure' /\ Machinery
  <2>1. CASE ChainBegin(c)
    BY <2>1, ChainBeginKeeps
  <2>2. CASE ChainBoot(c)
    BY <2>2, ChainBootKeeps
  <2>3. CASE ChainBootFails(c)
    BY <2>3, ChainBootFailsKeeps
  <2>4. CASE ChainAppend(c)
    BY <2>4, ChainAppendKeeps
  <2>5. CASE ChainMark(c)
    BY <2>5, ChainMarkKeeps
  <2>6. CASE ChainSchedule(c)
    BY <2>6, ChainScheduleKeeps
  <2>7. CASE ChainIterate(c)
    BY <2>7, ChainIterateKeeps
  <2> QED  BY <1>1, <2>1, <2>2, <2>3, <2>4, <2>5, <2>6, <2>7 DEF ChainStep
<1>2. ASSUME NEW v \in 1..Len(vms), VmUp(v) \/ VmHangs(v)
      PROVE  Structure' /\ Machinery
  BY <1>2, VmUpKeeps, VmHangsKeeps DEF Vms
<1>3. CASE Configure
  BY <1>3, ConfigureKeeps
<1>4. CASE RecycleRaises
  BY <1>4, RecycleRaisesKeeps
<1> QED  BY <1>1, <1>2, <1>3, <1>4 DEF MachineStep

LEMMA StutterKeeps ==
  ASSUME Structure, UNCHANGED vars
  PROVE  Structure' /\ Machinery
<1>1. UNCHANGED <<config, guests, nextId, anyUp, ready, chains, nextCall,
                  bindings, sessions, vms>>
  BY DEF vars
<1>2. Vms' = Vms /\ vms' \in Seq(Machine) /\ Off'
  BY <1>1 DEF Structure, Shape, Off, Vms
<1>3. Structure'
  BY <1>1, <1>2, ShapeGrows DEF Structure, Shape
<1>4. (\A w \in Vms : Aged(w)) /\ InHand' = InHand
  BY <1>1 DEF Aged, InHand
<1> QED  BY <1>1, <1>2, <1>3, <1>4, Unmoved

-----------------------------------------------------------------------------
(* Steps of the sessions                                                   *)

SessionOK(x) ==
  /\ x.pc \in UsedPcs \cup {"asked"} => x.ip \in Ips
  /\ x.vm # None <=> x.pc \in UsedPcs
  /\ x.pc \in {"new", "asked"} => ~x.dirty

Becomes(s, x) ==
  sessions'[s] = x /\ \A t \in Sessions : t # s => sessions'[t] = sessions[t]

LEMMA SessionChanged ==
  ASSUME Shape, NEW s \in Sessions, NEW x \in Session, SessionOK(x),
         sessions' = [sessions EXCEPT ![s] = x]
  PROVE  /\ sessions' \in [Sessions -> Session] /\ SessionsOK'
         /\ sessions[s] \in Session /\ Becomes(s, x)
<1>1. /\ sessions' \in [Sessions -> Session] /\ sessions[s] \in Session
      /\ Becomes(s, x)
  BY DEF Shape, Becomes
<1>2. SessionsOK'
  BY <1>1 DEF Shape, SessionsOK, SessionOK, Becomes
<1> QED  BY <1>1, <1>2

(* Only the sessions and the machines' state change.                       *)
LEMMA SessionShape ==
  ASSUME Structure, sessions' \in [Sessions -> Session], SessionsOK',
         vms' \in Seq(Machine), Vms' = Vms, Off', bindings' \in [Ids -> Binding],
         config' = config, guests' \in Seq(Guest), Distinct', Listed' = Listed,
         UNCHANGED <<nextId, anyUp, ready, chains, nextCall>>
  PROVE  Structure'
<1>1. Guest' = Guest /\ Chain' = Chain /\ Session' = Session /\ Binding' = Binding
  BY DEF Guest, Chain, Session, Binding
<1>2. Hands'
  BY DEF Structure, Hands
<1> QED  BY <1>1, <1>2 DEF Structure, Shape, Config, Ids, Machine, Tags

(* A connection comes, leaves, or loses its front end; or its machine      *)
(* cannot be given back.                                                   *)
Session1(s) ==
  /\ UNCHANGED <<guests, vms, bindings, ready, chains, config>>
  /\ sessions'[s].vm = sessions[s].vm /\ sessions'[s].id = sessions[s].id
  /\ sessions'[s].dirty = sessions[s].dirty
  /\ sessions'[s].pc = "new" => sessions[s].pc = "new"
  /\ sessions'[s].pc = "served" => sessions[s].pc = "served"
  /\ \/ sessions'[s].ip = sessions[s].ip
        /\ (sessions'[s].pc = "asked" => sessions[s].pc = "asked")
     \/ sessions[s].pc = "new"
  /\ \A t \in Sessions : t # s => sessions'[t] = sessions[t]

LEMMA Session1Keeps ==
  ASSUME Structure, NEW s \in Sessions,
         Connect(s) \/ Disconnect(s) \/ FrontEndDies(s)
           \/ (sessions[s].pc = "leaving" /\ To(s, "lost")
                 /\ UNCHANGED <<guests, bindings, vms, config, nextId, anyUp, ready,
                                loopVars>>)
  PROVE  Structure' /\ Session1(s)
<1>1. /\ sessions \in [Sessions -> Session] /\ sessions[s] \in Session
      /\ SessionOK(sessions[s])
  BY DEF Structure, Shape, SessionsOK, SessionOK
<1>2. UNCHANGED <<config, guests, nextId, anyUp, ready, chains, nextCall, bindings,
                  vms>>
  BY DEF Connect, Disconnect, FrontEndDies, poolVars, loopVars
<1>3. \E x \in Session :
        /\ SessionOK(x) /\ sessions' = [sessions EXCEPT ![s] = x]
        /\ x.vm = sessions[s].vm /\ x.id = sessions[s].id /\ x.dirty = sessions[s].dirty
        /\ x.pc = "new" => sessions[s].pc = "new"
        /\ x.pc = "served" => sessions[s].pc = "served"
        /\ \/ x.ip = sessions[s].ip /\ (x.pc = "asked" => sessions[s].pc = "asked")
           \/ sessions[s].pc = "new"
  <2>1. CASE Connect(s)
    <3> PICK ip \in Ips :
          sessions' = [sessions EXCEPT ![s].pc = "asked", ![s].open = TRUE,
                                       ![s].ip = ip]
      BY <2>1 DEF Connect
    <3> DEFINE x == [sessions[s] EXCEPT !.pc = "asked", !.open = TRUE, !.ip = ip]
    <3>1. sessions' = [sessions EXCEPT ![s] = x]
      BY <1>1 DEF Session
    <3>2. x \in Session
      BY <1>1 DEF Session
    <3>3. /\ x.vm = sessions[s].vm /\ x.id = sessions[s].id
          /\ x.dirty = sessions[s].dirty /\ x.pc = "asked" /\ x.ip = ip
      BY <1>1 DEF Session
    <3>4. sessions[s].pc = "new"
      BY <2>1 DEF Connect
    <3>5. SessionOK(x)
      BY <1>1, <3>3, <3>4 DEF SessionOK, UsedPcs
    <3> HIDE DEF x
    <3> QED  BY <3>1, <3>2, <3>3, <3>4, <3>5
  <2>2. CASE Disconnect(s)
    <3> DEFINE q == IF sessions[s].pc = "served" THEN "leaving" ELSE sessions[s].pc
               x == [sessions[s] EXCEPT !.open = FALSE, !.pc = q]
    <3>1. sessions' = [sessions EXCEPT ![s] = x]
      BY <1>1, <2>2 DEF Session, Disconnect
    <3>2. /\ q \in UsedPcs \cup {"new", "asked", "gone"}
          /\ \/ q = sessions[s].pc /\ q # "served"
             \/ q = "leaving" /\ sessions[s].pc = "served"
      BY <1>1 DEF Session, UsedPcs
    <3> HIDE DEF q
    <3>3. x \in Session
      BY <1>1, <3>2 DEF Session
    <3>4. /\ x.vm = sessions[s].vm /\ x.id = sessions[s].id /\ x.ip = sessions[s].ip
          /\ x.dirty = sessions[s].dirty /\ x.pc = q
      BY <1>1 DEF Session
    <3>5. SessionOK(x)
      BY <1>1, <3>2, <3>4 DEF SessionOK, UsedPcs
    <3> HIDE DEF x
    <3> QED  BY <3>1, <3>2, <3>3, <3>4, <3>5
  <2>3. CASE FrontEndDies(s)
    <3> DEFINE x == [sessions[s] EXCEPT !.pc = "lost", !.open = FALSE]
    <3>1. sessions' = [sessions EXCEPT ![s] = x] /\ sessions[s].pc = "served"
      BY <1>1, <2>3 DEF Session, FrontEndDies
    <3>2. x \in Session
      BY <1>1 DEF Session, UsedPcs
    <3>3. /\ x.vm = sessions[s].vm /\ x.id = sessions[s].id /\ x.ip = sessions[s].ip
          /\ x.dirty = sessions[s].dirty /\ x.pc = "lost"
      BY <1>1 DEF Session
    <3>4. SessionOK(x)
      BY <1>1, <3>1, <3>3 DEF SessionOK, UsedPcs
    <3> HIDE DEF x
    <3> QED  BY <3>1, <3>2, <3>3, <3>4
  <2>4. CASE sessions[s].pc = "leaving" /\ To(s, "lost")
    <3> DEFINE x == [sessions[s] EXCEPT !.pc = "lost"]
    <3>1. sessions' = [sessions EXCEPT ![s] = x] /\ sessions[s].pc = "leaving"
      BY <1>1, <2>4 DEF Session, To
    <3>2. x \in Session
      BY <1>1 DEF Session, UsedPcs
    <3>3. /\ x.vm = sessions[s].vm /\ x.id = sessions[s].id /\ x.ip = sessions[s].ip
          /\ x.dirty = sessions[s].dirty /\ x.pc = "lost"
      BY <1>1 DEF Session
    <3>4. SessionOK(x)
      BY <1>1, <3>1, <3>3 DEF SessionOK, UsedPcs
    <3> HIDE DEF x
    <3> QED  BY <3>1, <3>2, <3>3, <3>4
  <2> QED  BY <2>1, <2>2, <2>3, <2>4
<1> PICK x \in Session :
        /\ SessionOK(x) /\ sessions' = [sessions EXCEPT ![s] = x]
        /\ x.vm = sessions[s].vm /\ x.id = sessions[s].id /\ x.dirty = sessions[s].dirty
        /\ x.pc = "new" => sessions[s].pc = "new"
        /\ x.pc = "served" => sessions[s].pc = "served"
        /\ \/ x.ip = sessions[s].ip /\ (x.pc = "asked" => sessions[s].pc = "asked")
           \/ sessions[s].pc = "new"
  BY <1>3
<1>4. sessions' \in [Sessions -> Session] /\ SessionsOK' /\ Becomes(s, x)
  BY SessionChanged DEF Structure
<1>5. Off' /\ Distinct' /\ Listed' = Listed /\ Vms' = Vms
  BY <1>2 DEF Structure, Off, Distinct, Listed, Vms
<1>6. Structure'
  BY <1>2, <1>4, <1>5, SessionShape DEF Structure, Shape
<1> QED  BY <1>2, <1>4, <1>6 DEF Session1, Becomes

LoggedIn(s) ==
  /\ UNCHANGED <<guests, bindings, ready, chains, config>>
  /\ sessions[s].pc = "served" /\ Becomes(s, [sessions[s] EXCEPT !.dirty = TRUE])
  /\ Vms' = Vms
  /\ \A v \in Vms :
       /\ vms'[v].power = vms[v].power /\ vms'[v].past = vms[v].past
       /\ vms'[v].dirty = (vms[v].dirty \/ v = Reached(s))

LEMMA LoginKeeps ==
  ASSUME Structure, NEW s \in Sessions, Login(s)
  PROVE  Structure' /\ LoggedIn(s)
<1> DEFINE x == [sessions[s] EXCEPT !.dirty = TRUE]
<1>1. /\ sessions \in [Sessions -> Session] /\ sessions[s] \in Session
      /\ SessionOK(sessions[s])
  BY DEF Structure, Shape, SessionsOK, SessionOK
<1>2. UNCHANGED <<config, guests, nextId, anyUp, ready, chains, nextCall, bindings>>
      /\ sessions[s].pc = "served"
  BY DEF Login, poolVars, loopVars
<1>3. x \in Session /\ SessionOK(x)
  BY <1>1, <1>2 DEF Session, SessionOK
<1>4. sessions' = [sessions EXCEPT ![s] = x]
  BY DEF Login
<1> HIDE DEF x
<1>5. sessions' \in [Sessions -> Session] /\ SessionsOK' /\ Becomes(s, x)
  BY <1>3, <1>4, SessionChanged DEF Structure
<1> PICK r : r = Reached(s)
  OBVIOUS
<1>6. vms' = [vms EXCEPT ![r].dirty = TRUE]
  BY DEF Login
<1> PICK n \in Nat : n = Len(vms)
  BY Lists DEF Structure
<1>7. vms \in [1..n -> Machine]
  BY LenProperties DEF Structure, Shape
<1>8. \A v \in 1..n :
        /\ vms[v] \in Machine /\ vms'[v] \in Machine
        /\ vms'[v].power = vms[v].power /\ vms'[v].past = vms[v].past
        /\ vms'[v].dirty = (vms[v].dirty \/ v = r)
  <2> SUFFICES ASSUME NEW v \in 1..n
               PROVE  /\ vms[v] \in Machine /\ vms'[v] \in Machine
                      /\ vms'[v].power = vms[v].power /\ vms'[v].past = vms[v].past
                      /\ vms'[v].dirty = (vms[v].dirty \/ v = r)
    OBVIOUS
  <2>1. vms[v] \in Machine /\ vms[v].dirty \in BOOLEAN
    BY <1>7 DEF Machine
  <2>2. CASE v = r
    <3> DEFINE y == [vms[v] EXCEPT !.dirty = TRUE]
    <3>1. y \in Machine /\ y.power = vms[v].power /\ y.past = vms[v].past /\ y.dirty
      BY <2>1 DEF Machine
    <3>2. vms'[v] = y
      BY <1>6, <1>7, <2>2
    <3> HIDE DEF y
    <3> QED  BY <2>1, <2>2, <3>1, <3>2 DEF Machine
  <2>3. CASE v # r
    <3>1. vms'[v] = vms[v]
      BY <1>6, <1>7, <2>3
    <3> QED  BY <2>1, <2>3, <3>1
  <2> QED  BY <2>2, <2>3
<1>9. vms' \in [1..n -> Machine]
  BY <1>6, <1>7, <1>8
<1>10. vms' \in Seq(Machine) /\ Vms' = Vms
  BY <1>9, AsSeq DEF Vms
<1>11. Off' /\ Distinct' /\ Listed' = Listed
  BY <1>2, <1>8, <1>10 DEF Structure, Off, Distinct, Listed, Vms
<1>12. Structure'
  BY <1>2, <1>5, <1>10, <1>11, SessionShape DEF Structure, Shape
<1>13. \A v \in Vms :
        /\ vms'[v].power = vms[v].power /\ vms'[v].past = vms[v].past
        /\ vms'[v].dirty = (vms[v].dirty \/ v = Reached(s))
  BY <1>8 DEF Vms
<1> QED  BY <1>2, <1>5, <1>10, <1>12, <1>13 DEF LoggedIn, x

-----------------------------------------------------------------------------
(* Stopping                                                                *)

Stopped ==
  /\ Vms' = Vms
  /\ \A v \in Vms :
       vms'[v].power = "gone" /\ ~vms'[v].dirty /\ vms'[v].past = vms[v].past \cup {"stopped"}
  /\ \A id \in Ids :
       /\ bindings'[id].count = bindings[id].count /\ bindings'[id].vm = bindings[id].vm
  /\ config' = config

LEMMA StopPoolStops ==
  ASSUME Structure, StopPool, config' = config
  PROVE  Stopped /\ vms' \in Seq(Machine) /\ bindings' \in [Ids -> Binding]
<1> PICK n \in Nat : n = Len(vms)
  BY Lists DEF Structure
<1>1. \A v \in 1..n : vms[v].past \cup {"stopped"} \in SUBSET Tags
  BY Lists DEF Structure, Vms, Machine, Tags
<1>2. vms' = [v \in 1..n |-> [power |-> "gone", dirty |-> FALSE,
                              past |-> vms[v].past \cup {"stopped"}]]
  BY DEF StopPool, AllOff
<1>3. vms' \in [1..n -> Machine]
  BY <1>1, <1>2 DEF Machine
<1>4. vms' \in Seq(Machine) /\ Vms' = Vms
  BY <1>3, AsSeq DEF Vms
<1>5. \A v \in Vms : /\ vms'[v].power = "gone" /\ ~vms'[v].dirty
                     /\ vms'[v].past = vms[v].past \cup {"stopped"}
  BY <1>2 DEF Vms
<1>6. bindings \in [Ids -> Binding]
  BY DEF Structure, Shape
<1>7. AllClosed \in [Ids -> Binding]
      /\ \A id \in Ids : AllClosed[id].count = bindings[id].count
                         /\ AllClosed[id].vm = bindings[id].vm
  BY <1>6 DEF AllClosed, Binding
<1>8. bindings' = AllClosed \/ bindings' = bindings
  BY DEF StopPool
<1> QED  BY <1>4, <1>5, <1>6, <1>7, <1>8 DEF Stopped

LEMMA CancelledChains ==
  ASSUME Structure, Cancellable
  PROVE  /\ Cancelled \in Seq(Chain) /\ Len(Cancelled) = Len(chains)
         /\ \A c \in 1..Len(chains) : Cancelled[c].vm = chains[c].vm
         /\ \A c \in 1..Len(chains) :
              Cancelled[c].pc = "append" <=> chains[c].pc = "append"
<1>1. nextCall \in {None} \cup 1..Len(chains) /\ chains \in Seq(Chain)
  BY DEF Structure, Shape
<1>2. CASE nextCall = None
  BY <1>1, <1>2 DEF Cancelled
<1>3. CASE nextCall \in 1..Len(chains) /\ nextCall # None
  <2> PICK c \in 1..Len(chains) : c = nextCall
    BY <1>3
  <2> DEFINE d == [chains[c] EXCEPT !.pc = "dead"]
  <2>1. chains[c].pc = "waiting" /\ chains[c] \in Chain
    BY <1>3, Lists DEF Cancellable, Structure
  <2>2. d \in Chain /\ d.vm = chains[c].vm /\ d.pc = "dead"
    BY <2>1 DEF Chain
  <2>3. Cancelled = [chains EXCEPT ![c] = d]
    BY <1>3 DEF Cancelled
  <2> HIDE DEF d
  <2>4. /\ Cancelled \in Seq(Chain) /\ Len(Cancelled) = Len(chains)
        /\ \A e \in 1..Len(chains) : Cancelled[e] = IF e = c THEN d ELSE chains[e]
    BY <1>1, <2>2, <2>3, ExceptSeq
  <2> QED  BY <2>1, <2>2, <2>4
<1> QED  BY <1>1, <1>2, <1>3

GoneIs(x) ==
  /\ x \in Session /\ x.pc = "gone" /\ x.vm = None /\ ~x.dirty

LEMMA GoneSessionIs == Structure => GoneIs(GoneSession) /\ SessionOK(GoneSession)
<1> SUFFICES ASSUME Structure
             PROVE  GoneIs(GoneSession) /\ SessionOK(GoneSession)
  OBVIOUS
<1>1. None \in Ids
  BY PoolAssumption DEF None, Ids
<1>2. NoSession \in Session /\ NoSession.vm = None /\ ~NoSession.dirty
  BY <1>1 DEF NoSession, Session
<1> DEFINE x == GoneSession
<1>3. /\ x \in Session /\ x.pc = "gone" /\ x.vm = None /\ ~x.dirty
  BY <1>2 DEF GoneSession, Session
<1> HIDE DEF x
<1>4. GoneIs(x)
  BY <1>3 DEF GoneIs
<1>5. SessionOK(x)
  BY <1>3 DEF SessionOK, UsedPcs
<1> QED  BY <1>4, <1>5 DEF x

Refused(s) ==
  /\ sessions[s].pc = "asked"
  /\ \E x : GoneIs(x) /\ Becomes(s, x)
  /\ guests' = guests /\ config' = config
  /\ \A v \in Vms : v \in InHand' <=> v \in InHand
  /\ Stopped \/ UNCHANGED <<vms, bindings>>

LEMMA RefuseKeeps ==
  ASSUME Structure, NEW s \in Sessions, Refuse(s)
  PROVE  Structure' /\ Refused(s)
<1>1. GoneIs(GoneSession) /\ SessionOK(GoneSession)
  BY GoneSessionIs
<1>2. sessions' = [sessions EXCEPT ![s] = GoneSession] /\ sessions[s].pc = "asked"
  BY DEF Refuse
<1>3. sessions' \in [Sessions -> Session] /\ SessionsOK' /\ Becomes(s, GoneSession)
  BY <1>1, <1>2, SessionChanged DEF Structure, GoneIs
<1>4. UNCHANGED <<config, guests, nextId, anyUp, nextCall>>
  BY DEF Refuse
<1>5. Distinct' /\ Listed' = Listed
  BY <1>4 DEF Structure, Distinct, Listed
<1>6. CASE anyUp /\ Cancellable
  <2>1. StopPool /\ ready' = FALSE /\ chains' = Cancelled
    BY <1>6 DEF Refuse
  <2>2. Stopped /\ vms' \in Seq(Machine) /\ bindings' \in [Ids -> Binding]
    BY <1>4, <2>1, StopPoolStops
  <2>3. /\ chains' \in Seq(Chain) /\ Len(chains') = Len(chains)
        /\ \A c \in 1..Len(chains) : chains'[c].vm = chains[c].vm
        /\ \A c \in 1..Len(chains) :
             chains'[c].pc = "append" <=> chains[c].pc = "append"
    BY <1>6, <2>1, CancelledChains
  <2>4. Vms' = Vms /\ InHand' = InHand
    BY <2>2, <2>3 DEF Stopped, InHand
  <2>5. Guest' = Guest /\ Chain' = Chain /\ Session' = Session /\ Binding' = Binding
    BY <2>4 DEF Guest, Chain, Session, Binding
  <2>6. Hands'
    BY <1>5, <2>3 DEF Structure, Hands
  <2>7. Off'
    BY <2>2, <2>4 DEF Off, Stopped
  <2>8. Shape'
    BY <1>3, <1>4, <2>1, <2>2, <2>3, <2>5
       DEF Structure, Shape, Config, Ids, Machine, Tags
  <2> QED  BY <1>1, <1>2, <1>3, <1>4, <1>5, <2>2, <2>4, <2>6, <2>7, <2>8
           DEF Structure, Refused
<1>7. CASE ~(anyUp /\ Cancellable)
  <2>1. UNCHANGED <<ready, chains, vms, bindings>>
    BY <1>7 DEF Refuse
  <2>2. Vms' = Vms /\ Off' /\ InHand' = InHand
    BY <2>1 DEF Vms, Off, Structure, InHand
  <2>3. Structure'
    BY <1>3, <1>4, <1>5, <2>1, <2>2, SessionShape DEF Structure, Shape
  <2> QED  BY <1>1, <1>2, <1>3, <1>4, <2>1, <2>2, <2>3 DEF Refused
<1> QED  BY <1>6, <1>7

Recycled ==
  /\ Stopped /\ sessions' = sessions /\ Entries' = {} /\ Listed' = {}
  /\ \A v \in Vms : v \notin InHand'

LEMMA RecycleKeeps ==
  ASSUME Structure, Recycle
  PROVE  Structure' /\ Recycled
<1>1. /\ StopPool /\ Cancellable
      /\ \A c \in 1..Len(chains) : chains[c].pc \in {"waiting", "dead"}
      /\ chains' = Append(Cancelled, [pc |-> "begin", left |-> 0, vm |-> None])
      /\ guests' = << >> /\ nextId' = 0 /\ anyUp' = FALSE /\ ready' = TRUE
      /\ UNCHANGED <<config, nextCall, sessions>>
  BY DEF Recycle
<1>2. Stopped /\ vms' \in Seq(Machine) /\ bindings' \in [Ids -> Binding]
  BY <1>1, StopPoolStops
<1>3. /\ Cancelled \in Seq(Chain) /\ Len(Cancelled) = Len(chains)
      /\ \A c \in 1..Len(chains) : Cancelled[c].vm = chains[c].vm
      /\ \A c \in 1..Len(chains) :
           Cancelled[c].pc = "append" <=> chains[c].pc = "append"
  BY <1>1, CancelledChains
<1> DEFINE d == [pc |-> "begin", left |-> 0, vm |-> None]
<1>4. d \in Chain /\ d.vm = None /\ d.pc = "begin"
  BY DEF Chain
<1> PICK n \in Nat : n = Len(chains)
  BY Lists DEF Structure
<1>5. chains' = Append(Cancelled, d)
  BY <1>1
<1> HIDE DEF d
<1>6. /\ chains' \in Seq(Chain) /\ Len(chains') = n + 1 /\ chains'[n + 1] = d
      /\ \A c \in 1..n : chains'[c] = Cancelled[c]
  BY <1>3, <1>4, <1>5, AppendProperties
<1>7. \A c \in 1..(n + 1) : chains'[c].vm = None /\ chains'[c].pc # "append"
  <2>1. \A c \in 1..n : chains[c].pc # "append" /\ chains[c].vm = None
    BY <1>1 DEF Structure, Hands
  <2>2. \A c \in 1..n : chains'[c].vm = None /\ chains'[c].pc # "append"
    BY <2>1, <1>3, <1>6
  <2>3. \A c \in 1..(n + 1) : c \in 1..n \/ c = n + 1
    OBVIOUS
  <2> QED  BY <2>2, <2>3, <1>4, <1>6
<1>8. Vms' = Vms /\ None \notin Vms
  BY <1>2, Lists DEF Stopped, Structure, Vms, None
<1>9. Hands' /\ InHand' \subseteq {None}
  BY <1>6, <1>7 DEF Hands, InHand
<1>10. guests' \in Seq(Guest) /\ Len(guests') = 0
  BY <1>1, EmptySeq
<1>11. Distinct' /\ Entries' = {} /\ Listed' = {}
  BY <1>10 DEF Distinct, Entries, Listed
<1>12. Guest' = Guest /\ Chain' = Chain /\ Session' = Session /\ Binding' = Binding
  BY <1>8 DEF Guest, Chain, Session, Binding
<1>13. nextId' \in Ids
  BY <1>1, PoolAssumption DEF Ids
<1>14. nextCall' \in {None} \cup 1..Len(chains')
  BY <1>1, <1>6 DEF Structure, Shape
<1>15. SessionsOK'
  BY <1>1 DEF Structure, Shape, SessionsOK
<1>16. Shape'
  BY <1>1, <1>2, <1>6, <1>10, <1>12, <1>13, <1>14, <1>15
     DEF Structure, Shape, Config, Ids, Machine, Tags
<1>17. Off'
  BY <1>1 DEF Off
<1> QED  BY <1>1, <1>2, <1>8, <1>9, <1>11, <1>16, <1>17 DEF Structure, Recycled

-----------------------------------------------------------------------------
(* Handing out                                                             *)

LEMMA PastIs ==
  ASSUME Structure, NEW S, NEW what \in Tags, vms' = Past(S, what)
  PROVE  /\ vms' \in Seq(Machine) /\ Vms' = Vms
         /\ \A v \in Vms :
              /\ vms'[v].power = vms[v].power /\ vms'[v].dirty = vms[v].dirty
              /\ vms'[v].past = IF v \in S THEN vms[v].past \cup {what}
                                           ELSE vms[v].past
<1> PICK n \in Nat : n = Len(vms)
  BY Lists DEF Structure
<1>1. \A v \in 1..n : vms[v] \in Machine
  BY Lists DEF Structure, Vms
<1>2. vms' = [v \in 1..n |->
               IF v \in S THEN [vms[v] EXCEPT !.past = @ \cup {what}] ELSE vms[v]]
  BY DEF Past
<1>3. \A v \in 1..n :
        /\ vms'[v] \in Machine
        /\ vms'[v].power = vms[v].power /\ vms'[v].dirty = vms[v].dirty
        /\ vms'[v].past = IF v \in S THEN vms[v].past \cup {what} ELSE vms[v].past
  <2> SUFFICES ASSUME NEW v \in 1..n
               PROVE  /\ vms'[v] \in Machine
                      /\ vms'[v].power = vms[v].power
                      /\ vms'[v].dirty = vms[v].dirty
                      /\ vms'[v].past = IF v \in S THEN vms[v].past \cup {what}
                                                   ELSE vms[v].past
    OBVIOUS
  <2>1. CASE v \in S
    <3>1. vms[v].past \cup {what} \in SUBSET Tags
      BY <1>1 DEF Machine
    <3> DEFINE y == [vms[v] EXCEPT !.past = @ \cup {what}]
    <3>2. /\ y \in Machine /\ y.power = vms[v].power /\ y.dirty = vms[v].dirty
          /\ y.past = vms[v].past \cup {what}
      BY <1>1, <3>1 DEF Machine
    <3>3. vms'[v] = y
      BY <1>2, <2>1
    <3> HIDE DEF y
    <3> QED  BY <2>1, <3>2, <3>3
  <2>2. CASE v \notin S
    <3>1. vms'[v] = vms[v]
      BY <1>2, <2>2
    <3> QED  BY <1>1, <2>2, <3>1
  <2> QED  BY <2>1, <2>2
<1>4. vms' \in [1..n -> Machine]
  BY <1>2, <1>3
<1>5. vms' \in Seq(Machine) /\ Len(vms') = n
  BY <1>4, AsSeq
<1> QED  BY <1>3, <1>5 DEF Vms

(* One entry g of the pool becomes h.                                      *)
Turns(g, h) ==
  /\ g \in Entries /\ h \in Entries'
  /\ h.vm = g.vm /\ h.id = g.id
  /\ \A e \in Entries' : e = h \/ (e \in Entries /\ e.vm # h.vm)
  /\ \A e \in Entries : e = g \/ (e \in Entries' /\ e.vm # h.vm)

(* The machines keep running as they did, and are tagged at most.          *)
OnlyTagged ==
  /\ Vms' = Vms /\ InHand' = InHand /\ Listed' = Listed /\ config' = config
  /\ \A v \in Vms : /\ vms'[v].power = vms[v].power /\ vms'[v].dirty = vms[v].dirty
                    /\ vms[v].past \subseteq vms'[v].past

Bound(g) ==
  LET b == bindings[g.id]
      c == bindings'[g.id]
  IN  IF ~config.nat THEN bindings' = bindings
      ELSE /\ c.count = b.count + 1
           /\ \A id \in Ids : id # g.id => bindings'[id] = bindings[id]
           /\ IF b.count > 0
              THEN /\ c.open = b.open /\ c.vm = b.vm
                   /\ b.vm # g.vm =>
                        \A v \in Vms \cap {g.vm, b.vm} : "misled" \in vms'[v].past
              ELSE c.open /\ c.vm = g.vm

Served(s, g, h) ==
  /\ sessions[s].pc = "asked" /\ Turns(g, h) /\ OnlyTagged
  /\ g.state \in Usable
  /\ \/ sessions[s].ip \in g.ips
     \/ \A e \in Entries : e.state \in {"using", "used"} => sessions[s].ip \notin e.ips
  /\ h.prev = g.state /\ h.state = "using" /\ h.connected = g.connected + 1
  /\ h.ips = g.ips \cup {sessions[s].ip}
  /\ \E x \in Session :
       /\ Becomes(s, x) /\ x.pc \in {"served", "lost"} /\ x.vm = g.vm /\ x.id = g.id
       /\ x.ip = sessions[s].ip /\ x.dirty = sessions[s].dirty
       /\ x.pc = "served" /\ config.nat => bindings'[g.id].open
  /\ Bound(g)

LEMMA CandidateIs ==
  ASSUME Structure, NEW ip, NEW i \in Candidates(ip)
  PROVE  /\ i \in 1..Len(guests) /\ guests[i].state \in Usable
         /\ \/ ip \in guests[i].ips
            \/ \A e \in Entries : e.state \in {"using", "used"} => ip \notin e.ips
<1> DEFINE any == InState({"using", "used"})
           own == {j \in any : ip \in guests[j].ips}
           few == {j \in any : \A k \in any : guests[j].connected <= guests[k].connected}
<1>1. \/ i \in own
      \/ own = {} /\ (i \in InState({"available"}) \/ i \in few)
  <2>1. Candidates(ip) = IF own # {} THEN own
                         ELSE IF InState({"available"}) # {} THEN InState({"available"})
                         ELSE IF config.share THEN few ELSE {}
    BY DEF Candidates
  <2> HIDE DEF own, few
  <2> QED  BY <2>1
<1>2. i \in 1..Len(guests) /\ guests[i].state \in Usable
  BY <1>1 DEF InState, Usable
<1>3. own = {} => \A e \in Entries : e.state \in {"using", "used"} => ip \notin e.ips
  BY DEF InState, Entries
<1> QED  BY <1>1, <1>2, <1>3

LEMMA ServeKeeps ==
  ASSUME Structure, NEW s \in Sessions, Serve(s)
  PROVE  Structure' /\ \E g, h : Served(s, g, h)
<1>1. PICK i \in Candidates(sessions[s].ip) :
        /\ Given(i, sessions[s].ip)
        /\ request_binding(i)
        /\ vms' = Past(Misled(i), "misled")
        /\ LET packed == config.nat => bindings'[guests[i].id].open
           IN  sessions' = [sessions EXCEPT
                 ![s].pc = IF packed /\ sessions[s].open THEN "served" ELSE "lost",
                 ![s].id = guests[i].id, ![s].vm = guests[i].vm]
  BY DEF Serve
<1> DEFINE g == guests[i]
           ip == sessions[s].ip
           h == [g EXCEPT !.prev = g.state, !.state = "using",
                          !.connected = @ + 1, !.ips = @ \cup {ip}]
           packed == config.nat => bindings'[g.id].open
           q == IF packed /\ sessions[s].open THEN "served" ELSE "lost"
           x == [sessions[s] EXCEPT !.pc = q, !.id = g.id, !.vm = g.vm]
<1>2. /\ i \in 1..Len(guests) /\ g.state \in Usable
      /\ \/ ip \in g.ips
         \/ \A e \in Entries : e.state \in {"using", "used"} => ip \notin e.ips
  BY CandidateIs
<1>3. /\ UNCHANGED <<config, nextId, anyUp, ready, chains, nextCall>>
      /\ sessions[s].pc = "asked"
  BY DEF Serve, loopVars
<1>4. /\ sessions \in [Sessions -> Session] /\ sessions[s] \in Session
      /\ SessionOK(sessions[s]) /\ ip \in Ips /\ ~sessions[s].dirty
  BY <1>3 DEF Structure, Shape, SessionsOK, SessionOK
<1>5. g \in Guest /\ DOMAIN guests = 1..Len(guests)
  BY <1>2, Lists DEF Structure
<1>6. /\ h \in Guest /\ h.vm = g.vm /\ h.id = g.id /\ h.prev = g.state
      /\ h.state = "using" /\ h.connected = g.connected + 1
      /\ h.ips = g.ips \cup {ip}
  <2>1. g.ips \cup {ip} \in SUBSET Ips /\ g.connected + 1 \in Int
    BY <1>4, <1>5 DEF Guest
  <2> HIDE DEF g, ip
  <2> QED  BY <1>2, <1>5, <2>1 DEF Guest, States, Usable
<1>7. guests' = [guests EXCEPT ![i] = h]
  BY <1>1 DEF Given
<1> HIDE DEF h
<1>8. /\ guests' \in Seq(Guest) /\ Distinct' /\ Listed' = Listed /\ Turns(g, h)
  BY <1>2, <1>6, <1>7, GuestChanged DEF Turns
<1>9. /\ vms' \in Seq(Machine) /\ Vms' = Vms
      /\ \A v \in Vms :
           /\ vms'[v].power = vms[v].power /\ vms'[v].dirty = vms[v].dirty
           /\ vms'[v].past = IF v \in Misled(i) THEN vms[v].past \cup {"misled"}
                                                ELSE vms[v].past
  BY <1>1, PastIs DEF Tags
<1>10. OnlyTagged
  BY <1>3, <1>8, <1>9 DEF OnlyTagged, InHand
<1>11. g.id \in Ids /\ g.vm \in Vms /\ g.vm # None /\ bindings \in [Ids -> Binding]
  BY <1>5, Lists DEF Guest, Structure, Shape, Vms, None
<1>12. bindings' \in [Ids -> Binding] /\ Bound(g)
  <2> DEFINE b == bindings[g.id]
  <2>1. b \in Binding /\ b.count \in Nat
    BY <1>11 DEF Binding
  <2>2. CASE ~config.nat
    BY <1>1, <1>11, <2>2 DEF request_binding, Bound
  <2>3. CASE config.nat /\ b.count > 0
    <3> DEFINE c == [b EXCEPT !.count = @ + 1]
    <3>1. c \in Binding /\ c.count = b.count + 1 /\ c.open = b.open /\ c.vm = b.vm
      BY <2>1 DEF Binding
    <3>2. bindings' = [bindings EXCEPT ![g.id] = c]
      BY <1>1, <2>3 DEF request_binding
    <3> HIDE DEF c
    <3>3. /\ bindings' \in [Ids -> Binding] /\ bindings'[g.id] = c
          /\ \A id \in Ids : id # g.id => bindings'[id] = bindings[id]
      BY <1>11, <3>1, <3>2
    <3>4. b.vm # g.vm => Misled(i) = {g.vm, b.vm}
      BY <2>3 DEF Misled
    <3>5. b.vm # g.vm => \A v \in Vms \cap {g.vm, b.vm} : "misled" \in vms'[v].past
      BY <1>9, <3>4
    <3> QED  BY <2>3, <3>1, <3>3, <3>5 DEF Bound
  <2>4. CASE config.nat /\ ~(b.count > 0)
    <3> DEFINE c == [count |-> 1, open |-> TRUE, vm |-> g.vm]
    <3>1. c \in Binding /\ c.count = 1 /\ c.open /\ c.vm = g.vm /\ b.count = 0
      BY <1>11, <2>1, <2>4 DEF Binding
    <3>2. bindings' = [bindings EXCEPT ![g.id] = c]
      BY <1>1, <2>4 DEF request_binding
    <3> HIDE DEF c
    <3>3. /\ bindings' \in [Ids -> Binding] /\ bindings'[g.id] = c
          /\ \A id \in Ids : id # g.id => bindings'[id] = bindings[id]
      BY <1>11, <3>1, <3>2
    <3> QED  BY <2>4, <3>1, <3>3 DEF Bound
  <2> QED  BY <2>2, <2>3, <2>4
<1>13. q \in {"served", "lost"} /\ (q = "served" => packed)
  OBVIOUS
<1>14. sessions' = [sessions EXCEPT ![s] = x]
  BY <1>1, <1>4 DEF Session
<1> HIDE DEF q, packed
<1>15. /\ x \in Session /\ x.pc = q /\ x.vm = g.vm /\ x.id = g.id
       /\ x.ip = ip /\ x.dirty = sessions[s].dirty
  <2> HIDE DEF g
  <2> QED  BY <1>4, <1>11, <1>13 DEF Session, UsedPcs
<1>16. SessionOK(x)
  BY <1>4, <1>11, <1>13, <1>15 DEF SessionOK, UsedPcs
<1> HIDE DEF x
<1>17. sessions' \in [Sessions -> Session] /\ SessionsOK' /\ Becomes(s, x)
  BY <1>14, <1>15, <1>16, SessionChanged DEF Structure
<1>18. Off'
  BY <1>3, <1>9 DEF Structure, Off
<1>19. Structure'
  BY <1>3, <1>8, <1>9, <1>12, <1>17, <1>18, SessionShape
<1>20. x.pc = "served" /\ config.nat => bindings'[g.id].open
  BY <1>13, <1>15 DEF packed
<1>21. \E y \in Session :
         /\ Becomes(s, y) /\ y.pc \in {"served", "lost"} /\ y.vm = g.vm /\ y.id = g.id
         /\ y.ip = sessions[s].ip /\ y.dirty = sessions[s].dirty
         /\ y.pc = "served" /\ config.nat => bindings'[g.id].open
  BY <1>13, <1>15, <1>17, <1>20
<1> HIDE DEF g
<1>22. Served(s, g, h)
  BY <1>2, <1>3, <1>6, <1>8, <1>10, <1>12, <1>21 DEF Served
<1> QED  BY <1>19, <1>22

-----------------------------------------------------------------------------
(* Giving back                                                             *)

FreedAs(g, h, dirty) ==
  /\ h.vm = g.vm /\ h.id = g.id /\ h.ips = g.ips /\ h.connected = g.connected - 1
  /\ IF h.connected # 0 THEN h.state = g.state /\ h.prev = g.prev
     ELSE IF dirty THEN h.state = "used" /\ h.prev = g.prev
     ELSE h.state = g.prev /\ h.prev = "none"

LEMMA FreedIs ==
  ASSUME NEW g \in Guest, NEW dirty \in BOOLEAN, g.prev = "none" => g.connected =< 0
  PROVE  Freed(g, dirty) \in Guest /\ FreedAs(g, Freed(g, dirty), dirty)
<1> DEFINE left == [g EXCEPT !.connected = @ - 1]
<1>1. /\ left \in Guest /\ left.connected = g.connected - 1 /\ left.vm = g.vm
      /\ left.id = g.id /\ left.ips = g.ips /\ left.state = g.state
      /\ left.prev = g.prev
  BY DEF Guest
<1>2. Freed(g, dirty) =
        IF left.connected # 0 THEN left
        ELSE IF dirty THEN [left EXCEPT !.state = "used"]
        ELSE [left EXCEPT !.state = g.prev, !.prev = "none"]
  BY DEF Freed
<1> HIDE DEF left
<1>3. CASE left.connected # 0
  BY <1>1, <1>2, <1>3 DEF FreedAs
<1>4. CASE left.connected = 0 /\ dirty
  <2> DEFINE h == [left EXCEPT !.state = "used"]
  <2>1. /\ h \in Guest /\ h.connected = left.connected /\ h.vm = left.vm
        /\ h.id = left.id /\ h.ips = left.ips /\ h.state = "used"
        /\ h.prev = left.prev
    BY <1>1 DEF Guest, States
  <2>2. Freed(g, dirty) = h
    BY <1>2, <1>4
  <2> HIDE DEF h
  <2> QED  BY <1>1, <1>4, <2>1, <2>2 DEF FreedAs
<1>5. CASE left.connected = 0 /\ ~dirty
  <2> DEFINE h == [left EXCEPT !.state = g.prev, !.prev = "none"]
  <2>1. g.prev \in Usable
    BY <1>1, <1>5 DEF Guest
  <2>2. /\ h \in Guest /\ h.connected = left.connected /\ h.vm = left.vm
        /\ h.id = left.id /\ h.ips = left.ips /\ h.state = g.prev
        /\ h.prev = "none"
    BY <1>1, <2>1 DEF Guest, States, Usable
  <2>3. Freed(g, dirty) = h
    BY <1>2, <1>5
  <2> HIDE DEF h
  <2> QED  BY <1>1, <1>5, <2>2, <2>3 DEF FreedAs
<1> QED  BY <1>3, <1>4, <1>5

Unbound(id) ==
  LET b == bindings[id]
      c == bindings'[id]
  IN  IF ~config.nat THEN bindings' = bindings
      ELSE /\ b.count > 0 /\ c.count = b.count - 1
           /\ \A e \in Ids : e # id => bindings'[e] = bindings[e]
           /\ c.count > 0 => c.open = b.open /\ c.vm = b.vm

(* A machine is given back, be it to no guest any more.                    *)
GivenBack(s) ==
  /\ sessions[s].pc = "leaving" /\ OnlyTagged /\ Unbound(sessions[s].id)
  /\ \E x : GoneIs(x) /\ Becomes(s, x)

FreedGone(s) ==
  /\ GivenBack(s) /\ Entries' = Entries
  /\ \A g \in Entries : g.id # sessions[s].id

FreedOne(s, g, h) ==
  /\ GivenBack(s) /\ Turns(g, h) /\ g.id = sessions[s].id
  /\ FreedAs(g, h, sessions[s].dirty)
  /\ g.vm # sessions[s].vm =>
       \A v \in {g.vm, sessions[s].vm} : "mistaken" \in vms'[v].past
  /\ g.vm = sessions[s].vm /\ h.state = "available" => "reused" \in vms'[g.vm].past

LEMMA FreeKeeps ==
  ASSUME Structure, Remembered, NEW s \in Sessions, Free(s)
  PROVE  /\ Structure'
         /\ Session1(s) \/ FreedGone(s) \/ \E g, h : FreedOne(s, g, h)
<1> DEFINE id == sessions[s].id
           same == {i \in 1..Len(guests) : guests[i].id = id}
<1>1. /\ UNCHANGED <<config, nextId, anyUp, ready, chains, nextCall, recycle>>
      /\ sessions[s].pc = "leaving"
  BY DEF Free, loopVars
<1>2. /\ sessions \in [Sessions -> Session] /\ sessions[s] \in Session
      /\ SessionOK(sessions[s]) /\ id \in Ids /\ sessions[s].dirty \in BOOLEAN
      /\ sessions[s].vm \in Vms
  <2>1. /\ sessions \in [Sessions -> Session] /\ sessions[s] \in Session
        /\ SessionOK(sessions[s])
    BY DEF Structure, Shape, SessionsOK, SessionOK
  <2>2. sessions[s].vm # None
    BY <2>1, <1>1 DEF SessionOK, UsedPcs
  <2> QED  BY <2>1, <2>2 DEF Session
<1>3. CASE config.nat /\ bindings[id].count = 0
  <2>1. To(s, "lost") /\ UNCHANGED <<guests, bindings, vms>>
    BY <1>3 DEF Free
  <2> QED  BY <1>1, <2>1, Session1Keeps DEF loopVars
<1>4. CASE ~(config.nat /\ bindings[id].count = 0)
  <2>1. /\ sessions' = [sessions EXCEPT ![s] = GoneSession]
        /\ free_binding(id)
        /\ IF same = {} THEN UNCHANGED <<guests, vms>>
           ELSE \E i \in same :
                   /\ guests' = [guests EXCEPT ![i] = Freed(guests[i], sessions[s].dirty)]
                   /\ vms' = IF guests[i].vm # sessions[s].vm
                             THEN Past({guests[i].vm, sessions[s].vm}, "mistaken")
                             ELSE IF guests'[i].state = "available"
                             THEN Past({guests[i].vm}, "reused") ELSE vms
    BY <1>4 DEF Free
  <2>2. GoneIs(GoneSession) /\ SessionOK(GoneSession)
    BY GoneSessionIs
  <2>3. sessions' \in [Sessions -> Session] /\ SessionsOK' /\ Becomes(s, GoneSession)
    BY <2>1, <2>2, SessionChanged DEF Structure, GoneIs
  <2>4. bindings' \in [Ids -> Binding] /\ Unbound(id)
    <3> DEFINE b == bindings[id]
    <3>1. b \in Binding /\ b.count \in Nat /\ bindings \in [Ids -> Binding]
      BY <1>2 DEF Binding, Structure, Shape
    <3>2. CASE ~config.nat
      BY <2>1, <3>1, <3>2 DEF free_binding, Unbound
    <3>3. CASE config.nat /\ b.count = 1
      <4>1. NoBinding \in Binding /\ NoBinding.count = 0
        BY DEF NoBinding, Binding
      <4>2. bindings' = [bindings EXCEPT ![id] = NoBinding]
        BY <2>1, <3>3 DEF free_binding
      <4>3. /\ bindings' \in [Ids -> Binding] /\ bindings'[id] = NoBinding
            /\ \A e \in Ids : e # id => bindings'[e] = bindings[e]
        BY <1>2, <3>1, <4>1, <4>2
      <4> QED  BY <3>3, <4>1, <4>3 DEF Unbound
    <3>4. CASE config.nat /\ b.count # 1
      <4> DEFINE c == [b EXCEPT !.count = @ - 1]
      <4>1. b.count - 1 \in Nat /\ b.count > 0
        BY <1>4, <3>1, <3>4
      <4>2. c \in Binding /\ c.count = b.count - 1 /\ c.open = b.open /\ c.vm = b.vm
        BY <3>1, <4>1 DEF Binding
      <4>3. bindings' = [bindings EXCEPT ![id] = c]
        BY <2>1, <3>4 DEF free_binding
      <4> HIDE DEF c
      <4>4. /\ bindings' \in [Ids -> Binding] /\ bindings'[id] = c
            /\ \A e \in Ids : e # id => bindings'[e] = bindings[e]
        BY <1>2, <3>1, <4>2, <4>3
      <4> QED  BY <3>4, <4>1, <4>2, <4>4 DEF Unbound
    <3> QED  BY <3>2, <3>3, <3>4
  <2>5. InHand' = InHand
    BY <1>1 DEF InHand
  <2>6. CASE same = {}
    <3>1. UNCHANGED <<guests, vms>>
      BY <2>1, <2>6
    <3>2. /\ vms' \in Seq(Machine) /\ Vms' = Vms /\ Off' /\ guests' \in Seq(Guest)
          /\ Distinct' /\ Listed' = Listed /\ Entries' = Entries
      BY <1>1, <3>1 DEF Structure, Shape, Vms, Off, Distinct, Listed, Entries
    <3>3. Structure'
      BY <1>1, <2>3, <2>4, <3>2, SessionShape
    <3>4. OnlyTagged
      BY <1>1, <2>5, <3>1, <3>2 DEF OnlyTagged
    <3>5. \A g \in Entries : g.id # id
      BY <2>6 DEF Entries
    <3>6. GivenBack(s)
      BY <1>1, <2>2, <2>3, <2>4, <3>4 DEF GivenBack
    <3> QED  BY <3>2, <3>3, <3>5, <3>6 DEF FreedGone
  <2>7. CASE same # {}
    <3> PICK i \in same :
          /\ guests' = [guests EXCEPT ![i] = Freed(guests[i], sessions[s].dirty)]
          /\ vms' = IF guests[i].vm # sessions[s].vm
                    THEN Past({guests[i].vm, sessions[s].vm}, "mistaken")
                    ELSE IF guests'[i].state = "available"
                    THEN Past({guests[i].vm}, "reused") ELSE vms
      BY <2>1, <2>7
    <3> DEFINE g == guests[i]
               h == Freed(g, sessions[s].dirty)
    <3>1. i \in 1..Len(guests) /\ g.id = id /\ g \in Guest /\ g \in Entries
      BY Lists DEF Structure, Entries
    <3>2. h \in Guest /\ FreedAs(g, h, sessions[s].dirty)
      BY <1>2, <3>1, FreedIs DEF Remembered
    <3> HIDE DEF h
    <3>3. guests' = [guests EXCEPT ![i] = h] /\ guests'[i] = h
      BY <3>1, Lists DEF h, Structure
    <3>4. h.vm = g.vm /\ h.id = g.id
      BY <3>2 DEF FreedAs
    <3>5. /\ guests' \in Seq(Guest) /\ Distinct' /\ Listed' = Listed /\ Turns(g, h)
      BY <3>1, <3>2, <3>3, <3>4, GuestChanged DEF Turns
    <3>6. g.vm \in Vms
      BY <3>1 DEF Guest
    <3>7. /\ vms' \in Seq(Machine) /\ Vms' = Vms
          /\ \A v \in Vms :
               /\ vms'[v].power = vms[v].power /\ vms'[v].dirty = vms[v].dirty
               /\ vms[v].past \subseteq vms'[v].past
          /\ g.vm # sessions[s].vm =>
               \A v \in {g.vm, sessions[s].vm} : "mistaken" \in vms'[v].past
          /\ g.vm = sessions[s].vm /\ h.state = "available" =>
               "reused" \in vms'[g.vm].past
      <4>1. CASE g.vm # sessions[s].vm
        <5>1. vms' = Past({g.vm, sessions[s].vm}, "mistaken")
          BY <4>1
        <5>2. /\ vms' \in Seq(Machine) /\ Vms' = Vms
              /\ \A v \in Vms :
                   /\ vms'[v].power = vms[v].power /\ vms'[v].dirty = vms[v].dirty
                   /\ vms'[v].past =
                        IF v \in {g.vm, sessions[s].vm}
                        THEN vms[v].past \cup {"mistaken"} ELSE vms[v].past
          BY <5>1, PastIs DEF Tags
        <5> QED  BY <1>2, <3>6, <4>1, <5>2
      <4>2. CASE g.vm = sessions[s].vm /\ h.state = "available"
        <5>1. vms' = Past({g.vm}, "reused")
          BY <3>3, <4>2
        <5>2. /\ vms' \in Seq(Machine) /\ Vms' = Vms
              /\ \A v \in Vms :
                   /\ vms'[v].power = vms[v].power /\ vms'[v].dirty = vms[v].dirty
                   /\ vms'[v].past = IF v \in {g.vm}
                                     THEN vms[v].past \cup {"reused"} ELSE vms[v].past
          BY <5>1, PastIs DEF Tags
        <5> QED  BY <1>2, <3>6, <4>2, <5>2
      <4>3. CASE g.vm = sessions[s].vm /\ h.state # "available"
        <5>1. vms' = vms
          BY <3>3, <4>3
        <5> QED  BY <4>3, <5>1 DEF Structure, Shape, Vms
      <4> QED  BY <4>1, <4>2, <4>3
    <3>8. Off'
      BY <1>1, <3>7 DEF Structure, Off
    <3>9. Structure'
      BY <1>1, <2>3, <2>4, <3>5, <3>7, <3>8, SessionShape
    <3>10. OnlyTagged
      BY <1>1, <2>5, <3>5, <3>7 DEF OnlyTagged
    <3>11. GivenBack(s)
      BY <1>1, <2>2, <2>3, <2>4, <3>10 DEF GivenBack
    <3> HIDE DEF g
    <3>12. FreedOne(s, g, h)
      BY <3>1, <3>2, <3>5, <3>7, <3>11 DEF FreedOne
    <3> QED  BY <3>9, <3>12
  <2> QED  BY <2>6, <2>7
<1> QED  BY <1>3, <1>4


-----------------------------------------------------------------------------
(* The kinds of steps                                                      *)

SessionKind(s) ==
  \/ Refused(s) \/ Session1(s) \/ LoggedIn(s) \/ FreedGone(s)
  \/ \E g, h : Served(s, g, h) \/ FreedOne(s, g, h)

Kind == Machinery \/ Recycled \/ \E s \in Sessions : SessionKind(s)

LEMMA StepKinds ==
  ASSUME Structure, Remembered, [Next]_vars
  PROVE  Structure' /\ Kind
<1>1. CASE MachineStep
  BY <1>1, MachineStepKeeps DEF Kind
<1>2. CASE Recycle
  BY <1>2, RecycleKeeps DEF Kind
<1>3. ASSUME NEW s \in Sessions, SessionStep(s)
      PROVE  Structure' /\ SessionKind(s)
  <2>1. CASE Connect(s) \/ Disconnect(s) \/ FrontEndDies(s)
    BY <2>1, Session1Keeps DEF SessionKind
  <2>2. CASE Serve(s)
    BY <2>2, ServeKeeps DEF SessionKind
  <2>3. CASE Refuse(s)
    BY <2>3, RefuseKeeps DEF SessionKind
  <2>4. CASE Login(s)
    BY <2>4, LoginKeeps DEF SessionKind
  <2>5. CASE Free(s)
    BY <2>5, FreeKeeps DEF SessionKind
  <2> QED  BY <1>3, <2>1, <2>2, <2>3, <2>4, <2>5 DEF SessionStep
<1>4. CASE UNCHANGED vars
  BY <1>4, StutterKeeps DEF Kind
<1> QED  BY <1>1, <1>2, <1>3, <1>4 DEF Next, MachineStep, Kind

(* What a well-shaped state says about its guests and sessions.            *)
GuestFacts ==
  /\ None \notin Vms /\ \A v \in Vms : vms[v] \in Machine
  /\ \A g \in Entries :
       /\ g \in Guest /\ g.vm \in Vms /\ g.vm \in Listed /\ g.vm # None
       /\ g.vm \notin InHand /\ g.connected \in Int /\ g.id \in Ids
  /\ \A v \in Listed : v \in Vms /\ \E g \in Entries : g.vm = v
  /\ \A g, h \in Entries : g.vm = h.vm => g = h

SessionFacts ==
  \A s \in Sessions :
    /\ sessions[s] \in Session /\ SessionOK(sessions[s]) /\ sessions[s].id \in Ids
    /\ sessions[s].vm # None => sessions[s].vm \in Vms

(* The holders of a machine are those that were given it.                  *)
HolderFacts ==
  \A v \in Vms :
    /\ Holders(v) = {s \in Sessions : sessions[s].vm = v}
    /\ IsFiniteSet(Holders(v)) /\ Cardinality(Holders(v)) \in Nat

LEMMA FactsHold == Structure => GuestFacts /\ SessionFacts /\ HolderFacts
<1> SUFFICES ASSUME Structure
             PROVE  GuestFacts /\ SessionFacts /\ HolderFacts
  OBVIOUS
<1>1. \A i \in 1..Len(guests) : guests[i] \in Guest
  BY Lists DEF Structure
<1>2. None \notin Vms /\ \A v \in Vms : vms[v] \in Machine
  BY Lists DEF Structure, Vms, None
<1>3. \A g \in Entries :
        /\ g \in Guest /\ g.vm \in Vms /\ g.vm \in Listed /\ g.vm # None
        /\ g.connected \in Int /\ g.id \in Ids
  BY <1>1, <1>2 DEF Entries, Listed, Guest
<1>4. \A v \in Listed : v # None => v \notin InHand
  BY DEF Structure, Hands, InHand
<1>5. \A v \in Listed : \E g \in Entries : g.vm = v
  BY DEF Listed, Entries
<1>6. \A g, h \in Entries : g.vm = h.vm => g = h
  BY DEF Entries, Structure, Distinct
<1>7. GuestFacts
  BY <1>2, <1>3, <1>4, <1>5, <1>6 DEF GuestFacts
<1>8. SessionFacts
  BY DEF Structure, Shape, SessionsOK, SessionOK, Session, SessionFacts
<1>9. ASSUME NEW v \in Vms
      PROVE  /\ Holders(v) = {s \in Sessions : sessions[s].vm = v}
             /\ IsFiniteSet(Holders(v)) /\ Cardinality(Holders(v)) \in Nat
  <2>1. Holders(v) = {s \in Sessions : sessions[s].vm = v}
    BY <1>2, <1>8 DEF Holders, SessionFacts, SessionOK, UsedPcs
  <2>2. IsFiniteSet(Sessions) /\ Holders(v) \subseteq Sessions
    BY <2>1, PoolAssumption
  <2> QED  BY <2>1, <2>2, FS_Subset, FS_CardinalityType
<1> QED  BY <1>7, <1>8, <1>9 DEF HolderFacts

Facts == GuestFacts /\ SessionFacts /\ HolderFacts

LEMMA NextFacts == Structure /\ Structure' => Facts /\ Facts'
BY FactsHold, PTL DEF Facts

(* In every step but the ones named, the guests stay as they are.          *)
LEMMA SameEntries ==
  ASSUME NEW s, Refused(s) \/ Session1(s) \/ LoggedIn(s)
  PROVE  Entries' = Entries /\ Listed' = Listed
BY DEF Refused, Session1, LoggedIn, Entries, Listed

(* No guest but the one served or given back changes.                      *)
LEMMA TurnsIs ==
  ASSUME NEW g, NEW h, Turns(g, h)
  PROVE  /\ g \in Entries /\ h \in Entries' /\ h.vm = g.vm /\ h.id = g.id
         /\ \A e \in Entries' : e = h \/ (e \in Entries /\ e.vm # g.vm)
BY DEF Turns

-----------------------------------------------------------------------------
(* The state a guest goes back to                                          *)

LEMMA RememberedKept ==
  ASSUME Facts, Facts', Remembered, Kind
  PROVE  Remembered'
<1>1. \A g \in Entries : g.connected \in Int
  BY DEF Facts, GuestFacts
<1>2. CASE Machinery
  <2> SUFFICES ASSUME NEW h \in Entries'
               PROVE  /\ h.prev = "none" => h.connected =< 0
                      /\ h.prev = "available" => h.connected =< 1
                      /\ h.state \in {"created", "available"} => h.prev = "none"
    BY DEF Remembered
  <2>1. CASE Fresh(h)
    BY <2>1 DEF Fresh
  <2>2. ASSUME NEW g \in Entries, Follows(g, h)
        PROVE  /\ h.prev = "none" => h.connected =< 0
               /\ h.prev = "available" => h.connected =< 1
               /\ h.state \in {"created", "available"} => h.prev = "none"
    BY <2>2 DEF Remembered, Follows, Same
  <2> QED  BY <1>2, <2>1, <2>2 DEF Machinery
<1>3. CASE Recycled
  BY <1>3 DEF Recycled, Remembered
<1>4. ASSUME NEW s \in Sessions, Refused(s) \/ Session1(s) \/ LoggedIn(s)
      PROVE  Remembered'
  BY <1>4, SameEntries DEF Remembered
<1>5. ASSUME NEW s \in Sessions, FreedGone(s)
      PROVE  Remembered'
  BY <1>5 DEF FreedGone, Remembered
<1>6. ASSUME NEW s \in Sessions, NEW g, NEW h, Served(s, g, h)
      PROVE  Remembered'
  <2>1. /\ Turns(g, h) /\ g.state \in Usable
        /\ h.prev = g.state /\ h.state = "using" /\ h.connected = g.connected + 1
    BY <1>6 DEF Served
  <2>2. g \in Entries /\ \A e \in Entries' : e = h \/ e \in Entries
    BY <2>1, TurnsIs
  <2>3. /\ h.prev = "none" => h.connected =< 0
        /\ h.prev = "available" => h.connected =< 1
        /\ h.state \in {"created", "available"} => h.prev = "none"
    BY <1>1, <2>1, <2>2 DEF Remembered, Usable
  <2> QED  BY <2>2, <2>3 DEF Remembered
<1>7. ASSUME NEW s \in Sessions, NEW g, NEW h, FreedOne(s, g, h)
      PROVE  Remembered'
  <2>1. Turns(g, h) /\ FreedAs(g, h, sessions[s].dirty)
    BY <1>7 DEF FreedOne
  <2>2. g \in Entries /\ \A e \in Entries' : e = h \/ e \in Entries
    BY <2>1, TurnsIs
  <2>3. /\ g.prev = "none" => g.connected =< 0
        /\ g.prev = "available" => g.connected =< 1
        /\ g.state \in {"created", "available"} => g.prev = "none"
        /\ g \in Guest
    BY <2>2 DEF Remembered, Facts, GuestFacts
  <2>4. /\ h.prev = "none" => h.connected =< 0
        /\ h.prev = "available" => h.connected =< 1
        /\ h.state \in {"created", "available"} => h.prev = "none"
    BY <1>1, <2>1, <2>2, <2>3 DEF FreedAs
  <2> QED  BY <2>2, <2>4 DEF Remembered
<1> QED  BY <1>2, <1>3, <1>4, <1>5, <1>6, <1>7 DEF Kind, SessionKind

-----------------------------------------------------------------------------
(* The number of clients                                                   *)

LEMMA AskedGrows ==
  ASSUME Facts, Facts', Kind
  PROVE  Asked \subseteq Asked'
<1>1. CASE Machinery
  BY <1>1 DEF Machinery, Asked
<1>2. CASE Recycled
  BY <1>2 DEF Recycled, Asked
<1>3. ASSUME NEW s \in Sessions, SessionKind(s)
      PROVE  Asked \subseteq Asked'
  <2> SUFFICES ASSUME NEW t \in Sessions, t \in Asked
               PROVE  t \in Asked'
    BY DEF Asked
  <2>0. sessions[t].pc \notin {"new", "asked"}
    BY DEF Asked
  <2>1. CASE Refused(s)
    BY <2>0, <2>1 DEF Refused, GoneIs, Becomes, Asked
  <2>2. CASE Session1(s)
    BY <2>0, <2>2 DEF Session1, Asked
  <2>3. CASE LoggedIn(s)
    <3> DEFINE x == [sessions[s] EXCEPT !.dirty = TRUE]
    <3>1. x.pc = sessions[s].pc
      BY DEF Facts, SessionFacts, Session
    <3>2. Becomes(s, x)
      BY <2>3 DEF LoggedIn
    <3> HIDE DEF x
    <3> QED  BY <2>0, <3>1, <3>2 DEF Becomes, Asked
  <2>4. ASSUME GivenBack(s)
        PROVE  t \in Asked'
    BY <2>0, <2>4 DEF GivenBack, GoneIs, Becomes, Asked
  <2>5. ASSUME NEW g, NEW h, Served(s, g, h)
        PROVE  t \in Asked'
    BY <2>0, <2>5 DEF Served, Becomes, Asked
  <2> QED  BY <1>3, <2>1, <2>2, <2>3, <2>4, <2>5
           DEF SessionKind, FreedGone, FreedOne
<1> QED  BY <1>1, <1>2, <1>3 DEF Kind

LEMMA BoundedKept ==
  ASSUME Facts, Facts', Bounded, Kind
  PROVE  Bounded'
<1>1. /\ \A g \in Entries : g.connected \in Int
      /\ \A g \in Entries' : g.connected \in Int
  BY DEF Facts, GuestFacts
<1>2. /\ IsFiniteSet(Asked) /\ IsFiniteSet(Asked')
      /\ Cardinality(Asked) \in Nat /\ Cardinality(Asked') \in Nat
      /\ Cardinality(Asked) =< Cardinality(Asked')
  <2>1. Asked \subseteq Sessions /\ Asked' \subseteq Sessions
    BY DEF Asked
  <2>2. IsFiniteSet(Asked) /\ IsFiniteSet(Asked')
    BY <2>1, PoolAssumption, FS_Subset
  <2> QED  BY <2>2, AskedGrows, FS_Subset, FS_CardinalityType
<1>3. \A g \in Entries : g.connected =< Cardinality(Asked')
  BY <1>1, <1>2 DEF Bounded
<1>4. CASE Machinery
  <2> SUFFICES ASSUME NEW h \in Entries'
               PROVE  h.connected =< Cardinality(Asked')
    BY DEF Bounded
  <2> QED  BY <1>2, <1>3, <1>4 DEF Machinery, Fresh, Follows, Same
<1>5. CASE Recycled
  BY <1>5 DEF Recycled, Bounded
<1>6. ASSUME NEW s \in Sessions, Refused(s) \/ Session1(s) \/ LoggedIn(s) \/ FreedGone(s)
      PROVE  Bounded'
  BY <1>3, <1>6, SameEntries DEF Bounded, FreedGone
<1>7. ASSUME NEW s \in Sessions, NEW g, NEW h, Served(s, g, h)
      PROVE  Bounded'
  <2>1. /\ Turns(g, h) /\ h.connected = g.connected + 1 /\ sessions[s].pc = "asked"
        /\ sessions'[s].pc \in {"served", "lost"}
    BY <1>7 DEF Served, Becomes
  <2>2. g \in Entries /\ \A e \in Entries' : e = h \/ e \in Entries
    BY <2>1, TurnsIs
  <2>3. s \notin Asked /\ s \in Asked'
    BY <2>1 DEF Asked
  <2>4. Cardinality(Asked \cup {s}) = Cardinality(Asked) + 1
        /\ IsFiniteSet(Asked \cup {s})
    BY <1>2, <2>3, FS_AddElement
  <2>5. Asked \cup {s} \subseteq Asked'
    BY <2>3, AskedGrows
  <2>6. Cardinality(Asked \cup {s}) =< Cardinality(Asked')
    BY <1>2, <2>5, FS_Subset
  <2>7. h.connected =< Cardinality(Asked')
    BY <1>1, <1>2, <2>1, <2>2, <2>4, <2>6 DEF Bounded
  <2> QED  BY <1>3, <2>2, <2>7 DEF Bounded
<1>8. ASSUME NEW s \in Sessions, NEW g, NEW h, FreedOne(s, g, h)
      PROVE  Bounded'
  <2>1. Turns(g, h) /\ h.connected = g.connected - 1
    BY <1>8 DEF FreedOne, FreedAs
  <2>2. g \in Entries /\ \A e \in Entries' : e = h \/ e \in Entries
    BY <2>1, TurnsIs
  <2>3. h.connected =< Cardinality(Asked')
    BY <1>1, <1>2, <1>3, <2>1, <2>2
  <2> QED  BY <1>3, <2>2, <2>3 DEF Bounded
<1> QED  BY <1>4, <1>5, <1>6, <1>7, <1>8 DEF Kind, SessionKind

-----------------------------------------------------------------------------
(* Holders and the guests they hold                                        *)

(* No session holds a machine that is not listed yet.                      *)
LEMMA FreshUnheld ==
  ASSUME Facts, Facts', Linked, UNCHANGED sessions, Vms \subseteq Vms',
         NEW h \in Entries', Fresh(h), NEW s \in Sessions
  PROVE  sessions[s].vm # h.vm
<1>1. h.vm # None /\ (sessions[s].vm # None => sessions[s].vm \in Vms)
  BY DEF Facts, GuestFacts, SessionFacts
<1> QED  BY <1>1 DEF Linked, Fresh

LEMMA LinkedKept ==
  ASSUME Facts, Facts', Linked, Kind
  PROVE  Linked'
<1> DEFINE Tied(s, g) == g.vm = sessions[s].vm =>
                           g.id = sessions[s].id /\ sessions[s].ip \in g.ips
           Clear(s) == sessions[s].vm # None => sessions[s].vm \notin InHand
<1>1. /\ \A s \in Sessions : Clear(s) /\ \A g \in Entries : Tied(s, g)
      /\ Linked' <=> \A s \in Sessions : Clear(s)' /\ \A g \in Entries' : Tied(s, g)'
  BY DEF Linked
<1>2. /\ \A g \in Entries' : g.vm # None
      /\ \A s \in Sessions : sessions[s].vm # None => sessions[s].vm \in Vms
      /\ \A s \in Sessions :
           sessions[s].pc \in {"new", "asked"} => sessions[s].vm = None
  BY DEF Facts, GuestFacts, SessionFacts, SessionOK, UsedPcs
<1>3. CASE Machinery
  <2>1. ASSUME NEW s \in Sessions
        PROVE  Clear(s)'
    BY <1>1, <1>2, <1>3 DEF Machinery
  <2>2. ASSUME NEW s \in Sessions, NEW h \in Entries'
        PROVE  Tied(s, h)'
    <3>1. UNCHANGED sessions /\ Vms \subseteq Vms'
      BY <1>3 DEF Machinery
    <3>2. CASE Fresh(h)
      BY <3>1, <3>2, FreshUnheld
    <3>3. ASSUME NEW g \in Entries, Follows(g, h)
          PROVE  Tied(s, h)'
      BY <1>1, <3>1, <3>3 DEF Follows, Same
    <3> QED  BY <1>3, <3>2, <3>3 DEF Machinery
  <2> QED  BY <1>1, <2>1, <2>2
<1>4. CASE Recycled
  BY <1>1, <1>2, <1>4 DEF Recycled
<1>5. ASSUME NEW s \in Sessions, Refused(s) \/ Session1(s) \/ LoggedIn(s)
      PROVE  Linked'
  <2>1. Entries' = Entries
    BY <1>5, SameEntries
  <2>2. \A v \in Vms : v \in InHand' => v \in InHand
    BY <1>5 DEF Refused, Session1, LoggedIn, InHand
  <2>3. \A t \in Sessions \ {s} : sessions'[t] = sessions[t]
    BY <1>5 DEF Refused, Session1, LoggedIn, Becomes
  <2>4. \/ sessions'[s].vm = None
        \/ /\ sessions'[s].vm = sessions[s].vm /\ sessions'[s].id = sessions[s].id
           /\ sessions'[s].ip = sessions[s].ip \/ sessions[s].vm = None
    <3>1. CASE Refused(s)
      BY <3>1 DEF Refused, GoneIs, Becomes
    <3>2. CASE Session1(s)
      BY <1>2, <3>2 DEF Session1
    <3>3. CASE LoggedIn(s)
      <4> DEFINE x == [sessions[s] EXCEPT !.dirty = TRUE]
      <4>1. x.vm = sessions[s].vm /\ x.id = sessions[s].id /\ x.ip = sessions[s].ip
        BY DEF Facts, SessionFacts, Session
      <4>2. sessions'[s] = x
        BY <3>3 DEF LoggedIn, Becomes
      <4> HIDE DEF x
      <4> QED  BY <4>1, <4>2
    <3> QED  BY <1>5, <3>1, <3>2, <3>3
  <2>5. ASSUME NEW t \in Sessions
        PROVE  Clear(t)' /\ \A g \in Entries' : Tied(t, g)'
    <3>1. CASE t # s
      <4>1. sessions'[t] = sessions[t]
        BY <2>3, <3>1
      <4> QED  BY <1>1, <1>2, <2>1, <2>2, <4>1
    <3>2. CASE t = s
      BY <1>1, <1>2, <2>1, <2>2, <2>4, <3>2
    <3> QED  BY <3>1, <3>2
  <2> QED  BY <1>1, <2>5
<1>6. ASSUME NEW s \in Sessions, FreedGone(s)
      PROVE  Linked'
  <2>1. Entries' = Entries /\ InHand' = InHand /\ sessions'[s].vm = None
    BY <1>6 DEF FreedGone, GivenBack, OnlyTagged, GoneIs, Becomes
  <2>2. \A t \in Sessions : t = s \/ sessions'[t] = sessions[t]
    BY <1>6 DEF FreedGone, GivenBack, Becomes
  <2>3. ASSUME NEW t \in Sessions
        PROVE  Clear(t)' /\ \A g \in Entries' : Tied(t, g)'
    BY <1>1, <1>2, <2>1, <2>2
  <2> QED  BY <1>1, <2>3
<1>7. ASSUME NEW s \in Sessions, NEW g, NEW h, FreedOne(s, g, h)
      PROVE  Linked'
  <2>1. InHand' = InHand /\ sessions'[s].vm = None /\ h.ips = g.ips
    BY <1>7 DEF FreedOne, GivenBack, OnlyTagged, GoneIs, Becomes, FreedAs
  <2>2. \A t \in Sessions : t = s \/ sessions'[t] = sessions[t]
    BY <1>7 DEF FreedOne, GivenBack, Becomes
  <2>3. /\ g \in Entries /\ h.vm = g.vm /\ h.id = g.id
        /\ \A e \in Entries' : e = h \/ e \in Entries
    BY <1>7, TurnsIs DEF FreedOne
  <2>4. ASSUME NEW t \in Sessions, NEW e \in Entries'
        PROVE  Clear(t)' /\ Tied(t, e)'
    <3>1. CASE t = s
      BY <1>2, <2>1, <3>1
    <3>2. CASE t # s
      <4>1. sessions'[t] = sessions[t] /\ Tied(t, g)
        BY <1>1, <2>2, <2>3, <3>2
      <4> QED  BY <1>1, <2>1, <2>3, <4>1
    <3> QED  BY <3>1, <3>2
  <2>5. ASSUME NEW t \in Sessions
        PROVE  Clear(t)'
    BY <1>1, <2>1, <2>2
  <2> QED  BY <1>1, <2>4, <2>5
<1>8. ASSUME NEW s \in Sessions, NEW g, NEW h, Served(s, g, h)
      PROVE  Linked'
  <2>1. /\ InHand' = InHand /\ sessions'[s].vm = g.vm /\ sessions'[s].id = g.id
        /\ sessions'[s].ip = sessions[s].ip /\ h.ips = g.ips \cup {sessions[s].ip}
    BY <1>8 DEF Served, OnlyTagged, Becomes
  <2>2. \A t \in Sessions : t = s \/ sessions'[t] = sessions[t]
    BY <1>8 DEF Served, Becomes
  <2>3. /\ g \in Entries /\ h.vm = g.vm /\ h.id = g.id
        /\ \A e \in Entries' : e = h \/ (e \in Entries /\ e.vm # g.vm)
    BY <1>8, TurnsIs DEF Served
  <2>4. g.vm \notin InHand
    BY <2>3 DEF Facts, GuestFacts
  <2>5. ASSUME NEW t \in Sessions
        PROVE  Clear(t)'
    BY <1>1, <2>1, <2>2, <2>4
  <2>6. ASSUME NEW t \in Sessions, NEW e \in Entries'
        PROVE  Tied(t, e)'
    <3>1. CASE t = s
      BY <2>1, <2>3, <3>1
    <3>2. CASE t # s
      <4>1. sessions'[t] = sessions[t] /\ Tied(t, g)
        BY <1>1, <2>2, <2>3, <3>2
      <4> QED  BY <1>1, <2>1, <2>3, <4>1
    <3> QED  BY <3>1, <3>2
  <2> QED  BY <1>1, <2>5, <2>6
<1> QED  BY <1>3, <1>4, <1>5, <1>6, <1>7, <1>8 DEF Kind, SessionKind

-----------------------------------------------------------------------------
(* Power                                                                   *)

(* Tags never come off.                                                    *)
LEMMA PastGrows ==
  ASSUME Kind
  PROVE  Vms \subseteq Vms' /\ \A v \in Vms : vms[v].past \subseteq vms'[v].past
<1>1. CASE Machinery
  BY <1>1 DEF Machinery, Aged
<1>2. CASE Recycled
  BY <1>2 DEF Recycled, Stopped
<1>3. ASSUME NEW s \in Sessions, SessionKind(s)
      PROVE  Vms \subseteq Vms' /\ \A v \in Vms : vms[v].past \subseteq vms'[v].past
  <2>1. CASE Refused(s)
    BY <2>1 DEF Refused, Stopped, Vms
  <2>2. CASE Session1(s) \/ LoggedIn(s)
    BY <2>2 DEF Session1, LoggedIn, Vms
  <2>3. CASE OnlyTagged
    BY <2>3 DEF OnlyTagged
  <2> QED  BY <1>3, <2>1, <2>2, <2>3
           DEF SessionKind, FreedGone, FreedOne, GivenBack, Served
<1> QED  BY <1>1, <1>2, <1>3 DEF Kind

LEMMA ExcusedStays ==
  ASSUME Kind, NEW v \in Vms, NEW S, Excused(v, S)
  PROVE  Excused(v, S)'
BY PastGrows DEF Excused

(* Where every machine stays in its place and runs on as before.           *)
Quiet ==
  /\ Vms' = Vms /\ Listed' = Listed
  /\ \A v \in Vms : /\ v \in InHand' <=> v \in InHand
                    /\ vms'[v].power = vms[v].power

LEMMA QuietSteps ==
  ASSUME NEW s \in Sessions, SessionKind(s)
  PROVE  Quiet \/ (Stopped /\ Entries' = Entries /\ Listed' = Listed)
<1>1. CASE Refused(s)
  BY <1>1 DEF Refused, Quiet, Entries, Listed, Vms
<1>2. CASE Session1(s) \/ LoggedIn(s)
  BY <1>2 DEF Session1, LoggedIn, Quiet, Listed, InHand, Vms
<1>3. CASE OnlyTagged
  BY <1>3 DEF OnlyTagged, Quiet
<1> QED  BY <1>1, <1>2, <1>3
         DEF SessionKind, FreedGone, FreedOne, GivenBack, Served

LEMMA PoweredKept ==
  ASSUME Facts, Facts', Remembered, Powered, Kind
  PROVE  Powered'
<1> DEFINE Sound(v) == /\ vms[v].power = "gone" /\ v \in Listed \cup InHand =>
                            Tagged(v, "stopped")
                       /\ vms[v].power = "hung" => Tagged(v, "hung")
           Fits(g) == /\ g.state # "created" => vms[g.vm].power # "booting"
                      /\ g.state = "unavailable" => Excused(g.vm, {"hung", "stopped"})
<1>1. /\ \A v \in Vms : Sound(v)
      /\ \A g \in Entries : Fits(g)
      /\ Powered' <=> (\A v \in Vms' : Sound(v)') /\ (\A g \in Entries' : Fits(g)')
  BY DEF Powered
<1>2. /\ \A g \in Entries : g.vm \in Vms /\ g.vm \in Listed /\ g \in Guest
      /\ \A g \in Entries' : g.vm \in Vms' /\ g.vm \in Listed'
      /\ \A v \in Listed' : \E g \in Entries' : g.vm = v
  BY DEF Facts, GuestFacts
<1>3. \A v \in Vms : v \in Vms' /\ vms[v].past \subseteq vms'[v].past
  BY PastGrows
<1>4. CASE Machinery
  <2>1. ASSUME NEW v \in Vms', v \notin Vms
        PROVE  Sound(v)'
    BY <1>4, <2>1 DEF Machinery, NewVm
  <2>2. ASSUME NEW v \in Vms, v \in Listed' \cup InHand'
        PROVE  v \in Listed \cup InHand
    <3>1. ASSUME NEW h \in Entries', h.vm = v
          PROVE  v \in Listed \cup InHand
      BY <1>2, <1>4, <3>1 DEF Machinery, Fresh, Follows, Same
    <3> QED  BY <1>2, <1>4, <2>2, <3>1 DEF Machinery
  <2>3. ASSUME NEW v \in Vms
        PROVE  Sound(v)'
    <3>1. Aged(v)
      BY <1>4 DEF Machinery
    <3> QED  BY <1>1, <1>3, <2>2, <3>1 DEF Aged, Tagged
  <2>4. ASSUME NEW h \in Entries'
        PROVE  Fits(h)'
    <3>1. CASE Fresh(h)
      BY <3>1 DEF Fresh
    <3>2. ASSUME NEW g \in Entries, Follows(g, h)
          PROVE  Fits(h)'
      <4>1. Aged(g.vm) /\ Fits(g) /\ Sound(g.vm) /\ g.vm \in Listed /\ h.vm = g.vm
        BY <1>1, <1>2, <1>4, <3>2 DEF Machinery, Follows, Same
      <4>2. vms[g.vm].past \subseteq vms'[g.vm].past
        BY <1>2, <1>3
      <4>3. vms[g.vm].power \in {"booting", "up", "hung", "gone"}
        BY <4>1, <1>2 DEF Facts, GuestFacts, Machine
      <4>4. h.state # "created" => vms'[g.vm].power # "booting"
        BY <3>2, <4>1 DEF Follows, Aged, Usable
      <4>5. h.state = "unavailable" => vms'[g.vm].past \cap {"hung", "stopped"} # {}
        BY <3>2, <4>1, <4>2, <4>3 DEF Follows, Excused, Usable, Tagged
      <4> QED  BY <4>1, <4>4, <4>5 DEF Excused
    <3> QED  BY <1>4, <3>1, <3>2 DEF Machinery
  <2> QED  BY <1>1, <2>1, <2>3, <2>4
<1>5. CASE Recycled
  BY <1>1, <1>5 DEF Recycled, Stopped, Tagged
<1>6. CASE Stopped /\ Entries' = Entries /\ Listed' = Listed
  <2>1. \A v \in Vms' : Sound(v)'
    BY <1>6 DEF Stopped, Tagged
  <2>2. \A g \in Entries' : Fits(g)'
    BY <1>2, <1>6 DEF Stopped, Excused
  <2> QED  BY <1>1, <2>1, <2>2
<1>7. ASSUME Quiet,
             \A h \in Entries' : \E g \in Entries :
               /\ h.vm = g.vm /\ (h.state = g.state \/ g.state # "created")
               /\ h.state = "unavailable" => g.state = "unavailable"
      PROVE  Powered'
  <2>1. ASSUME NEW v \in Vms'
        PROVE  Sound(v)'
    BY <1>1, <1>3, <1>7 DEF Quiet, Tagged
  <2>2. ASSUME NEW h \in Entries'
        PROVE  Fits(h)'
    <3> PICK g \in Entries :
               /\ h.vm = g.vm /\ (h.state = g.state \/ g.state # "created")
               /\ h.state = "unavailable" => g.state = "unavailable"
      BY <1>7
    <3>1. Fits(g) /\ vms'[g.vm].power = vms[g.vm].power
          /\ vms[g.vm].past \subseteq vms'[g.vm].past
      BY <1>1, <1>2, <1>3, <1>7 DEF Quiet
    <3> QED  BY <3>1 DEF Excused
  <2> QED  BY <1>1, <2>1, <2>2
<1>8. ASSUME NEW s \in Sessions, SessionKind(s), Quiet
      PROVE  Powered'
  <2>1. CASE Entries' = Entries
    <3>1. \A h \in Entries' : \E g \in Entries :
            /\ h.vm = g.vm /\ (h.state = g.state \/ g.state # "created")
            /\ h.state = "unavailable" => g.state = "unavailable"
      BY <2>1
    <3> QED  BY <1>7, <1>8, <3>1
  <2>2. ASSUME NEW g, NEW h, Served(s, g, h) \/ FreedOne(s, g, h)
        PROVE  Powered'
    <3>1. /\ g \in Entries /\ h.vm = g.vm
          /\ \A e \in Entries' : e = h \/ e \in Entries
      BY <2>2, TurnsIs DEF Served, FreedOne
    <3>2. /\ h.state = g.state \/ g.state # "created"
          /\ h.state = "unavailable" => g.state = "unavailable"
      <4>1. CASE Served(s, g, h)
        BY <4>1 DEF Served, Usable
      <4>2. CASE FreedOne(s, g, h)
        <5>1. FreedAs(g, h, sessions[s].dirty)
          BY <4>2 DEF FreedOne
        <5>2. /\ g.prev \in {"none"} \cup Usable /\ g.connected \in Int
              /\ g.prev = "none" => g.connected =< 0
              /\ g.state = "created" => g.prev = "none"
          BY <1>2, <3>1 DEF Guest, Remembered
        <5> QED  BY <5>1, <5>2 DEF FreedAs, Usable
      <4> QED  BY <2>2, <4>1, <4>2
    <3>3. \A e \in Entries' : \E f \in Entries :
            /\ e.vm = f.vm /\ (e.state = f.state \/ f.state # "created")
            /\ e.state = "unavailable" => f.state = "unavailable"
      BY <3>1, <3>2
    <3> QED  BY <1>7, <1>8, <3>3
  <2>3. (Refused(s) \/ Session1(s) \/ LoggedIn(s) \/ FreedGone(s)) => Entries' = Entries
    BY SameEntries DEF FreedGone
  <2> QED  BY <1>8, <2>1, <2>2, <2>3 DEF SessionKind
<1> QED  BY <1>4, <1>5, <1>6, <1>8, QuietSteps DEF Kind

LEMMA NoOrphansKept ==
  ASSUME Structure, Facts, Facts', NoOrphans, Kind
  PROVE  NoOrphans'
<1> DEFINE Known(v) == vms[v].power # "gone" =>
                         v \in Listed \cup InHand \/ Excused(v, {"undead"})
<1>1. /\ \A v \in Vms : Known(v)
      /\ NoOrphans' <=> \A v \in Vms' : Known(v)'
  BY DEF NoOrphans
<1>2. /\ \A v \in Listed : \E g \in Entries : g.vm = v
      /\ \A g \in Entries' : g.vm \in Listed'
  BY DEF Facts, GuestFacts
<1>3. \A v \in Vms : v \in Vms' /\ vms[v].past \subseteq vms'[v].past
  BY PastGrows
<1>4. CASE Machinery
  <2>1. ASSUME NEW v \in Vms', v \notin Vms
        PROVE  Known(v)'
    BY <1>4, <2>1 DEF Machinery
  <2>2. ASSUME NEW v \in Vms, vms'[v].power # "gone"
        PROVE  v \in Listed' \cup InHand' \/ Excused(v, {"undead"})'
    <3>1. vms[v].power # "gone"
      BY <1>4, <2>2 DEF Machinery, Aged
    <3>2. CASE Excused(v, {"undead"})
      BY <1>3, <3>2 DEF Excused
    <3>3. CASE v \in InHand
      BY <1>4, <3>3 DEF Machinery
    <3>4. CASE v \in Listed
      <4> PICK g \in Entries : g.vm = v
        BY <1>2, <3>4
      <4>1. CASE Dropped(g)
        BY <2>2, <3>1, <4>1 DEF Dropped, Structure, Off, Excused
      <4>2. ASSUME NEW h \in Entries', Follows(g, h)
            PROVE  v \in Listed'
        BY <1>2, <4>2 DEF Follows, Same
      <4> QED  BY <1>4, <4>1, <4>2 DEF Machinery
    <3> QED  BY <1>1, <3>1, <3>2, <3>3, <3>4
  <2> QED  BY <1>1, <2>1, <2>2
<1>5. CASE Recycled
  BY <1>1, <1>5 DEF Recycled, Stopped
<1>6. CASE Stopped
  BY <1>1, <1>6 DEF Stopped
<1>7. CASE Quiet
  BY <1>1, <1>3, <1>7 DEF Quiet, Excused
<1> QED  BY <1>4, <1>5, <1>6, <1>7, QuietSteps DEF Kind

-----------------------------------------------------------------------------
(* Counting the holders                                                    *)

LEMMA OthersStay ==
  ASSUME NEW s \in Sessions, SessionKind(s)
  PROVE  \A t \in Sessions : t = s \/ sessions'[t] = sessions[t]
BY DEF SessionKind, Refused, Session1, LoggedIn, FreedGone, FreedOne, GivenBack,
       Served, Becomes

(* The machine of the one session that moved.                              *)
LEMMA OwnMachine ==
  ASSUME Facts, NEW s \in Sessions
  PROVE  /\ Refused(s) => sessions[s].vm = None /\ sessions'[s].vm = None
         /\ Session1(s) => sessions'[s].vm = sessions[s].vm
         /\ LoggedIn(s) => sessions'[s].vm = sessions[s].vm /\ sessions[s].vm # None
         /\ GivenBack(s) => sessions'[s].vm = None /\ sessions[s].vm # None
         /\ \A g, h : Served(s, g, h) =>
              sessions'[s].vm = g.vm /\ sessions[s].vm = None
<1>1. /\ sessions[s].vm # None <=> sessions[s].pc \in UsedPcs
      /\ sessions[s] \in Session
  BY DEF Facts, SessionFacts, SessionOK
<1>2. Refused(s) => sessions[s].vm = None /\ sessions'[s].vm = None
  BY <1>1 DEF Refused, GoneIs, Becomes, UsedPcs
<1>3. Session1(s) => sessions'[s].vm = sessions[s].vm
  BY DEF Session1
<1>4. LoggedIn(s) => sessions'[s].vm = sessions[s].vm /\ sessions[s].vm # None
  <2> DEFINE x == [sessions[s] EXCEPT !.dirty = TRUE]
  <2>1. x.vm = sessions[s].vm
    BY <1>1 DEF Session
  <2>2. LoggedIn(s) => sessions'[s] = x /\ sessions[s].pc = "served"
    BY DEF LoggedIn, Becomes
  <2> HIDE DEF x
  <2> QED  BY <1>1, <2>1, <2>2 DEF UsedPcs
<1>5. GivenBack(s) => sessions'[s].vm = None /\ sessions[s].vm # None
  BY <1>1 DEF GivenBack, GoneIs, Becomes, UsedPcs
<1>6. \A g, h : Served(s, g, h) => sessions'[s].vm = g.vm /\ sessions[s].vm = None
  BY <1>1 DEF Served, Becomes, UsedPcs
<1> QED  BY <1>2, <1>3, <1>4, <1>5, <1>6

LEMMA HoldersAfter ==
  ASSUME Facts, Facts', NEW v \in Vms, v \in Vms', NEW s \in Sessions,
         \A t \in Sessions : t = s \/ sessions'[t] = sessions[t]
  PROVE  /\ sessions'[s].vm = v => Holders(v)' = Holders(v) \cup {s}
         /\ sessions'[s].vm # v => Holders(v)' = Holders(v) \ {s}
         /\ sessions'[s].vm = sessions[s].vm => Holders(v)' = Holders(v)
         /\ sessions'[s].vm # v /\ sessions[s].vm # v => Holders(v)' = Holders(v)
         /\ s \in Holders(v) <=> sessions[s].vm = v
         /\ s \in Holders(v)' <=> sessions'[s].vm = v
<1>1. Holders(v) = {t \in Sessions : sessions[t].vm = v}
  BY DEF Facts, HolderFacts
<1>2. Holders(v)' = {t \in Sessions : sessions'[t].vm = v}
  BY DEF Facts, HolderFacts
<1> QED  BY <1>1, <1>2

LEMMA CountedKept ==
  ASSUME Facts, Facts', Linked, Remembered, Powered, Counted, Kind
  PROVE  Counted'
<1> DEFINE Right(g) == \/ Tagged(g.vm, "mistaken")
                       \/ /\ g.connected = Cardinality(Holders(g.vm))
                          /\ Holders(g.vm) # {} => g.state \in {"using", "unavailable"}
           Kept(s) == sessions[s].vm # None =>
                        \/ sessions[s].vm \in Listed
                        \/ Excused(sessions[s].vm, {"hung", "stopped", "mistaken"})
<1>1. /\ \A g \in Entries : Right(g)
      /\ \A s \in Sessions : Kept(s)
      /\ Counted' <=> (\A g \in Entries' : Right(g)') /\ (\A s \in Sessions : Kept(s)')
  BY DEF Counted
<1>2. /\ \A g \in Entries : g.vm \in Vms /\ g \in Guest /\ g.connected \in Int
      /\ \A v \in Listed : \E g \in Entries : g.vm = v
      /\ \A g \in Entries' : g.vm \in Listed' /\ g.vm \in Vms'
      /\ \A s \in Sessions : sessions[s].vm # None => sessions[s].vm \in Vms
      /\ None \notin Vms
  BY DEF Facts, GuestFacts, SessionFacts
<1>3. \A v \in Vms : v \in Vms' /\ vms[v].past \subseteq vms'[v].past
  BY PastGrows
<1>4. \A v \in Vms : IsFiniteSet(Holders(v)) /\ Cardinality(Holders(v)) \in Nat
  BY DEF Facts, HolderFacts
<1>5. CASE Machinery
  <2>0. sessions' = sessions /\ (\A v : Holders(v)' = Holders(v)) /\ Vms \subseteq Vms'
    BY <1>5 DEF Machinery, Holders
  <2>1. ASSUME NEW h \in Entries'
        PROVE  Right(h)'
    <3>1. CASE Fresh(h)
      <4>1. \A s \in Sessions : sessions[s].vm # h.vm
        BY <2>0, <3>1, FreshUnheld
      <4>2. Holders(h.vm)' = {} /\ h.connected = 0
        BY <2>0, <3>1, <4>1 DEF Holders, Fresh
      <4> QED  BY <4>2, FS_EmptySet
    <3>2. ASSUME NEW g \in Entries, Follows(g, h)
          PROVE  Right(h)'
      <4>1. /\ Right(g) /\ h.vm = g.vm /\ h.connected = g.connected
            /\ vms[g.vm].past \subseteq vms'[g.vm].past
            /\ g.state \in {"using", "unavailable"} =>
                 h.state \in {"using", "unavailable"}
        BY <1>1, <1>2, <1>3, <3>2 DEF Follows, Same
      <4> QED  BY <2>0, <4>1 DEF Tagged
    <3> QED  BY <1>5, <3>1, <3>2 DEF Machinery
  <2>2. ASSUME NEW s \in Sessions
        PROVE  Kept(s)'
    <3> SUFFICES ASSUME sessions[s].vm # None
                 PROVE  \/ sessions[s].vm \in Listed'
                        \/ vms'[sessions[s].vm].past
                             \cap {"hung", "stopped", "mistaken"} # {}
      BY <2>0 DEF Excused
    <3> PICK v \in Vms : v = sessions[s].vm
      BY <1>2
    <3>0. vms[v].past \subseteq vms'[v].past
      BY <1>3
    <3>1. CASE Excused(v, {"hung", "stopped", "mistaken"})
      BY <3>0, <3>1 DEF Excused
    <3>2. ASSUME NEW g \in Entries, g.vm = v, Dropped(g)
          PROVE  Excused(v, {"hung", "stopped", "mistaken"})
      <4>1. s \in Holders(v)
        BY DEF Facts, HolderFacts
      <4>2. Right(g) /\ g.state \in {"used", "unavailable"}
        BY <1>1, <3>2 DEF Dropped
      <4>3. CASE g.state = "unavailable"
        BY <3>2, <4>3 DEF Powered, Excused
      <4>4. CASE g.state = "used"
        BY <3>2, <4>1, <4>2, <4>4 DEF Tagged, Excused
      <4> QED  BY <4>2, <4>3, <4>4
    <3>3. ASSUME NEW g \in Entries, g.vm = v, NEW h \in Entries', Follows(g, h)
          PROVE  v \in Listed'
      BY <1>2, <3>3 DEF Follows, Same
    <3>4. CASE v \in Listed
      <4> PICK g \in Entries : g.vm = v
        BY <1>2, <3>4
      <4> QED  BY <1>5, <3>0, <3>2, <3>3 DEF Machinery, Excused
    <3> QED  BY <1>1, <3>1, <3>4
  <2> QED  BY <1>1, <2>1, <2>2
<1>6. CASE Recycled
  <2>1. \A s \in Sessions : Kept(s)'
    BY <1>2, <1>6 DEF Recycled, Stopped, Excused
  <2> QED  BY <1>1, <1>6, <2>1 DEF Recycled
<1>7. ASSUME Listed' = Listed, NEW s \in Sessions,
             \A t \in Sessions : t = s \/ sessions'[t] = sessions[t],
             \/ sessions'[s].vm = sessions[s].vm
             \/ sessions'[s].vm = None
             \/ sessions'[s].vm \in Listed
      PROVE  \A t \in Sessions : Kept(t)'
  <2> SUFFICES ASSUME NEW t \in Sessions, sessions'[t].vm # None,
                      sessions'[t].vm \notin Listed
               PROVE  vms'[sessions'[t].vm].past
                        \cap {"hung", "stopped", "mistaken"} # {}
    BY <1>7 DEF Excused
  <2>1. sessions'[t].vm = sessions[t].vm
    BY <1>7
  <2>2. sessions[t].vm \in Vms /\ Excused(sessions[t].vm, {"hung", "stopped", "mistaken"})
    BY <1>1, <1>2, <2>1
  <2> QED  BY <1>3, <2>1, <2>2 DEF Excused
<1>8. ASSUME NEW g \in Entries, Right(g), Holders(g.vm)' = Holders(g.vm)
      PROVE  Right(g)'
  BY <1>2, <1>3, <1>8 DEF Tagged
<1>9. ASSUME NEW s \in Sessions, Refused(s) \/ Session1(s) \/ LoggedIn(s)
      PROVE  Counted'
  <2>1. Entries' = Entries /\ Listed' = Listed
    BY <1>9, SameEntries
  <2>2. sessions'[s].vm = sessions[s].vm
    BY <1>9, OwnMachine
  <2>3. \A t \in Sessions : t = s \/ sessions'[t] = sessions[t]
    BY <1>9, OthersStay DEF SessionKind
  <2>4. ASSUME NEW g \in Entries
        PROVE  Right(g)'
    <3>1. Holders(g.vm)' = Holders(g.vm)
      BY <1>2, <1>3, <2>2, <2>3, HoldersAfter
    <3> QED  BY <1>1, <1>8, <3>1
  <2> QED  BY <1>1, <1>7, <2>1, <2>2, <2>3, <2>4
<1>10. ASSUME NEW s \in Sessions, FreedGone(s)
       PROVE  Counted'
  <2>1. Entries' = Entries /\ Listed' = Listed
    BY <1>10 DEF FreedGone, GivenBack, OnlyTagged
  <2>2. sessions'[s].vm = None /\ sessions[s].vm # None
    BY <1>10, OwnMachine DEF FreedGone
  <2>3. \A t \in Sessions : t = s \/ sessions'[t] = sessions[t]
    BY <1>10, OthersStay DEF SessionKind
  <2>4. ASSUME NEW g \in Entries
        PROVE  Right(g)'
    <3>1. g.vm # sessions[s].vm
      BY <1>10 DEF Linked, FreedGone
    <3>2. Holders(g.vm)' = Holders(g.vm)
      BY <1>2, <1>3, <2>2, <2>3, <3>1, HoldersAfter
    <3> QED  BY <1>1, <1>8, <3>2
  <2> QED  BY <1>1, <1>7, <2>1, <2>2, <2>3, <2>4
<1>11. ASSUME NEW s \in Sessions, NEW g, NEW h, Served(s, g, h)
       PROVE  Counted'
  <2>1. /\ Listed' = Listed /\ h.state = "using" /\ h.connected = g.connected + 1
    BY <1>11 DEF Served, OnlyTagged
  <2>2. sessions'[s].vm = g.vm /\ sessions[s].vm = None
    BY <1>11, OwnMachine
  <2>3. \A t \in Sessions : t = s \/ sessions'[t] = sessions[t]
    BY <1>11, OthersStay DEF SessionKind
  <2>4. /\ g \in Entries /\ h.vm = g.vm /\ g.vm \in Listed /\ g.vm \in Vms
        /\ \A e \in Entries' : e = h \/ (e \in Entries /\ e.vm # g.vm)
    BY <1>11, TurnsIs DEF Served, Facts, GuestFacts
  <2>5. Right(h)'
    <3>1. Holders(g.vm)' = Holders(g.vm) \cup {s} /\ s \notin Holders(g.vm)
      BY <1>2, <1>3, <2>2, <2>3, <2>4, HoldersAfter
    <3>2. Cardinality(Holders(g.vm)') = Cardinality(Holders(g.vm)) + 1
      BY <1>4, <2>4, <3>1, FS_AddElement
    <3>3. Right(g) /\ vms[g.vm].past \subseteq vms'[g.vm].past
      BY <1>1, <1>3, <2>4
    <3> QED  BY <2>1, <2>4, <3>2, <3>3 DEF Tagged
  <2>6. ASSUME NEW e \in Entries, e.vm # g.vm
        PROVE  Right(e)'
    <3>1. Holders(e.vm)' = Holders(e.vm)
      BY <1>2, <1>3, <2>2, <2>3, <2>6, HoldersAfter
    <3> QED  BY <1>1, <1>8, <3>1
  <2> QED  BY <1>1, <1>7, <2>1, <2>2, <2>3, <2>4, <2>5, <2>6
<1>12. ASSUME NEW s \in Sessions, NEW g, NEW h, FreedOne(s, g, h)
       PROVE  Counted'
  <2>1. /\ Listed' = Listed /\ FreedAs(g, h, sessions[s].dirty)
        /\ g.vm # sessions[s].vm =>
             \A v \in {g.vm, sessions[s].vm} : "mistaken" \in vms'[v].past
    BY <1>12 DEF FreedOne, GivenBack, OnlyTagged
  <2>2. sessions'[s].vm = None /\ sessions[s].vm # None
    BY <1>12, OwnMachine DEF FreedOne
  <2>3. \A t \in Sessions : t = s \/ sessions'[t] = sessions[t]
    BY <1>12, OthersStay DEF SessionKind
  <2>4. /\ g \in Entries /\ h.vm = g.vm /\ g.vm \in Listed /\ g.vm \in Vms
        /\ \A e \in Entries' : e = h \/ (e \in Entries /\ e.vm # g.vm)
    BY <1>12, TurnsIs DEF FreedOne, Facts, GuestFacts
  <2>5. CASE g.vm # sessions[s].vm
    <3>1. Right(h)'
      BY <2>1, <2>4, <2>5 DEF Tagged
    <3>2. ASSUME NEW e \in Entries, e.vm # g.vm
          PROVE  Right(e)'
      <4>1. CASE e.vm = sessions[s].vm
        BY <2>1, <2>5, <4>1 DEF Tagged
      <4>2. CASE e.vm # sessions[s].vm
        <5>1. Holders(e.vm)' = Holders(e.vm)
          BY <1>2, <1>3, <2>2, <2>3, <4>2, HoldersAfter
        <5> QED  BY <1>1, <1>8, <5>1
      <4> QED  BY <4>1, <4>2
    <3> QED  BY <1>1, <1>7, <2>1, <2>2, <2>3, <2>4, <3>1, <3>2
  <2>6. CASE g.vm = sessions[s].vm
    <3>1. Right(h)'
      <4>1. Holders(g.vm)' = Holders(g.vm) \ {s} /\ s \in Holders(g.vm)
        BY <1>2, <1>3, <2>2, <2>3, <2>4, <2>6, HoldersAfter
      <4>2. Cardinality(Holders(g.vm)') = Cardinality(Holders(g.vm)) - 1
            /\ IsFiniteSet(Holders(g.vm)')
        BY <1>4, <2>4, <4>1, FS_RemoveElement
      <4>3. Right(g) /\ vms[g.vm].past \subseteq vms'[g.vm].past
        BY <1>1, <1>3, <2>4
      <4>4. CASE h.connected # 0
        <5>1. h.state = g.state /\ h.connected = g.connected - 1
          BY <2>1, <4>4 DEF FreedAs
        <5> QED  BY <2>4, <4>1, <4>2, <4>3, <5>1 DEF Tagged
      <4>5. CASE h.connected = 0
        <5>1. h.connected = g.connected - 1
          BY <2>1 DEF FreedAs
        <5>2. h.connected = Cardinality(Holders(g.vm)') => Holders(g.vm)' = {}
          BY <4>2, <4>5, FS_EmptySet
        <5> QED  BY <2>4, <4>2, <4>3, <5>1, <5>2 DEF Tagged
      <4> QED  BY <4>4, <4>5
    <3>2. ASSUME NEW e \in Entries, e.vm # g.vm
          PROVE  Right(e)'
      <4>1. Holders(e.vm)' = Holders(e.vm)
        BY <1>2, <1>3, <2>2, <2>3, <2>6, <3>2, HoldersAfter
      <4> QED  BY <1>1, <1>8, <4>1
    <3> QED  BY <1>1, <1>7, <2>1, <2>2, <2>3, <2>4, <3>1, <3>2
  <2> QED  BY <2>5, <2>6
<1> QED  BY <1>5, <1>6, <1>9, <1>10, <1>11, <1>12 DEF Kind, SessionKind

-----------------------------------------------------------------------------
(* Forwarding                                                              *)

LEMMA ClientsAre ==
  ASSUME NEW id
  PROVE  IsFiniteSet(Clients(id)) /\ Cardinality(Clients(id)) \in Nat
<1>1. IsFiniteSet(Sessions) /\ Clients(id) \subseteq Sessions
  BY PoolAssumption DEF Clients
<1> QED  BY <1>1, FS_Subset, FS_CardinalityType

LEMMA ForwardedKept ==
  ASSUME Facts, Facts', Structure, Forwarded, Kind
  PROVE  Forwarded'
<1> SUFFICES ASSUME config'.nat
             PROVE  /\ \A id \in Ids : bindings'[id].count = Cardinality(Clients(id)')
                    /\ \A id \in Ids : bindings'[id].count > 0 => bindings'[id].vm \in Vms'
                    /\ \A s \in Sessions : sessions'[s].pc = "served" => LeadsToIt(s)'
  BY DEF Forwarded, Ids
<1>0. config'.nat = config.nat
  <2>1. CASE Machinery
    BY <2>1 DEF Machinery
  <2>2. CASE Recycled
    BY <2>2 DEF Recycled, Stopped
  <2>3. ASSUME NEW s \in Sessions, SessionKind(s)
        PROVE  config'.nat = config.nat
    BY <2>3 DEF SessionKind, Refused, Session1, LoggedIn, FreedGone, FreedOne,
                GivenBack, Served, OnlyTagged
  <2> QED  BY <2>1, <2>2, <2>3 DEF Kind
<1>1. /\ \A id \in Ids : bindings[id].count = Cardinality(Clients(id))
      /\ \A id \in Ids : bindings[id].count > 0 => bindings[id].vm \in Vms
      /\ \A s \in Sessions : sessions[s].pc = "served" => LeadsToIt(s)
  BY <1>0 DEF Forwarded
<1>2. \A v \in Vms : v \in Vms' /\ vms[v].past \subseteq vms'[v].past
  BY PastGrows
<1>3. \A s \in Sessions :
        /\ sessions[s].id \in Ids
        /\ sessions[s].pc = "served" => sessions[s].vm \in Vms /\ sessions[s].vm # None
  BY DEF Facts, SessionFacts, SessionOK, UsedPcs
<1>4. \A id \in Ids : bindings[id].count \in Nat
  BY DEF Structure, Shape, Binding
(* A session whose machine and whose binding stay is still led to it.      *)
<1>5. ASSUME NEW s \in Sessions, sessions[s].pc = "served",
             sessions'[s].id = sessions[s].id, sessions'[s].vm = sessions[s].vm,
             LET b == bindings[sessions[s].id]
                 c == bindings'[sessions[s].id]
             IN  /\ c.vm = b.vm
                 /\ c.open = b.open \/ "stopped" \in vms'[sessions[s].vm].past
      PROVE  LeadsToIt(s)'
  <2> PICK b : b = bindings[sessions[s].id]
    OBVIOUS
  <2> PICK c : c = bindings'[sessions[s].id]
    OBVIOUS
  <2> PICK v \in Vms : v = sessions[s].vm
    BY <1>3, <1>5
  <2>1. c.vm = b.vm /\ (c.open = b.open \/ "stopped" \in vms'[v].past)
    BY <1>5
  <2>2. \/ b.vm = v /\ (b.open \/ "stopped" \in vms[v].past)
        \/ b.vm \in Vms /\ "misled" \in vms[v].past /\ "misled" \in vms[b.vm].past
    BY <1>1, <1>5 DEF LeadsToIt, Tagged
  <2>3. \/ c.vm = v /\ (c.open \/ "stopped" \in vms'[v].past)
        \/ c.vm \in Vms' /\ "misled" \in vms'[v].past /\ "misled" \in vms'[c.vm].past
    BY <1>2, <2>1, <2>2
  <2> QED  BY <1>5, <2>3 DEF LeadsToIt, Tagged
<1>6. CASE Machinery
  <2>1. UNCHANGED <<sessions, bindings>>
    BY <1>6 DEF Machinery
  <2>2. \A id \in Ids : Clients(id)' = Clients(id)
    BY <2>1 DEF Clients
  <2>3. \A s \in Sessions : sessions'[s].pc = "served" => LeadsToIt(s)'
    BY <1>5, <2>1
  <2> QED  BY <1>1, <1>2, <2>1, <2>2, <2>3
<1>7. ASSUME Stopped,
             \/ sessions' = sessions
             \/ \E s \in Sessions : \E x : GoneIs(x) /\ Becomes(s, x) /\ sessions[s].vm = None
      PROVE  /\ \A id \in Ids : bindings'[id].count = Cardinality(Clients(id)')
             /\ \A id \in Ids : bindings'[id].count > 0 => bindings'[id].vm \in Vms'
             /\ \A s \in Sessions : sessions'[s].pc = "served" => LeadsToIt(s)'
  <2>1. /\ \A id \in Ids : bindings'[id].count = bindings[id].count
                            /\ bindings'[id].vm = bindings[id].vm
        /\ \A v \in Vms : "stopped" \in vms'[v].past
    BY <1>7 DEF Stopped
  <2>2. \A t \in Sessions :
          \/ sessions'[t] = sessions[t]
          \/ sessions'[t].vm = None /\ sessions'[t].pc = "gone" /\ sessions[t].vm = None
    BY <1>7 DEF GoneIs, Becomes
  <2>3. \A id \in Ids : Clients(id)' = Clients(id)
    BY <2>2 DEF Clients
  <2>4. ASSUME NEW s \in Sessions, sessions'[s].pc = "served"
        PROVE  LeadsToIt(s)'
    <3>1. sessions'[s] = sessions[s]
      BY <2>2, <2>4
    <3> QED  BY <1>3, <1>5, <2>1, <2>4, <3>1
  <2> QED  BY <1>1, <1>2, <2>1, <2>3, <2>4
<1>8. CASE Recycled
  BY <1>7, <1>8 DEF Recycled
<1>9. ASSUME NEW s \in Sessions, Refused(s) \/ Session1(s) \/ LoggedIn(s)
      PROVE  /\ \A id \in Ids : bindings'[id].count = Cardinality(Clients(id)')
             /\ \A id \in Ids : bindings'[id].count > 0 => bindings'[id].vm \in Vms'
             /\ \A t \in Sessions : sessions'[t].pc = "served" => LeadsToIt(t)'
  <2>1. CASE Refused(s) /\ Stopped
    <3>1. sessions[s].vm = None /\ \E x : GoneIs(x) /\ Becomes(s, x)
      BY <2>1, OwnMachine DEF Refused
    <3> QED  BY <1>7, <2>1, <3>1
  <2>2. CASE ~(Refused(s) /\ Stopped)
    <3>1. bindings' = bindings
      BY <1>9, <2>2 DEF Refused, Session1, LoggedIn
    <3>2. \A t \in Sessions : t = s \/ sessions'[t] = sessions[t]
      BY <1>9, OthersStay DEF SessionKind
    <3>3. /\ sessions'[s].vm = sessions[s].vm
          /\ sessions'[s].vm = None \/ sessions'[s].id = sessions[s].id
          /\ sessions'[s].pc = "served" => sessions[s].pc = "served"
                                           /\ sessions'[s].id = sessions[s].id
      <4>1. CASE Refused(s)
        BY <4>1, OwnMachine DEF Refused, GoneIs, Becomes
      <4>2. CASE Session1(s)
        BY <4>2 DEF Session1
      <4>3. CASE LoggedIn(s)
        <5> DEFINE x == [sessions[s] EXCEPT !.dirty = TRUE]
        <5>1. x.vm = sessions[s].vm /\ x.id = sessions[s].id /\ x.pc = sessions[s].pc
          BY DEF Facts, SessionFacts, Session
        <5>2. sessions'[s] = x
          BY <4>3 DEF LoggedIn, Becomes
        <5> HIDE DEF x
        <5> QED  BY <5>1, <5>2
      <4> QED  BY <1>9, <4>1, <4>2, <4>3
    <3>4. \A id \in Ids : Clients(id)' = Clients(id)
      BY <3>2, <3>3 DEF Clients
    <3>5. ASSUME NEW t \in Sessions, sessions'[t].pc = "served"
          PROVE  LeadsToIt(t)'
      BY <1>5, <3>1, <3>2, <3>3, <3>5
    <3> QED  BY <1>1, <1>2, <3>1, <3>4, <3>5
  <2> QED  BY <2>1, <2>2
<1>10. ASSUME NEW s \in Sessions, GivenBack(s)
       PROVE  /\ \A id \in Ids : bindings'[id].count = Cardinality(Clients(id)')
              /\ \A id \in Ids : bindings'[id].count > 0 => bindings'[id].vm \in Vms'
              /\ \A t \in Sessions : sessions'[t].pc = "served" => LeadsToIt(t)'
  <2> PICK n \in Ids : n = sessions[s].id
    BY <1>3
  <2>1. /\ bindings[n].count > 0 /\ bindings'[n].count = bindings[n].count - 1
        /\ \A id \in Ids : id # n => bindings'[id] = bindings[id]
        /\ bindings'[n].count > 0 => bindings'[n].open = bindings[n].open
                                     /\ bindings'[n].vm = bindings[n].vm
    BY <1>0, <1>10 DEF GivenBack, Unbound
  <2>2. /\ sessions'[s].vm = None /\ sessions[s].vm # None /\ sessions'[s].pc = "gone"
    BY <1>10, OwnMachine DEF GivenBack, GoneIs, Becomes
  <2>3. \A t \in Sessions : t = s \/ sessions'[t] = sessions[t]
    BY <1>10 DEF GivenBack, Becomes
  <2>4. /\ Clients(n)' = Clients(n) \ {s} /\ s \in Clients(n)
        /\ \A id \in Ids : id # n => Clients(id)' = Clients(id)
    BY <2>2, <2>3 DEF Clients
  <2>5. Cardinality(Clients(n)') = Cardinality(Clients(n)) - 1
    BY <2>4, ClientsAre, FS_RemoveElement
  <2>6. ASSUME NEW t \in Sessions, sessions'[t].pc = "served"
        PROVE  LeadsToIt(t)'
    <3>1. t # s /\ sessions'[t] = sessions[t] /\ sessions[t].id \in Ids
      BY <1>3, <2>2, <2>3, <2>6
    <3>2. /\ bindings'[sessions[t].id].vm = bindings[sessions[t].id].vm
          /\ bindings'[sessions[t].id].open = bindings[sessions[t].id].open
      <4>1. CASE sessions[t].id # n
        BY <2>1, <3>1, <4>1
      <4>2. CASE sessions[t].id = n
        <5>1. t \in Clients(n) \ {s}
          BY <1>3, <2>6, <3>1, <4>2 DEF Clients
        <5>2. Cardinality(Clients(n)') # 0 /\ Cardinality(Clients(n)) \in Nat
          BY <2>4, <5>1, ClientsAre, FS_RemoveElement, FS_EmptySet
        <5>3. bindings'[n].count > 0
          BY <1>1, <2>1, <2>5, <5>2
        <5> QED  BY <2>1, <4>2, <5>3
      <4> QED  BY <4>1, <4>2
    <3> QED  BY <1>5, <2>6, <3>1, <3>2
  <2>7. \A id \in Ids : bindings'[id].count = Cardinality(Clients(id)')
    BY <1>1, <2>1, <2>4, <2>5
  <2>8. \A id \in Ids : bindings'[id].count > 0 => bindings'[id].vm \in Vms'
    BY <1>1, <1>2, <2>1
  <2> QED  BY <2>6, <2>7, <2>8
<1>11. ASSUME NEW s \in Sessions, NEW g, NEW h, Served(s, g, h)
       PROVE  /\ \A id \in Ids : bindings'[id].count = Cardinality(Clients(id)')
              /\ \A id \in Ids : bindings'[id].count > 0 => bindings'[id].vm \in Vms'
              /\ \A t \in Sessions : sessions'[t].pc = "served" => LeadsToIt(t)'
  <2>0. g \in Entries /\ g.vm \in Vms /\ g.vm \in Vms' /\ g.id \in Ids
    BY <1>2, <1>11 DEF Served, Turns, Facts, GuestFacts
  <2> PICK n \in Ids : n = g.id
    BY <2>0
  <2>1. /\ bindings'[n].count = bindings[n].count + 1
        /\ \A id \in Ids : id # n => bindings'[id] = bindings[id]
        /\ bindings[n].count > 0 =>
             /\ bindings'[n].open = bindings[n].open /\ bindings'[n].vm = bindings[n].vm
             /\ bindings[n].vm # g.vm =>
                  \A v \in Vms \cap {g.vm, bindings[n].vm} : "misled" \in vms'[v].past
        /\ ~(bindings[n].count > 0) => bindings'[n].open /\ bindings'[n].vm = g.vm
    BY <1>0, <1>11 DEF Served, Bound
  <2>2. /\ sessions'[s].vm = g.vm /\ sessions[s].vm = None /\ sessions'[s].id = n
        /\ sessions'[s].pc = "served" => bindings'[n].open
    BY <1>0, <1>11, OwnMachine DEF Served, Becomes
  <2>3. \A t \in Sessions : t = s \/ sessions'[t] = sessions[t]
    BY <1>11, OthersStay DEF SessionKind
  <2>4. /\ Clients(n)' = Clients(n) \cup {s} /\ s \notin Clients(n)
        /\ \A id \in Ids : id # n => Clients(id)' = Clients(id)
    <3>1. g.vm # None
      BY <2>0 DEF Facts, GuestFacts
    <3> QED  BY <2>2, <2>3, <3>1 DEF Clients
  <2>5. Cardinality(Clients(n)') = Cardinality(Clients(n)) + 1
    BY <2>4, ClientsAre, FS_AddElement
  <2>6. ASSUME sessions'[s].pc = "served"
        PROVE  LeadsToIt(s)'
    <3>1. CASE ~(bindings[n].count > 0) \/ bindings[n].vm = g.vm
      BY <2>1, <2>2, <2>6, <3>1 DEF LeadsToIt
    <3>2. CASE bindings[n].count > 0 /\ bindings[n].vm # g.vm
      <4>1. bindings[n].vm \in Vms
        BY <1>1, <3>2
      <4>2. "misled" \in vms'[g.vm].past /\ "misled" \in vms'[bindings'[n].vm].past
            /\ bindings'[n].vm \in Vms'
        BY <1>2, <2>0, <2>1, <3>2, <4>1
      <4> QED  BY <2>2, <4>2 DEF LeadsToIt, Tagged
    <3> QED  BY <3>1, <3>2
  <2>7. ASSUME NEW t \in Sessions, t # s, sessions'[t].pc = "served"
        PROVE  LeadsToIt(t)'
    <3>1. sessions'[t] = sessions[t] /\ sessions[t].id \in Ids
      BY <1>3, <2>3, <2>7
    <3>2. /\ bindings'[sessions[t].id].vm = bindings[sessions[t].id].vm
          /\ bindings'[sessions[t].id].open = bindings[sessions[t].id].open
      <4>1. CASE sessions[t].id # n
        BY <2>1, <3>1, <4>1
      <4>2. CASE sessions[t].id = n
        <5>1. t \in Clients(n)
          BY <1>3, <2>7, <3>1, <4>2 DEF Clients
        <5>2. Cardinality(Clients(n)) \in Nat /\ Cardinality(Clients(n)) # 0
          BY <5>1, ClientsAre, FS_EmptySet
        <5>3. bindings[n].count > 0
          BY <1>1, <5>2
        <5> QED  BY <2>1, <4>2, <5>3
      <4> QED  BY <4>1, <4>2
    <3> QED  BY <1>5, <2>7, <3>1, <3>2
  <2>8. \A id \in Ids : bindings'[id].count = Cardinality(Clients(id)')
    BY <1>1, <2>1, <2>4, <2>5
  <2>9. \A id \in Ids : bindings'[id].count > 0 => bindings'[id].vm \in Vms'
    BY <1>1, <1>2, <2>0, <2>1
  <2> QED  BY <2>6, <2>7, <2>8, <2>9
<1> QED  BY <1>6, <1>8, <1>9, <1>10, <1>11 DEF Kind, SessionKind, FreedGone, FreedOne

-----------------------------------------------------------------------------
(* Pristine machines                                                       *)

(* A login that reaches another machine than its own reaches a tagged one. *)
LEMMA LoginReaches ==
  ASSUME Facts, Forwarded, NEW s \in Sessions, LoggedIn(s)
  PROVE  Reached(s) = sessions[s].vm \/ Tagged(Reached(s), "misled")
<1>1. sessions[s].pc = "served"
  BY DEF LoggedIn
<1>2. CASE ~config.nat
  BY <1>2 DEF Reached
<1>3. CASE config.nat
  BY <1>1, <1>3 DEF Reached, Forwarded, LeadsToIt
<1> QED  BY <1>2, <1>3

LEMMA PristineKept ==
  ASSUME Facts, Facts', Remembered, Linked, Counted, Forwarded, Pristine, Kind
  PROVE  Pristine'
<1> DEFINE Clean(g) ==
             \/ Excused(g.vm, Misplaced)
             \/ /\ g.state \in {"created", "available"} => ~vms[g.vm].dirty
                /\ g.prev = "available" /\ vms[g.vm].dirty =>
                     \A s \in Holders(g.vm) : sessions[s].dirty
           Fine(v) == ~vms[v].dirty \/ Excused(v, Misplaced)
<1>1. /\ \A g \in Entries : Clean(g)
      /\ \A v \in Vms \cap InHand : Fine(v)
      /\ Pristine' <=> (\A g \in Entries' : Clean(g)') /\ (\A v \in Vms' \cap InHand' : Fine(v)')
  BY DEF Pristine, Misplaced
<1>2. /\ \A g \in Entries : g.vm \in Vms /\ g \in Guest /\ g.connected \in Int
      /\ \A g \in Entries' : g.vm \in Vms'
      /\ \A s \in Sessions : sessions[s].vm # None => sessions[s].vm \in Vms
      /\ \A s \in Sessions : sessions[s] \in Session
      /\ None \notin Vms
  BY DEF Facts, GuestFacts, SessionFacts
<1>3. \A v \in Vms : v \in Vms' /\ vms[v].past \subseteq vms'[v].past
  BY PastGrows
<1>4. CASE Machinery
  <2>1. /\ sessions' = sessions /\ \A v : Holders(v)' = Holders(v)
        /\ \A v \in Vms : vms'[v].dirty => vms[v].dirty
    BY <1>4 DEF Machinery, Holders, Aged
  <2>2. ASSUME NEW h \in Entries'
        PROVE  Clean(h)'
    <3>1. CASE Fresh(h)
      <4>1. h.prev = "none" /\ (h.vm \in InHand \/ h.vm \notin Vms) /\ h.vm \in Vms'
        BY <1>2, <3>1 DEF Fresh
      <4>2. CASE h.vm \in Vms
        <5>1. Fine(h.vm)
          BY <1>1, <4>1, <4>2
        <5> QED  BY <1>3, <2>1, <4>1, <4>2, <5>1 DEF Excused, Misplaced
      <4>3. CASE h.vm \notin Vms
        <5>1. vms'[h.vm] = NewVm
          BY <1>4, <4>1, <4>3 DEF Machinery
        <5> QED  BY <4>1, <5>1 DEF NewVm
      <4> QED  BY <4>2, <4>3
    <3>2. ASSUME NEW g \in Entries, Follows(g, h)
          PROVE  Clean(h)'
      <4>1. /\ Clean(g) /\ h.vm = g.vm /\ h.prev = g.prev /\ g.vm \in Vms
            /\ h.state \in {"created", "available"} =>
                 g.state \in {"created", "available"}
        BY <1>1, <1>2, <3>2 DEF Follows, Same
      <4>2. CASE Excused(g.vm, Misplaced)
        BY <1>3, <4>1, <4>2 DEF Excused, Misplaced
      <4>3. CASE ~Excused(g.vm, Misplaced)
        BY <2>1, <4>1, <4>3
      <4> QED  BY <4>2, <4>3
    <3> QED  BY <1>4, <3>1, <3>2 DEF Machinery
  <2>3. ASSUME NEW v \in Vms' \cap InHand'
        PROVE  Fine(v)'
    <3>1. CASE v \in Vms
      <4>1. Fine(v)
        BY <1>1, <1>4, <3>1 DEF Machinery
      <4> QED  BY <1>3, <2>1, <3>1, <4>1 DEF Excused, Misplaced
    <3>2. CASE v \notin Vms
      BY <1>4, <3>2 DEF Machinery, NewVm
    <3> QED  BY <3>1, <3>2
  <2> QED  BY <1>1, <2>2, <2>3
<1>5. CASE Recycled
  BY <1>1, <1>5 DEF Recycled, Stopped
(* A guest that does not change, of whose machine no more holders are      *)
(* left or are less dirty, and that is not logged in to.                   *)
<1>6. ASSUME NEW g \in Entries, vms'[g.vm].dirty => vms[g.vm].dirty,
             \A t \in Holders(g.vm)' :
               t \in Holders(g.vm) /\ (sessions[t].dirty => sessions'[t].dirty)
      PROVE  Clean(g)'
  <2>1. Clean(g) /\ vms[g.vm].past \subseteq vms'[g.vm].past
    BY <1>1, <1>2, <1>3
  <2>2. CASE Excused(g.vm, Misplaced)
    BY <2>1, <2>2 DEF Excused, Misplaced
  <2>3. CASE ~Excused(g.vm, Misplaced)
    BY <1>6, <2>1, <2>3
  <2> QED  BY <2>2, <2>3
<1>7. ASSUME Vms' = Vms, \A v \in Vms : v \in InHand' <=> v \in InHand,
             \A v \in Vms : vms'[v].dirty => vms[v].dirty
      PROVE  \A v \in Vms' \cap InHand' : Fine(v)'
  BY <1>1, <1>3, <1>7 DEF Excused, Misplaced
<1>8. ASSUME NEW s \in Sessions, Refused(s) \/ Session1(s)
      PROVE  Pristine'
  <2>1. Entries' = Entries
    BY <1>8, SameEntries
  <2>2. \A t \in Sessions : t = s \/ sessions'[t] = sessions[t]
    BY <1>8, OthersStay DEF SessionKind
  <2>3. sessions'[s].vm = sessions[s].vm
    BY <1>8, OwnMachine
  <2>4. sessions'[s].dirty = sessions[s].dirty \/ sessions[s].vm = None
    BY <1>8, OwnMachine DEF Session1
  <2>5. /\ Vms' = Vms /\ \A v \in Vms : v \in InHand' <=> v \in InHand
        /\ \A v \in Vms : vms'[v].dirty => vms[v].dirty
    BY <1>8 DEF Refused, Session1, Stopped, InHand, Vms
  <2>6. ASSUME NEW g \in Entries
        PROVE  Clean(g)'
    <3>1. /\ Holders(g.vm)' = Holders(g.vm)
          /\ s \in Holders(g.vm) <=> sessions[s].vm = g.vm
      BY <1>2, <1>3, <2>2, <2>3, HoldersAfter
    <3>2. \A t \in Holders(g.vm)' : sessions[t].dirty => sessions'[t].dirty
      BY <1>2, <2>2, <2>4, <3>1 DEF Holders
    <3> QED  BY <1>2, <1>6, <2>5, <3>1, <3>2
  <2> QED  BY <1>1, <1>7, <2>1, <2>5, <2>6
<1>9. ASSUME NEW s \in Sessions, LoggedIn(s)
      PROVE  Pristine'
  <2>1. Entries' = Entries /\ InHand' = InHand /\ Vms' = Vms
        /\ \A v \in Vms : /\ vms'[v].past = vms[v].past
                          /\ vms'[v].dirty = (vms[v].dirty \/ v = Reached(s))
    BY <1>9, SameEntries DEF LoggedIn, InHand
  <2>2. \A t \in Sessions : t = s \/ sessions'[t] = sessions[t]
    BY <1>9, OthersStay DEF SessionKind
  <2>3. sessions'[s].vm = sessions[s].vm /\ sessions[s].vm # None
    BY <1>9, OwnMachine
  <2>4. sessions'[s].dirty
    <3> DEFINE x == [sessions[s] EXCEPT !.dirty = TRUE]
    <3>1. x.dirty
      BY <1>2 DEF Session
    <3>2. sessions'[s] = x
      BY <1>9 DEF LoggedIn, Becomes
    <3> HIDE DEF x
    <3> QED  BY <3>1, <3>2
  <2>5. Reached(s) = sessions[s].vm \/ Tagged(Reached(s), "misled")
    BY <1>9, LoginReaches
  <2>6. ASSUME NEW g \in Entries
        PROVE  Clean(g)'
    <3>1. Holders(g.vm)' = Holders(g.vm)
          /\ (s \in Holders(g.vm) <=> sessions[s].vm = g.vm)
      BY <1>2, <1>3, <2>2, <2>3, HoldersAfter
    <3>2. CASE g.vm # Reached(s)
      <4>1. vms'[g.vm].dirty => vms[g.vm].dirty
        BY <1>2, <2>1, <3>2
      <4>2. \A t \in Holders(g.vm)' : sessions[t].dirty => sessions'[t].dirty
        BY <2>2, <2>4 DEF Holders
      <4> QED  BY <1>6, <3>1, <4>1, <4>2
    <3>3. CASE g.vm = Reached(s) /\ Tagged(g.vm, "misled")
      BY <1>2, <2>1, <3>3 DEF Tagged, Excused, Misplaced
    <3>4. CASE g.vm = sessions[s].vm /\ ~Tagged(g.vm, "mistaken")
      <4>1. s \in Holders(g.vm)
        BY <3>1, <3>4
      <4>2. /\ g.connected = Cardinality(Holders(g.vm))
            /\ g.state \in {"using", "unavailable"}
        BY <3>4, <4>1 DEF Counted
      <4>3. g.prev = "available" => Holders(g.vm) = {s}
        <5> SUFFICES ASSUME g.prev = "available"
                     PROVE  Holders(g.vm) = {s}
          OBVIOUS
        <5>1. IsFiniteSet(Holders(g.vm)) /\ Cardinality(Holders(g.vm)) \in Nat
          BY <1>2 DEF Facts, HolderFacts
        <5>2. Cardinality(Holders(g.vm)) =< 1
          BY <4>2 DEF Remembered
        <5>3. /\ Cardinality(Holders(g.vm) \ {s}) = Cardinality(Holders(g.vm)) - 1
              /\ IsFiniteSet(Holders(g.vm) \ {s})
          BY <4>1, <5>1, FS_RemoveElement
        <5>4. Cardinality(Holders(g.vm) \ {s}) \in Nat
          BY <5>3, FS_CardinalityType
        <5>5. Holders(g.vm) \ {s} = {}
          BY <5>1, <5>2, <5>3, <5>4, FS_EmptySet
        <5> QED  BY <4>1, <5>5
      <4> QED  BY <2>4, <3>1, <4>2, <4>3
    <3>5. CASE Tagged(g.vm, "mistaken")
      BY <1>2, <2>1, <3>5 DEF Tagged, Excused, Misplaced
    <3> QED  BY <2>5, <3>2, <3>3, <3>4, <3>5
  <2>7. ASSUME NEW v \in Vms' \cap InHand'
        PROVE  Fine(v)'
    <3>1. Fine(v) /\ v # sessions[s].vm
      BY <1>1, <2>1, <2>3 DEF Linked
    <3> QED  BY <2>1, <2>5, <3>1 DEF Tagged, Excused, Misplaced
  <2> QED  BY <1>1, <2>1, <2>6, <2>7
<1>10. ASSUME OnlyTagged
       PROVE  /\ \A v \in Vms' \cap InHand' : Fine(v)'
              /\ \A v \in Vms : vms'[v].dirty = vms[v].dirty
  BY <1>7, <1>10 DEF OnlyTagged
<1>11. ASSUME NEW s \in Sessions, NEW g \in Entries,
              \A t \in Sessions : t = s \/ sessions'[t] = sessions[t],
              sessions'[s].vm # g.vm, OnlyTagged
       PROVE  Clean(g)'
  <2>1. /\ Holders(g.vm)' = Holders(g.vm) \ {s}
        /\ s \notin Holders(g.vm)'
    BY <1>2, <1>3, <1>11, HoldersAfter
  <2>2. \A t \in Holders(g.vm)' :
          t \in Holders(g.vm) /\ (sessions[t].dirty => sessions'[t].dirty)
    BY <1>11, <2>1 DEF Holders
  <2> QED  BY <1>2, <1>6, <1>10, <1>11, <2>2
<1>12. ASSUME NEW s \in Sessions, FreedGone(s)
       PROVE  Pristine'
  <2>1. Entries' = Entries /\ OnlyTagged /\ sessions'[s].vm = None
    BY <1>12, OwnMachine DEF FreedGone, GivenBack
  <2>2. \A t \in Sessions : t = s \/ sessions'[t] = sessions[t]
    BY <1>12, OthersStay DEF SessionKind
  <2> QED  BY <1>1, <1>2, <1>10, <1>11, <2>1, <2>2
<1>13. ASSUME NEW s \in Sessions, NEW g, NEW h, Served(s, g, h)
       PROVE  Pristine'
  <2>1. OnlyTagged /\ h.state = "using" /\ h.prev = g.state /\ sessions'[s].vm = g.vm
    BY <1>13, OwnMachine DEF Served
  <2>2. \A t \in Sessions : t = s \/ sessions'[t] = sessions[t]
    BY <1>13, OthersStay DEF SessionKind
  <2>3. /\ g \in Entries /\ h.vm = g.vm /\ g.vm \in Vms
        /\ \A e \in Entries' : e = h \/ (e \in Entries /\ e.vm # g.vm)
    BY <1>2, <1>13, TurnsIs DEF Served
  <2>4. Clean(h)'
    <3>1. Clean(g) /\ vms[g.vm].past \subseteq vms'[g.vm].past
          /\ vms'[g.vm].dirty = vms[g.vm].dirty
      BY <1>1, <1>3, <1>10, <2>1, <2>3
    <3>2. CASE Excused(g.vm, Misplaced)
      BY <2>3, <3>1, <3>2 DEF Excused, Misplaced
    <3>3. CASE ~Excused(g.vm, Misplaced)
      BY <2>1, <2>3, <3>1, <3>3
    <3> QED  BY <3>2, <3>3
  <2>5. ASSUME NEW e \in Entries, e.vm # g.vm
        PROVE  Clean(e)'
    BY <1>11, <2>1, <2>2, <2>5
  <2> QED  BY <1>1, <1>10, <2>1, <2>3, <2>4, <2>5
<1>14. ASSUME NEW s \in Sessions, NEW g, NEW h, FreedOne(s, g, h)
       PROVE  Pristine'
  <2>1. /\ OnlyTagged /\ FreedAs(g, h, sessions[s].dirty)
        /\ sessions'[s].vm = None
        /\ g.vm # sessions[s].vm => "mistaken" \in vms'[g.vm].past
    BY <1>14, OwnMachine DEF FreedOne, GivenBack
  <2>2. \A t \in Sessions : t = s \/ sessions'[t] = sessions[t]
    BY <1>14, OthersStay DEF SessionKind
  <2>3. /\ g \in Entries /\ h.vm = g.vm /\ g.vm \in Vms
        /\ \A e \in Entries' : e = h \/ (e \in Entries /\ e.vm # g.vm)
    BY <1>2, <1>14, TurnsIs DEF FreedOne
  <2>4. Clean(h)'
    <3>1. Clean(g) /\ vms[g.vm].past \subseteq vms'[g.vm].past
          /\ vms'[g.vm].dirty = vms[g.vm].dirty
      BY <1>1, <1>3, <1>10, <2>1, <2>3
    <3>2. CASE Excused(g.vm, Misplaced)
      BY <2>3, <3>1, <3>2 DEF Excused, Misplaced
    <3>3. CASE g.vm # sessions[s].vm
      BY <2>1, <2>3, <3>3 DEF Excused, Misplaced
    <3>4. CASE ~Excused(g.vm, Misplaced) /\ g.vm = sessions[s].vm
      <4>1. /\ s \in Holders(g.vm)
            /\ \A t \in Holders(g.vm)' : t \in Holders(g.vm) /\ t # s
        BY <1>2, <1>3, <2>1, <2>2, <2>3, <3>4, HoldersAfter
      <4>2. \A t \in Holders(g.vm)' : sessions'[t] = sessions[t]
        BY <2>2, <4>1 DEF Holders
      <4>3. g.prev \in {"none"} \cup Usable
        BY <1>2, <2>3 DEF Guest
      <4>4. CASE h.connected # 0
        <5>1. h.state = g.state /\ h.prev = g.prev
          BY <2>1, <4>4 DEF FreedAs
        <5> QED  BY <2>3, <3>1, <3>4, <4>1, <4>2, <5>1
      <4>5. CASE h.connected = 0 /\ sessions[s].dirty
        <5>1. h.state = "used" /\ h.prev = g.prev
          BY <2>1, <4>5 DEF FreedAs
        <5> QED  BY <2>3, <3>1, <3>4, <4>1, <4>2, <5>1
      <4>6. CASE h.connected = 0 /\ ~sessions[s].dirty
        <5>1. h.state = g.prev /\ h.prev = "none"
          BY <2>1, <4>6 DEF FreedAs
        <5>2. g.prev = "available" => ~vms[g.vm].dirty
          BY <3>1, <3>4, <4>1, <4>6
        <5> QED  BY <2>3, <3>1, <4>3, <5>1, <5>2 DEF Usable
      <4> QED  BY <4>4, <4>5, <4>6
    <3> QED  BY <3>2, <3>3, <3>4
  <2>5. ASSUME NEW e \in Entries, e.vm # g.vm
        PROVE  Clean(e)'
    BY <1>2, <1>11, <2>1, <2>2
  <2> QED  BY <1>1, <1>10, <2>1, <2>3, <2>4, <2>5
<1> QED  BY <1>4, <1>5, <1>8, <1>9, <1>12, <1>13, <1>14 DEF Kind, SessionKind

-----------------------------------------------------------------------------
(* One address, one machine                                                *)

LEMMA ConsistentKept ==
  ASSUME Facts, Facts', Remembered, Powered, Consistent, Kind
  PROVE  Consistent'
<1> DEFINE Apart(g, h) ==
             \/ h.vm = g.vm \/ Excused(g.vm, Moved) \/ Excused(h.vm, Moved)
             \/ h.ips \cap g.ips = {}
           Busy(g) == \/ g.ips = {} \/ Excused(g.vm, Moved)
                      \/ g.state \in {"using", "used"}
<1>1. /\ \A g \in Entries : Busy(g) /\ \A h \in Entries : Apart(g, h)
      /\ Consistent' <=> \A g \in Entries' : Busy(g)' /\ \A h \in Entries' : Apart(g, h)'
  BY DEF Consistent
<1>2. \A g \in Entries : g.vm \in Vms /\ g \in Guest /\ vms[g.vm] \in Machine
  BY DEF Facts, GuestFacts
<1>3. \A v \in Vms : \A S : Excused(v, S) => vms'[v].past \cap S # {}
  BY PastGrows DEF Excused
<1>4. CASE Machinery
  <2>1. ASSUME NEW h \in Entries'
        PROVE  h.ips = {} \/ \E g \in Entries : Follows(g, h)
    BY <1>4, <2>1 DEF Machinery, Fresh
  <2>2. ASSUME NEW g \in Entries, NEW h, Follows(g, h)
        PROVE  Busy(h)'
    <3>1. Busy(g) /\ h.vm = g.vm /\ h.ips = g.ips
      BY <1>1, <2>2 DEF Follows, Same
    <3>2. CASE g.ips = {}
      BY <3>1, <3>2
    <3>3. CASE Excused(g.vm, Moved)
      BY <1>2, <1>3, <3>1, <3>3 DEF Excused, Moved
    <3>4. CASE g.state \in {"using", "used"} /\ h.state = g.state
      BY <3>1, <3>4
    <3>5. CASE g.state \in {"using", "used"} /\ h.state # g.state
      <4>1. vms[g.vm].power # "up" /\ g.state # "created"
        BY <2>2, <3>5 DEF Follows
      <4>2. vms[g.vm].power \in {"hung", "gone"} /\ g.vm \in Listed
        BY <1>2, <4>1 DEF Powered, Machine, Facts, GuestFacts
      <4>3. Excused(g.vm, Moved)
        BY <1>2, <4>2 DEF Powered, Tagged, Excused, Moved
      <4> QED  BY <1>2, <1>3, <3>1, <4>3 DEF Excused, Moved
    <3> QED  BY <3>1, <3>2, <3>3, <3>4, <3>5
  <2>3. ASSUME NEW g \in Entries, NEW e \in Entries, NEW h, NEW f,
               Follows(g, h), Follows(e, f)
        PROVE  Apart(h, f)'
    <3>1. /\ Apart(g, e) /\ h.vm = g.vm /\ h.ips = g.ips /\ f.vm = e.vm /\ f.ips = e.ips
      BY <1>1, <2>3 DEF Follows, Same
    <3> QED  BY <1>2, <1>3, <3>1 DEF Excused, Moved
  <2>4. ASSUME NEW h \in Entries'
        PROVE  Busy(h)' /\ \A f \in Entries' : Apart(h, f)'
    BY <2>1, <2>2, <2>3
  <2> QED  BY <1>1, <2>4
<1>5. CASE Recycled
  BY <1>1, <1>5 DEF Recycled
(* Guests that stay as they are, or change nothing but their counters.     *)
<1>6. ASSUME NEW g \in Entries, NEW h \in Entries
      PROVE  Busy(g)' /\ Apart(g, h)'
  BY <1>1, <1>2, <1>3 DEF Excused, Moved
<1>7. ASSUME Entries' = Entries
      PROVE  Consistent'
  BY <1>1, <1>6, <1>7
<1>8. ASSUME NEW g, NEW h, Turns(g, h), Busy(h)',
             \A e \in Entries : e.vm # g.vm => Apart(h, e)'
      PROVE  Consistent'
  <2>1. /\ g \in Entries /\ h.vm = g.vm
        /\ \A e \in Entries' : e = h \/ (e \in Entries /\ e.vm # g.vm)
    BY <1>8, TurnsIs
  <2>2. ASSUME NEW e \in Entries', NEW f \in Entries'
        PROVE  Busy(e)' /\ Apart(e, f)'
    <3>1. CASE e = h /\ f = h
      BY <1>8, <3>1
    <3>2. CASE e = h /\ f \in Entries /\ f.vm # g.vm
      BY <1>8, <3>2
    <3>3. CASE f = h /\ e \in Entries /\ e.vm # g.vm
      <4>1. Apart(h, e)' /\ Busy(e)'
        BY <1>6, <1>8, <3>3
      <4> QED  BY <3>3, <4>1
    <3>4. CASE e \in Entries /\ f \in Entries
      BY <1>6, <3>4
    <3> QED  BY <2>1, <3>1, <3>2, <3>3, <3>4
  <2> QED  BY <1>1, <2>2
<1>9. ASSUME NEW s \in Sessions, NEW g, NEW h, FreedOne(s, g, h)
      PROVE  Consistent'
  <2>1. /\ Turns(g, h) /\ FreedAs(g, h, sessions[s].dirty)
        /\ g.vm # sessions[s].vm => "mistaken" \in vms'[g.vm].past
        /\ g.vm = sessions[s].vm /\ h.state = "available" => "reused" \in vms'[g.vm].past
    BY <1>9 DEF FreedOne
  <2>2. /\ g \in Entries /\ h.vm = g.vm /\ h.ips = g.ips
        /\ g.prev \in {"none"} \cup Usable /\ g.connected \in Int
        /\ g.prev = "none" => g.connected =< 0
    BY <1>2, <2>1, TurnsIs DEF FreedAs, Guest, Remembered
  <2>3. h.state \in {g.state, "used", "using"} \/ h.state = "available"
    BY <2>1, <2>2 DEF FreedAs, Usable
  <2>4. h.state = "available" => vms'[g.vm].past \cap Moved # {}
    BY <2>1 DEF Moved
  <2>5. Busy(h)'
    <3>1. Busy(g)'
      BY <1>6, <2>2
    <3> QED  BY <2>2, <2>3, <2>4, <3>1 DEF Excused, Moved
  <2>6. \A e \in Entries : Apart(h, e)'
    BY <1>6, <2>2
  <2> QED  BY <1>8, <2>1, <2>5, <2>6
<1>10. ASSUME NEW s \in Sessions, NEW g, NEW h, Served(s, g, h)
       PROVE  Consistent'
  <2> PICK ip : ip = sessions[s].ip
    OBVIOUS
  <2>1. /\ Turns(g, h) /\ h.state = "using" /\ h.ips = g.ips \cup {ip}
        /\ \/ ip \in g.ips
           \/ \A e \in Entries : e.state \in {"using", "used"} => ip \notin e.ips
    BY <1>10 DEF Served
  <2>2. g \in Entries /\ h.vm = g.vm
    BY <2>1, TurnsIs
  <2>3. ASSUME NEW e \in Entries, e.vm # g.vm
        PROVE  Apart(h, e)'
    <3>1. Apart(g, e) /\ Busy(e)
      BY <1>1, <2>2
    <3>2. CASE Excused(g.vm, Moved) \/ Excused(e.vm, Moved)
      BY <1>2, <1>3, <2>2, <3>2 DEF Excused, Moved
    <3>3. CASE ~Excused(g.vm, Moved) /\ ~Excused(e.vm, Moved)
      <4>1. e.ips \cap g.ips = {} /\ (e.ips = {} \/ e.state \in {"using", "used"})
        BY <2>3, <3>1, <3>3
      <4>2. e.ips \cap h.ips = {}
        BY <2>1, <4>1
      <4> QED  BY <4>2
    <3> QED  BY <3>2, <3>3
  <2> QED  BY <1>8, <2>1, <2>3
<1>11. ASSUME NEW s \in Sessions,
              Refused(s) \/ Session1(s) \/ LoggedIn(s) \/ FreedGone(s)
       PROVE  Consistent'
  BY <1>7, <1>11, SameEntries DEF FreedGone
<1> QED  BY <1>4, <1>5, <1>9, <1>10, <1>11 DEF Kind, SessionKind

-----------------------------------------------------------------------------
(* The inductive invariant                                                 *)

Inv ==
  /\ Structure /\ Remembered /\ Bounded /\ Linked /\ Powered /\ NoOrphans
  /\ Counted /\ Forwarded /\ Pristine /\ Consistent

LEMMA InitInv == Init => Inv
<1> SUFFICES ASSUME Init
             PROVE  Inv
  OBVIOUS
<1>1. /\ guests = << >> /\ nextId = 0 /\ anyUp = FALSE /\ ready = TRUE
      /\ nextCall = None /\ vms = << >>
      /\ bindings = [id \in Ids |-> NoBinding]
      /\ sessions = [s \in Sessions |-> NoSession]
      /\ chains = <<[pc |-> "begin", left |-> 0, vm |-> None]>>
  BY DEF Init, Ids
<1>2. Len(guests) = 0 /\ Vms = {} /\ Entries = {} /\ Listed = {}
  BY <1>1 DEF Vms, Entries, Listed
<1>3. 0 \in Ids
  BY PoolAssumption DEF Ids
<1>4. /\ NoSession \in Session /\ NoSession.vm = None /\ NoSession.pc = "new"
      /\ ~NoSession.dirty
  BY <1>3 DEF NoSession, Session, None
<1>5. NoBinding \in Binding /\ NoBinding.count = 0
  BY DEF NoBinding, Binding, None
<1>6. \A s \in Sessions : sessions[s] = NoSession
  BY <1>1
<1>7. config \in Config
  <2>1. PICK nat \in NatModes :
          config = [max |-> DefaultSize, share |-> TRUE, set |-> FALSE, nat |-> nat]
    BY DEF Init
  <2> QED  BY <2>1, PoolAssumption DEF Config
<1>8. /\ chains \in Seq(Chain) /\ Len(chains) = 1
      /\ \A c \in 1..Len(chains) : chains[c].vm = None /\ chains[c].pc = "begin"
  BY <1>1 DEF Chain, None
<1>9. SessionsOK
  BY <1>4, <1>6 DEF SessionsOK, UsedPcs
<1>10. Shape
  BY <1>1, <1>3, <1>4, <1>5, <1>7, <1>8, <1>9 DEF Shape
<1>11. Structure
  BY <1>1, <1>2, <1>8, <1>10 DEF Structure, Distinct, Hands, Off
<1>12. InHand \subseteq {None}
  BY <1>8 DEF InHand
<1>13. Remembered /\ Bounded /\ Linked /\ Powered /\ NoOrphans /\ Pristine /\ Consistent
  BY <1>2, <1>4, <1>6
     DEF Remembered, Bounded, Linked, Powered, NoOrphans, Pristine, Consistent
<1>14. Counted
  BY <1>2, <1>4, <1>6 DEF Counted
<1>15. Forwarded
  <2>1. \A id \in Ids : Clients(id) = {}
    BY <1>4, <1>6 DEF Clients
  <2>2. \A id \in Ids : bindings[id].count = 0
    BY <1>1, <1>5
  <2>3. \A s \in Sessions : sessions[s].pc # "served"
    BY <1>4, <1>6
  <2>4. Cardinality({}) = 0
    BY FS_EmptySet
  <2>5. \A id \in Ids : bindings[id].count = Cardinality(Clients(id))
    BY <2>1, <2>2, <2>4
  <2> QED  BY <2>2, <2>3, <2>5 DEF Forwarded
<1> QED  BY <1>11, <1>13, <1>14, <1>15 DEF Inv

LEMMA StepInv == Inv /\ [Next]_vars => Inv'
<1> SUFFICES ASSUME Inv, [Next]_vars
             PROVE  Inv'
  OBVIOUS
<1>1. Structure' /\ Kind
  BY StepKinds DEF Inv
<1>2. Facts /\ Facts'
  BY <1>1, NextFacts DEF Inv
<1>3. Remembered' /\ Bounded' /\ Linked'
  BY <1>1, <1>2, RememberedKept, BoundedKept, LinkedKept DEF Inv
<1>4. Powered' /\ NoOrphans'
  BY <1>1, <1>2, PoweredKept, NoOrphansKept DEF Inv
<1>5. Counted' /\ Forwarded'
  BY <1>1, <1>2, CountedKept, ForwardedKept DEF Inv
<1>6. Pristine' /\ Consistent'
  BY <1>1, <1>2, PristineKept, ConsistentKept DEF Inv
<1> QED  BY <1>1, <1>3, <1>4, <1>5, <1>6 DEF Inv

LEMMA AlwaysInv == Spec => []Inv
BY InitInv, StepInv, PTL DEF Spec

-----------------------------------------------------------------------------
(* The properties                                                          *)

LEMMA InvImplies ==
  Inv => /\ TypeOK /\ CountsItsHolders /\ AvailableIsPristine
         /\ NoEvictionUnderClient /\ ConsistentView /\ PortsLeadToTheMachine
<1> SUFFICES ASSUME Inv
             PROVE  /\ TypeOK /\ CountsItsHolders /\ AvailableIsPristine
                    /\ NoEvictionUnderClient /\ ConsistentView
                    /\ PortsLeadToTheMachine
  OBVIOUS
<1>1. GuestFacts /\ SessionFacts /\ HolderFacts
  BY FactsHold DEF Inv
<1>2. \A i \in 1..Len(guests) : guests[i] \in Entries
  BY DEF Entries
<1>3. TypeOK
  <2>1. Cardinality(Asked) =< Cardinality(Sessions) /\ Cardinality(Asked) \in Nat
        /\ Cardinality(Sessions) \in Nat
    <3>1. IsFiniteSet(Sessions) /\ Asked \subseteq Sessions
      BY PoolAssumption DEF Asked
    <3> QED  BY <3>1, FS_Subset, FS_CardinalityType
  <2>2. ASSUME NEW i \in 1..Len(guests)
        PROVE  /\ guests[i].id \in 0..(IdLimit - 1) /\ guests[i].vm \in Vms
               /\ guests[i].state \in States
               /\ guests[i].ips \subseteq Ips
               /\ guests[i].connected <= Cardinality(Sessions)
    <3>1. guests[i] \in Entries /\ guests[i] \in Guest
      BY <1>1, <1>2 DEF GuestFacts
    <3>2. guests[i].connected <= Cardinality(Asked) /\ guests[i].connected \in Int
      BY <3>1 DEF Inv, Bounded, Guest
    <3> QED  BY <2>1, <3>1, <3>2 DEF Guest, Ids
  <2>3. config \in Config /\ nextId \in Ids /\ nextCall \in {None} \cup 1..Len(chains)
    BY DEF Inv, Structure, Shape
  <2>4. \A s \in Sessions : sessions[s].vm \in {None} \cup Vms
    BY <1>1 DEF SessionFacts
  <2> QED  BY <2>2, <2>3, <2>4 DEF TypeOK, Config, Ids
<1>4. CountsItsHolders
  BY <1>2 DEF Inv, Counted, Tagged, CountsItsHolders, Excused
<1>5. AvailableIsPristine
  BY <1>2 DEF Inv, Pristine, AvailableIsPristine, Misplaced
<1>6. \A s \in Sessions : sessions[s].pc = "served" =>
        /\ sessions[s].vm \in Vms
        /\ sessions[s].vm \in Listed
             \/ Excused(sessions[s].vm, {"hung", "stopped", "mistaken"})
  <2>1. \A s \in Sessions : sessions[s].pc = "served" => sessions[s].vm # None
    BY <1>1 DEF SessionFacts, SessionOK, UsedPcs
  <2> QED  BY <1>1, <2>1 DEF SessionFacts, Inv, Counted
<1>7. NoEvictionUnderClient
  <2> SUFFICES ASSUME NEW s \in Sessions, sessions[s].pc = "served",
                      vms[sessions[s].vm].power = "gone"
               PROVE  Excused(sessions[s].vm, {"hung", "stopped", "mistaken"})
    BY DEF NoEvictionUnderClient
  <2>1. CASE sessions[s].vm \in Listed
    BY <1>6, <2>1 DEF Inv, Powered, Tagged, Excused
  <2> QED  BY <1>6, <2>1
<1>8. ConsistentView
  <2> SUFFICES ASSUME NEW s \in Sessions, NEW t \in Sessions,
                      sessions[s].pc = "served", sessions[t].pc = "served",
                      sessions[s].ip = sessions[t].ip,
                      sessions[s].vm # sessions[t].vm,
                      ~Excused(sessions[s].vm, Moved),
                      ~Excused(sessions[t].vm, Moved)
               PROVE  FALSE
    BY DEF ConsistentView, Moved
  <2>1. sessions[s].vm \in Listed /\ sessions[t].vm \in Listed
    BY <1>6 DEF Excused, Moved
  <2> PICK g \in Entries : g.vm = sessions[s].vm
    BY <1>1, <2>1 DEF GuestFacts
  <2> PICK h \in Entries : h.vm = sessions[t].vm
    BY <1>1, <2>1 DEF GuestFacts
  <2>2. sessions[s].ip \in g.ips /\ sessions[s].ip \in h.ips
    BY DEF Inv, Linked
  <2> QED  BY <2>2 DEF Inv, Consistent
<1>9. PortsLeadToTheMachine
  <2> SUFFICES ASSUME NEW s \in Sessions, sessions[s].pc = "served", config.nat
               PROVE  LET b == bindings[sessions[s].id] IN
                      \/ b.open /\ b.vm = sessions[s].vm
                      \/ Excused(sessions[s].vm, {"stopped", "misled"})
    BY DEF PortsLeadToTheMachine
  <2>1. LeadsToIt(s)
    BY DEF Inv, Forwarded
  <2> QED  BY <2>1 DEF LeadsToIt, Tagged, Excused
<1> QED  BY <1>3, <1>4, <1>5, <1>7, <1>8, <1>9

(* The pool's lists are well formed, and no guest counts more clients than *)
(* there are connections, for any number of sessions, any size of the pool *)
(* and any wrap of the ids.                                                *)
THEOREM PoolTypeCorrect == Spec => []TypeOK
BY AlwaysInv, InvImplies, PTL

(* A guest's counter is the number of connections that hold its machine,   *)
(* but for a free meant for an earlier machine of its id.                  *)
THEOREM CountersAreRight == Spec => []CountsItsHolders
BY AlwaysInv, InvImplies, PTL

(* No machine an attacker logged in to is handed out as a free one, but    *)
(* for ports or frees meant for another machine of its id.                 *)
THEOREM FreeMachinesAreClean == Spec => []AvailableIsPristine
BY AlwaysInv, InvImplies, PTL

(* The producer takes no running machine from under a client, whatever     *)
(* times out and whoever leaves, unless a free went to the wrong machine.  *)
THEOREM ClientsKeepTheirMachine == Spec => []NoEvictionUnderClient
BY AlwaysInv, InvImplies, PTL

(* Connections of one address share a machine while it lives, unless it    *)
(* went back to the free ones with its old addresses.                      *)
THEOREM OneAddressOneMachine == Spec => []ConsistentView
BY AlwaysInv, InvImplies, PTL

(* Whoever holds a machine finds its ports open and leading to it, but for *)
(* a stopped pool or a binding left from an earlier machine of the id.     *)
THEOREM PortsAreRight == Spec => []PortsLeadToTheMachine
BY AlwaysInv, InvImplies, PTL

(* Every running machine is listed or in hand, or its destruction failed.  *)
THEOREM NoMachineIsLost == Spec => []NoOrphans
BY AlwaysInv, PTL DEF Inv
=============================================================================
