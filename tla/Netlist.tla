------------------------------ MODULE Netlist ------------------------------
(***************************************************************************)
(* The netlist of class Circuit: creating and removing components and      *)
(* nets, connecting and disconnecting pins, and replacing composite        *)
(* components by the parts of their blueprint before a compilation.        *)
(*                                                                         *)
(* Components, nets and pins are handles, as pointers are.  What the code  *)
(* keeps about them besides the wiring itself is what this module is       *)
(* about: the ids of nets, which index the wires of the compiled code, the *)
(* ids of components, the register of buses (bus), and the widths of nets. *)
(* Names are left out, and a handle that is gone has id 0.                 *)
(***************************************************************************)
EXTENDS Integers, Sequences, FiniteSets, FiniteSetsExt

CONSTANTS
    Comps,       \* all components there may ever be
    Nets,        \* all nets there may ever be
    None,        \* no net, no component
    MaxId,       \* bound: the largest component id
    PinsOf,      \* each component's pins: [out, tri : BOOLEAN, width : Nat]
    Blueprints   \* what each composite expands to: the nets it creates, and
                 \* its parts in order, each with what its pins are tied to:
                 \* a net of the blueprint or the number of an exposed pin

Pins == UNION {{c} \X DOMAIN PinsOf[c] : c \in Comps}
Composites == DOMAIN Blueprints
Out(p) == PinsOf[p[1]][p[2]].out
Tri(p) == PinsOf[p[1]][p[2]].tri
Width(p) == PinsOf[p[1]][p[2]].width

ASSUME HandlesAssumption == None \notin Nets /\ None \notin Comps
ASSUME FiniteAssumption == IsFiniteSet(Nets) /\ IsFiniteSet(Comps)
ASSUME BoundAssumption == MaxId \in Nat
ASSUME PinsAssumption ==
    \A c \in Comps : PinsOf[c] \in Seq([out : BOOLEAN, tri : BOOLEAN, width : Nat])
ASSUME CompositesAssumption ==
    Composites \subseteq Comps /\ \A p \in Pins : p[1] \in Composites => ~Tri(p)
ASSUME BlueprintsAssumption == \A c \in Composites :
    Blueprints[c] \in [nets : Seq(Nets),
                       parts : Seq([comp : Comps, ties : Seq(Nat \X (Nets \cup Nat))])]

\* Not assumed: each pin a composite exposes is tied to a pin of a part as wide.
PartsAreAsWide == \A c \in Composites : \A k \in DOMAIN PinsOf[c] :
    \E i \in DOMAIN Blueprints[c].parts : LET part == Blueprints[c].parts[i] IN
        \E j \in DOMAIN part.ties :
            /\ part.ties[j][2] = k /\ k \notin Nets
            /\ Width(<<part.comp, part.ties[j][1]>>) >= Width(<<c, k>>)

VARIABLES
    nets, comps,     \* _nets and _components, in order
    netId, compId,   \* the id of each net and component
    on,              \* the net each pin is on, or None
    bus,             \* _bus_nets: the drivers recorded under each net id
    width,           \* the bit width of each net
    exp,             \* the composite being expanded, and what is left to do
    before           \* history: the netlist before that expansion

wiring == <<on, bus, width>>
netlist == <<nets, comps, netId, compId, on, bus, width>>
vars == <<netlist, exp, before>>

Ids == 0..(Cardinality(Nets) - 1)
LiveNets == {nets[i] : i \in DOMAIN nets}
LiveComps == {comps[i] : i \in DOMAIN comps}
LivePins == {p \in Pins : p[1] \in LiveComps}
Drivers(n) == {p \in LivePins : Out(p) /\ on[p] = n}
Idle == [comp |-> None, nets |-> <<>>, bound |-> FALSE, parts |-> <<>>]

Init ==
    /\ nets = <<>> /\ comps = <<>>
    /\ netId = [n \in Nets |-> 0] /\ compId = [c \in Comps |-> 0]
    /\ on = [p \in Pins |-> None]
    /\ bus = [i \in Ids |-> {}]
    /\ width = [n \in Nets |-> 0]
    /\ exp = Idle /\ before = None

-----------------------------------------------------------------------------
(* The operations, on the variables of the netlist. *)

\* recomputeNetWidths, for the wiring f of the pins in P.
Widest(f, P, n) == Max({0} \cup {Width(p) : p \in {r \in P : f[r] = n}})
Recomputed(f, P) == [n \in Nets |-> IF n \in LiveNets THEN Widest(f, P, n) ELSE 0]

CreateNet(n) ==
    /\ n \notin LiveNets
    /\ nets' = Append(nets, n)
    /\ netId' = [netId EXCEPT ![n] = Len(nets)]
    /\ width' = [width EXCEPT ![n] = 0]
    /\ UNCHANGED <<comps, compId, on, bus>>

\* Mutant: the next id is the number of components.
AddComponent_BySize(c) ==
    /\ c \notin LiveComps
    /\ comps' = Append(comps, c)
    /\ compId' = [compId EXCEPT ![c] = Len(comps)]
    /\ UNCHANGED <<nets, netId, wiring>>

\* The id is one more than the largest in use: removing does not renumber.
NextId == IF comps = <<>> THEN 0 ELSE 1 + Max({compId[d] : d \in LiveComps})
AddComponent(c) ==
    /\ c \notin LiveComps /\ NextId <= MaxId
    /\ comps' = Append(comps, c)
    /\ compId' = [compId EXCEPT ![c] = NextId]
    /\ UNCHANGED <<nets, netId, wiring>>

\* detachPin, for all pins of P: the bus register forgets the drivers among them.
Detached(b, P) == [i \in Ids |-> b[i] \ {p \in P : Out(p) /\ on[p] # None /\ netId[on[p]] = i}]
Unwired(P) == [p \in Pins |-> IF p \in P THEN None ELSE on[p]]

\* Mutant: a tri-state driver may join any net.
MayDrive_NewOnly(p, n) == Out(p) => Tri(p) \/ Drivers(n) \ {p} = {}

\* connect refuses a driver that would share its net with a plain output.
MayDrive(p, n) == Out(p) => \A d \in Drivers(n) \ {p} : Tri(p) /\ Tri(d)

\* A pin on another net is disconnected from it first.
Connect(p, n) ==
    /\ p \in LivePins /\ n \in LiveNets /\ MayDrive(p, n)
    /\ LET moves == on[p] \notin {None, n}
           b == IF moves THEN Detached(bus, {p}) ELSE bus
           v == IF moves THEN Recomputed(Unwired({p}), LivePins) ELSE width
           shared == IF Out(p) THEN Drivers(n) \ {p} ELSE {}
       IN  /\ bus' = IF shared = {} THEN b
                     ELSE [b EXCEPT ![netId[n]] = @ \cup shared \cup {p}]
           /\ width' = [v EXCEPT ![n] = IF Width(p) > @ THEN Width(p) ELSE @]
    /\ on' = [on EXCEPT ![p] = n]
    /\ UNCHANGED <<nets, comps, netId, compId>>

\* Mutant: the widths are left as they are.
Disconnect_KeepsWidths(P) ==
    /\ \E p \in P : on[p] # None
    /\ bus' = Detached(bus, P)
    /\ on' = Unwired(P)
    /\ UNCHANGED <<nets, comps, netId, compId, width>>

\* disconnect (one pin) and disconnectAll (all pins of a component).
Disconnect(P) ==
    /\ \E p \in P : on[p] # None
    /\ bus' = Detached(bus, P)
    /\ on' = Unwired(P)
    /\ width' = Recomputed(Unwired(P), LivePins)
    /\ UNCHANGED <<nets, comps, netId, compId>>

PinsOn(c) == {p \in Pins : p[1] = c}
Without(s, k) == [i \in 1..(Len(s) - 1) |-> IF i < k THEN s[i] ELSE s[i + 1]]

RemoveComponent(c) == \E k \in DOMAIN comps :
    /\ comps[k] = c
    /\ comps' = Without(comps, k)
    /\ bus' = Detached(bus, PinsOn(c))
    /\ on' = Unwired(PinsOn(c))
    /\ width' = Recomputed(Unwired(PinsOn(c)), LivePins \ PinsOn(c))
    /\ compId' = [compId EXCEPT ![c] = 0]
    /\ UNCHANGED <<nets, netId>>

\* Mutants: the nets behind a removed one keep their ids; their entries in the
\* bus register stay where they are.
Renumbered_Not(rest) ==
    [n \in Nets |-> IF \E i \in DOMAIN rest : rest[i] = n THEN netId[n] ELSE 0]
MovedUp_Not(rest) == [i \in Ids |-> IF i + 1 \in DOMAIN rest THEN bus[i] ELSE {}]

\* The nets behind it move up, and their entries in the bus register with them.
Place(s, x) == CHOOSE i \in DOMAIN s : s[i] = x
Renumbered(rest) ==
    [n \in Nets |-> IF \E i \in DOMAIN rest : rest[i] = n THEN Place(rest, n) - 1 ELSE 0]
MovedUp(rest) ==
    [i \in Ids |-> IF i + 1 \in DOMAIN rest THEN bus[netId[rest[i + 1]]] ELSE {}]
RemoveNet(n) == \E k \in DOMAIN nets :
    /\ nets[k] = n
    /\ nets' = Without(nets, k)
    /\ netId' = Renumbered(Without(nets, k))
    /\ bus' = MovedUp(Without(nets, k))
    /\ on' = [p \in Pins |-> IF on[p] = n THEN None ELSE on[p]]
    /\ width' = [Recomputed(on, LivePins) EXCEPT ![n] = 0]
    /\ UNCHANGED <<comps, compId>>

\* Widths are recomputed with each component, and the nets are gone after that.
RemoveAllNets ==
    /\ nets # <<>>
    /\ nets' = <<>>
    /\ on' = Unwired(LivePins)
    /\ bus' = [i \in Ids |-> {}]
    /\ width' = [n \in Nets |-> 0] /\ netId' = [n \in Nets |-> 0]
    /\ UNCHANGED <<comps, compId>>

-----------------------------------------------------------------------------
(* expandComposites, one call into the netlist after another. *)

\* The nets and components expansions create, which the host does not.  They
\* are new in every expansion, so a composite is added and expanded only while its
\* own are unused.
OwnNets(c) == {Blueprints[c].nets[i] : i \in DOMAIN Blueprints[c].nets}
OwnParts(c) == {Blueprints[c].parts[i].comp : i \in DOMAIN Blueprints[c].parts}
HostNets == Nets \ UNION {OwnNets(c) : c \in Composites}
HostComps == Comps \ UNION {OwnParts(c) : c \in Composites}
Unused(c) == c \in Composites =>
    OwnNets(c) \cap LiveNets = {} /\ OwnParts(c) \cap LiveComps = {}

Settled == exp = Idle
CompositesLeft == {i \in DOMAIN comps : comps[i] \in Composites}

\* The first composite: where its pins are is saved.
BeginExpansion ==
    /\ Settled /\ CompositesLeft # {}
    /\ LET c == comps[Min(CompositesLeft)] IN
       /\ Unused(c)
       /\ exp' = [comp |-> c, nets |-> Blueprints[c].nets, bound |-> TRUE,
                  parts |-> Blueprints[c].parts]
    /\ before' = [nets |-> nets, comps |-> comps, netId |-> netId, compId |-> compId,
                  on |-> on, bus |-> bus, width |-> width]
    /\ UNCHANGED netlist

ExpandNet ==
    /\ exp.nets # <<>>
    /\ CreateNet(Head(exp.nets))
    /\ exp' = [exp EXCEPT !.nets = Tail(@)]
    /\ UNCHANGED before

\* The composite's own pins are set to null straight on the pin, which neither
\* the bus register nor the widths hear of.
UnbindPins ==
    /\ ~Settled /\ exp.nets = <<>> /\ exp.bound
    /\ on' = Unwired(PinsOn(exp.comp))
    /\ exp' = [exp EXCEPT !.bound = FALSE]
    /\ UNCHANGED <<nets, comps, netId, compId, bus, width, before>>

\* The net a pin of a part is tied to: a new one, or where the exposed pin was.
\* (An exposed pin that was nowhere has no net: the tie fails.)
Target(t) == IF t \in Nets THEN t ELSE before.on[<<exp.comp, t>>]

ExpandPart ==
    /\ ~Settled /\ exp.nets = <<>> /\ ~exp.bound /\ exp.parts # <<>>
    /\ LET part == Head(exp.parts) IN
       IF part.comp \notin LiveComps
       THEN AddComponent(part.comp) /\ UNCHANGED exp
       ELSE IF part.ties = <<>>
       THEN exp' = [exp EXCEPT !.parts = Tail(@)] /\ UNCHANGED netlist
       ELSE LET tie == Head(part.ties) IN
            /\ Connect(<<part.comp, tie[1]>>, Target(tie[2]))
            /\ exp' = [exp EXCEPT !.parts = <<[part EXCEPT !.ties = Tail(@)]>> \o Tail(@)]
    /\ UNCHANGED before

\* The parts replace the composite.
EndExpansion ==
    /\ ~Settled /\ exp.nets = <<>> /\ ~exp.bound /\ exp.parts = <<>>
    /\ \E k \in DOMAIN comps : comps[k] = exp.comp /\ comps' = Without(comps, k)
    /\ compId' = [compId EXCEPT ![exp.comp] = 0]
    /\ exp' = Idle /\ before' = None
    /\ UNCHANGED <<nets, netId, wiring>>

\* What was there before: netlists only grow while a composite is expanded.
OldNets == {before.nets[i] : i \in DOMAIN before.nets}
OldComps == {before.comps[i] : i \in DOMAIN before.comps}
OldPins == {p \in Pins : p[1] \in OldComps}
\* All pins of new parts off, those of the composite back.
Restored == [p \in Pins |-> IF p[1] = exp.comp THEN before.on[p]
                            ELSE IF p \in OldPins THEN on[p] ELSE None]

\* Mutant: the composite's pins are forgotten.
FailExpansion_PinsLost ==
    /\ ~Settled
    /\ comps' = SubSeq(comps, 1, Len(before.comps)) /\ nets' = SubSeq(nets, 1, Len(before.nets))
    /\ bus' = Detached(bus, LivePins \ OldPins)
    /\ on' = [p \in Pins |-> IF p \in OldPins THEN on[p] ELSE None]
    /\ width' = [n \in Nets |-> IF n \in OldNets THEN Widest(on, OldPins, n) ELSE 0]
    /\ netId' = [n \in Nets |-> IF n \in OldNets THEN netId[n] ELSE 0]
    /\ compId' = [c \in Comps |-> IF c \in OldComps THEN compId[c] ELSE 0]
    /\ exp' = Idle /\ before' = None

\* Any error on the way: new parts are disconnected and dropped, new nets
\* dropped, the composite's pins set back and the widths recomputed.
FailExpansion ==
    /\ ~Settled
    /\ comps' = SubSeq(comps, 1, Len(before.comps)) /\ nets' = SubSeq(nets, 1, Len(before.nets))
    /\ bus' = Detached(bus, LivePins \ OldPins)
    /\ on' = Restored
    /\ width' = [n \in Nets |-> IF n \in OldNets THEN Widest(Restored, OldPins, n) ELSE 0]
    /\ netId' = [n \in Nets |-> IF n \in OldNets THEN netId[n] ELSE 0]
    /\ compId' = [c \in Comps |-> IF c \in OldComps THEN compId[c] ELSE 0]
    /\ exp' = Idle /\ before' = None

\* With every composite gone: components are renumbered by their place, and
\* check rebuilds the bus register from the pins.
Prepare ==
    /\ Settled /\ CompositesLeft = {} /\ comps # <<>>
    /\ compId' = [c \in Comps |-> IF c \in LiveComps THEN Place(comps, c) - 1 ELSE 0]
    /\ bus' = [i \in Ids |->
                 IF i + 1 \in DOMAIN nets /\ Cardinality(Drivers(nets[i + 1])) >= 2
                 THEN Drivers(nets[i + 1]) ELSE {}]
    /\ UNCHANGED <<nets, comps, netId, on, width, exp, before>>

-----------------------------------------------------------------------------
Edit ==
    /\ Settled
    /\ \/ \E n \in HostNets : CreateNet(n)
       \/ \E c \in HostComps : Unused(c) /\ AddComponent(c)
       \/ \E p \in LivePins, n \in LiveNets : on[p] # n /\ Connect(p, n)
       \/ \E p \in LivePins : Disconnect({p})
       \/ \E c \in LiveComps : Disconnect(PinsOn(c))
       \/ \E c \in LiveComps : RemoveComponent(c)
       \/ \E n \in LiveNets : RemoveNet(n)
       \/ RemoveAllNets
    /\ UNCHANGED <<exp, before>>

Next ==
    \/ Edit \/ Prepare
    \/ BeginExpansion \/ ExpandNet \/ UnbindPins \/ ExpandPart \/ EndExpansion \/ FailExpansion

Spec == Init /\ [][Next]_vars

-----------------------------------------------------------------------------
(* Properties. *)

Injective(s) == \A i, j \in DOMAIN s : s[i] = s[j] => i = j

TypeOK ==
    /\ nets \in Seq(Nets) /\ Injective(nets)
    /\ comps \in Seq(Comps) /\ Injective(comps)
    /\ netId \in [Nets -> Ids]
    /\ compId \in [Comps -> Nat]
    /\ on \in [Pins -> Nets \cup {None}]
    /\ bus \in [Ids -> SUBSET Pins]
    /\ width \in [Nets -> Nat]
    /\ exp.comp \in Comps \cup {None}

\* The compiled code indexes its wires by net id and its functions by component
\* id: net ids are the places of the nets, with no gap after a removal, and no two
\* components share an id, although a removal leaves those of the others alone.
IdsIdentify ==
    /\ \A i \in DOMAIN nets : netId[nets[i]] = i - 1
    /\ \A i, j \in DOMAIN comps : compId[comps[i]] = compId[comps[j]] => i = j

\* No sequence of edits puts a plain output on a net with another driver.
NoShort == \A n \in LiveNets : \A p, d \in Drivers(n) : p # d => Tri(p) /\ Tri(d)

\* What connect, disconnect and removeNet keep up to date piece by piece is what
\* check would find: a net with two drivers is registered, with exactly those;
\* nothing is recorded that does not drive the net of that id.
RegisterIsCurrent == \A i \in Ids :
    /\ i + 1 \notin DOMAIN nets => bus[i] = {}
    /\ i + 1 \in DOMAIN nets =>
         /\ bus[i] \subseteq Drivers(nets[i + 1])
         /\ Cardinality(Drivers(nets[i + 1])) >= 2 => bus[i] = Drivers(nets[i + 1])

\* The width of a net is that of its widest pin, also after a pin has left.
WidthIsWidest == Settled => \A n \in LiveNets : width[n] = Widest(on, LivePins, n)

\* Whatever is derived from the netlist, the ids included, is that of the netlist
\* of now.
DerivedIsCurrent == IdsIdentify /\ RegisterIsCurrent /\ WidthIsWidest

\* A failed expansion leaves no trace: compile may be tried again.
FailureLeavesNoTrace ==
    [][FailExpansion =>
         /\ nets' = before.nets /\ comps' = before.comps /\ on' = before.on
         /\ netId' = before.netId /\ compId' = before.compId]_vars
=============================================================================
