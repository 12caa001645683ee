------------------------------ MODULE DpPayload ------------------------------
(***************************************************************************)
(* Virtual channels of DisplayPort multi-stream transport: the payload     *)
(* table of drm_dp_mst_topology.c, as the modesets of i915's               *)
(* intel_dp_mst.c drive it, and the table of the sink it has to agree      *)
(* with.  One modeset runs at a time.                                      *)
(*                                                                         *)
(*   idle      no modeset under way                                        *)
(*   part1     in the loop of drm_dp_update_payload_part1(), before        *)
(*             payload call.i, which begins at slot call.cur               *)
(*   remove    in its second loop                                          *)
(*   act       between the two parts                                       *)
(*   part2     in drm_dp_update_payload_part2()                            *)
(*   oops      met a payload to remove whose port is unknown               *)
(***************************************************************************)
EXTENDS Naturals, FiniteSets, Sequences

CONSTANTS Ports, None, Worlds,
  MaxPayloads,  \* mgr->max_payloads
  TotalSlots,   \* mgr->total_slots
  PbnDiv        \* mgr->pbn_div

\* A world: the bandwidths modesets ask for, the ports they use, and what may fail or
\* happen besides.
VARIABLES
  world,
  plugged,       \* mgr->mst_primary and its ports are there
  payload_mask, vcpi_mask,
  proposed_vcpis, \* the port of each payload
  payloads,      \* mgr->payloads: start_slot, num_slots and payload_state
  vcpi,          \* port->vcpi
  lit,           \* ports with a mode set
  call,          \* where the modeset is
  sink,          \* the channel in each slot of the sink's table, or 0
  remote         \* channels the branch devices on the way have allocated

vars == <<world, plugged, payload_mask, vcpi_mask, proposed_vcpis, payloads, vcpi, lit,
          call, sink, remote>>
table == <<payload_mask, vcpi_mask, proposed_vcpis, payloads>>
device == <<sink, remote>>

Index == 1..MaxPayloads
NoPayload == [start |-> 0, num |-> 0, state |-> "none"]
NoVcpi == [vcpi |-> 0, pbn |-> 0, slots |-> 0]
Idle == [pc |-> "idle", port |-> None, op |-> "none", i |-> 1, cur |-> 1]

TypeOK ==
  /\ world \in Worlds /\ plugged \in BOOLEAN
  /\ payload_mask \subseteq 0..MaxPayloads /\ vcpi_mask \subseteq 0..MaxPayloads
  /\ proposed_vcpis \in [Index -> Ports \cup {None}]
  /\ payloads \in [Index -> [start : 0..TotalSlots + 1, num : 0..TotalSlots,
                             state : {"none", "local", "remote", "delete"}]]
  /\ vcpi \in [Ports -> [vcpi : 0..MaxPayloads + 1, pbn : Nat, slots : 0..TotalSlots]]
  /\ lit \subseteq Ports
  /\ call \in [pc : {"idle", "part1", "remove", "act", "part2", "oops"},
               port : Ports \cup {None}, op : {"none", "enable", "disable"},
               i : 1..MaxPayloads + 1, cur : 1..TotalSlots + 1]
  /\ sink \in [1..TotalSlots -> 0..MaxPayloads + 1]
  /\ remote \subseteq 1..MaxPayloads + 1

Init ==
  /\ world \in Worlds /\ plugged = TRUE
  /\ payload_mask = {0} /\ vcpi_mask = {}
  /\ proposed_vcpis = [i \in Index |-> None]
  /\ payloads = [i \in Index |-> NoPayload]
  /\ vcpi = [p \in Ports |-> NoVcpi]
  /\ lit = {} /\ call = Idle
  /\ sink = [s \in 1..TotalSlots |-> 0] /\ remote = {}

MayFail(what) == what \in world.fail
Goto(pc) == call' = [call EXCEPT !.pc = pc, !.i = 1]

\* drm_dp_get_validated_port_ref() finds no port once mst_primary is gone.
Valid(p) == plugged

------------------------------------------------------------------------------
(* The sink's table, as the DisplayPort standard has it. *)

\* A channel is written into the slots asked for; removed, those behind it move up.
SinkWrites(id, start, num) ==
  IF num > 0
  THEN sink' = [s \in 1..TotalSlots |->
                  IF s \in start..start + num - 1 THEN id ELSE sink[s]]
  ELSE LET left == SelectSeq([s \in 1..TotalSlots |-> sink[s]], LAMBDA c : c # id) IN
       sink' = [s \in 1..TotalSlots |-> IF s <= Len(left) THEN left[s] ELSE 0]

\* drm_dp_dpcd_write_payload(), which may fail, as it does once the sink is unplugged.
WritePayload(id, start, num, done) ==
  \/ done /\ plugged /\ SinkWrites(id, start, num)
  \/ ~done /\ (MayFail("write") \/ ~plugged) /\ UNCHANGED sink

\* drm_dp_payload_send_msg(), answered, or not sent, not answered or refused.
SendMsg(id, pbn, done) ==
  \/ /\ done /\ plugged
     /\ remote' = IF pbn > 0 THEN remote \cup {id} ELSE remote \ {id}
  \/ ~done /\ (MayFail("message") \/ ~plugged) /\ UNCHANGED remote

------------------------------------------------------------------------------
(* Numbers for channels. *)

Unset(mask) == {b \in 0..MaxPayloads : b \notin mask}
FirstUnset(mask) == CHOOSE b \in Unset(mask) : \A c \in Unset(mask) : b <= c
Slots(pbn) == (pbn + PbnDiv - 1) \div PbnDiv

\* drm_dp_mst_assign_payload_id() for a port whose channel needs that many slots.
AssignPayloadId(p, pbn) ==
  LET id == FirstUnset(payload_mask)
      ch == FirstUnset(vcpi_mask) IN
  /\ Unset(payload_mask) # {} /\ Unset(vcpi_mask) # {}
  /\ payload_mask' = payload_mask \cup {id}
  /\ vcpi_mask' = vcpi_mask \cup {ch}
  /\ proposed_vcpis' = [proposed_vcpis EXCEPT ![id] = p]
  /\ vcpi' = [vcpi EXCEPT ![p] = [vcpi |-> ch + 1, pbn |-> pbn, slots |-> Slots(pbn)]]

\* Faulty variant of HasId: the position is taken for the number of the channel.
HasIdAt(i, v) == i = v

\* Payload i is the one of channel v.
HasId(i, v) == proposed_vcpis[i] # None /\ vcpi[proposed_vcpis[i]].vcpi = v

\* drm_dp_mst_put_payload_id()
PutPayloadId(v) ==
  IF v = 0 THEN UNCHANGED <<payload_mask, vcpi_mask, proposed_vcpis>>
  ELSE /\ vcpi_mask' = vcpi_mask \ {v - 1}
       /\ proposed_vcpis' =
            [i \in Index |-> IF HasId(i, v) THEN None ELSE proposed_vcpis[i]]
       /\ payload_mask' = payload_mask \ {i \in Index : HasId(i, v)}

------------------------------------------------------------------------------
(* The modesets of i915. *)

\* drm_dp_mst_allocate_vcpi(), which reports ok.
AllocateVcpi(p, pbn, ok) ==
  \/ ok /\ Valid(p) /\ Slots(pbn) <= TotalSlots /\ AssignPayloadId(p, pbn)
  \/ /\ ~ok /\ (~Valid(p) \/ Slots(pbn) > TotalSlots)
     /\ UNCHANGED <<payload_mask, vcpi_mask, proposed_vcpis, vcpi>>
  \/ /\ ~ok /\ Valid(p) /\ Slots(pbn) <= TotalSlots /\ Unset(payload_mask) = {}
     /\ vcpi' = [vcpi EXCEPT ![p].pbn = pbn, ![p].slots = Slots(pbn)]
     /\ UNCHANGED <<payload_mask, vcpi_mask, proposed_vcpis>>

\* intel_mst_pre_enable_dp() as far as drm_dp_update_payload_part1().  Without a
\* channel it returns early; intel_mst_enable_dp() follows all the same.
PreEnable(p, pbn, ok) ==
  /\ call.pc = "idle" /\ p \in world.ports \ lit
  /\ lit' = lit \cup {p}
  /\ AllocateVcpi(p, pbn, ok)
  /\ call' = [Idle EXCEPT !.pc = IF ok THEN "part1" ELSE "act", !.port = p,
                          !.op = "enable"]
  /\ UNCHANGED <<world, plugged, payloads, device>>

\* intel_mst_disable_dp() as far as drm_dp_update_payload_part1().
Disable(p) ==
  /\ call.pc = "idle" /\ p \in lit
  /\ vcpi' = IF Valid(p) THEN [vcpi EXCEPT ![p].slots = 0] ELSE vcpi
  /\ call' = [Idle EXCEPT !.pc = "part1", !.port = p, !.op = "disable"]
  /\ UNCHANGED <<world, plugged, table, lit, device>>

Requested(i) == IF proposed_vcpis[i] = None THEN 0 ELSE vcpi[proposed_vcpis[i]].slots

Next1(payload) ==
  /\ payloads' = [payloads EXCEPT ![call.i] = payload]
  /\ call' = [call EXCEPT !.i = @ + 1, !.cur = @ + Requested(call.i)]

Payload(start, num, state) == [start |-> start, num |-> num, state |-> state]

\* drm_dp_create_payload_step1()
CreateStep1(done) ==
  LET req == Requested(call.i) IN
  /\ WritePayload(vcpi[proposed_vcpis[call.i]].vcpi, call.cur, req, done)
  /\ Next1(Payload(call.cur, req, IF done THEN "local" ELSE "none"))
  /\ UNCHANGED remote

\* drm_dp_destroy_payload_step1() for a port that is known.
DestroyStep1(done, told) ==
  LET v == vcpi[proposed_vcpis[call.i]].vcpi IN
  /\ SendMsg(v, 0, told)
  /\ WritePayload(v, call.cur, 0, done)
  /\ Next1(Payload(0, 0, "delete"))

\* One turn of the first loop of drm_dp_update_payload_part1(): nothing changes but
\* the position, a new channel is written to the sink, or a channel is removed.
Part1(done, told) ==
  LET i == call.i
      known == proposed_vcpis[i] # None
      same == payloads[i].num = Requested(i) IN
  /\ call.pc = "part1" /\ i <= MaxPayloads
  /\ \/ /\ same /\ done /\ told
        /\ Next1([payloads[i] EXCEPT !.start = call.cur])
        /\ UNCHANGED device
     \/ ~same /\ Requested(i) > 0 /\ told /\ CreateStep1(done)
     \/ ~same /\ Requested(i) = 0 /\ known /\ DestroyStep1(done, told)
     \/ /\ ~same /\ ~known /\ done /\ told
        /\ Goto("oops")
        /\ UNCHANGED <<payloads, device>>
  /\ UNCHANGED <<world, plugged, payload_mask, vcpi_mask, proposed_vcpis, vcpi, lit>>

Part1Ends ==
  /\ call.pc = "part1" /\ call.i > MaxPayloads
  /\ Goto("remove")
  /\ UNCHANGED <<world, plugged, table, vcpi, lit, device>>

\* Faulty variant of Shifted: the entry itself stays.
ShiftedLate(f, i, none) ==
  [j \in Index |-> IF j <= i THEN f[j] ELSE IF j < MaxPayloads THEN f[j + 1] ELSE none]

\* Entry i of an array is overwritten by those behind it.
Shifted(f, i, none) ==
  [j \in Index |-> IF j < i THEN f[j] ELSE IF j < MaxPayloads THEN f[j + 1] ELSE none]

\* One turn of its second loop.
Remove ==
  LET i == call.i
      moved == Shifted(proposed_vcpis, i, None)
      Used(j) == moved[j] # None /\ vcpi[moved[j]].slots > 0 IN
  /\ call.pc = "remove" /\ i <= MaxPayloads
  /\ IF payloads[i].state = "delete"
     THEN /\ payloads' = Shifted(payloads, i, NoPayload)
          /\ proposed_vcpis' = moved
          /\ payload_mask' = {b \in payload_mask : b < i}
                               \cup {j \in Index : j >= i /\ j < MaxPayloads /\ Used(j)}
     ELSE UNCHANGED <<payloads, proposed_vcpis, payload_mask>>
  /\ call' = [call EXCEPT !.i = i + 1]
  /\ UNCHANGED <<world, plugged, vcpi_mask, vcpi, lit, device>>

RemoveEnds ==
  /\ call.pc = "remove" /\ call.i > MaxPayloads
  /\ Goto("act")
  /\ UNCHANGED <<world, plugged, table, vcpi, lit, device>>

\* drm_dp_check_act_status() may fail, and is ignored.
CheckAct ==
  /\ call.pc = "act"
  /\ Goto("part2")
  /\ UNCHANGED <<world, plugged, table, vcpi, lit, device>>

\* drm_dp_mst_deallocate_vcpi()
DeallocateVcpi(p) ==
  IF Valid(p) THEN PutPayloadId(vcpi[p].vcpi) /\ vcpi' = [vcpi EXCEPT ![p] = NoVcpi]
  ELSE UNCHANGED <<payload_mask, vcpi_mask, proposed_vcpis, vcpi>>

\* The rest of intel_mst_enable_dp() or of intel_mst_post_disable_dp(); whether part 2
\* succeeded makes no difference.
Finish ==
  \/ /\ call.op = "enable"
     /\ UNCHANGED <<payload_mask, vcpi_mask, proposed_vcpis, vcpi, lit>>
  \/ call.op = "disable" /\ lit' = lit \ {call.port} /\ DeallocateVcpi(call.port)

\* One turn of the loop of drm_dp_update_payload_part2(): the message for a channel
\* that is in the sink's table; the first that fails ends the loop.
Part2(done) ==
  LET i == call.i
      local == proposed_vcpis[i] # None /\ payloads[i].state = "local"
      v == vcpi[proposed_vcpis[i]] IN
  /\ call.pc = "part2" /\ i <= MaxPayloads
  /\ IF local THEN SendMsg(v.vcpi, v.pbn, done) ELSE done /\ UNCHANGED remote
  /\ IF done
     THEN /\ payloads' = IF local THEN [payloads EXCEPT ![i].state = "remote"] ELSE payloads
          /\ call' = [call EXCEPT !.i = i + 1]
          /\ UNCHANGED <<payload_mask, vcpi_mask, proposed_vcpis, vcpi, lit>>
     ELSE Finish /\ call' = Idle /\ UNCHANGED payloads
  /\ UNCHANGED <<world, plugged, sink>>

Part2Ends ==
  /\ call.pc = "part2" /\ call.i > MaxPayloads
  /\ Finish /\ call' = Idle
  /\ UNCHANGED <<world, plugged, payloads, device>>

------------------------------------------------------------------------------
(* The sink is unplugged and plugged in again, between modesets. *)

\* drm_dp_mst_topology_mgr_set_mst(mgr, false), whose last reference on mst_primary
\* ends in drm_dp_destroy_port() for every port.
SetMstOff ==
  /\ "unplug" \in world.fail /\ plugged /\ call.pc = "idle"
  /\ plugged' = FALSE
  /\ payloads' = [i \in Index |-> NoPayload]
  /\ payload_mask' = {0} /\ vcpi_mask' = {}
  /\ proposed_vcpis' = [i \in Index |-> None]
  /\ vcpi' = [p \in Ports |-> NoVcpi]
  /\ sink' = [s \in 1..TotalSlots |-> 0] /\ remote' = {}
  /\ UNCHANGED <<world, lit, call>>

\* drm_dp_mst_topology_mgr_set_mst(mgr, true), and new ports.
SetMstOn ==
  /\ ~plugged /\ lit = {} /\ call.pc = "idle"
  /\ plugged' = TRUE
  /\ UNCHANGED <<world, table, vcpi, lit, call, device>>

Next ==
  \/ \E p \in Ports, pbn \in world.pbn, ok \in BOOLEAN : PreEnable(p, pbn, ok)
  \/ \E p \in Ports : Disable(p)
  \/ \E done, told \in BOOLEAN : Part1(done, told)
  \/ Part1Ends \/ Remove \/ RemoveEnds \/ CheckAct
  \/ \E done \in BOOLEAN : Part2(done)
  \/ Part2Ends
  \/ SetMstOff \/ SetMstOn

Spec == Init /\ [][Next]_vars

------------------------------------------------------------------------------
(* Properties. *)

\* Numbers are neither lost nor given twice: between modesets payload_mask is the set
\* of payloads with a port, vcpi_mask that of their channels, and the arrays have moved
\* up together.
NumbersExact ==
  call.pc = "idle" /\ plugged =>
    /\ payload_mask = {0} \cup {i \in Index : proposed_vcpis[i] # None}
    /\ vcpi_mask = {vcpi[p].vcpi - 1 : p \in {q \in Ports : vcpi[q].vcpi > 0}}
    /\ \A i, j \in Index : proposed_vcpis[i] = proposed_vcpis[j] /\ i # j =>
         proposed_vcpis[i] = None
    /\ \A p \in Ports :
         (vcpi[p].vcpi > 0) <=> (\E i \in Index : proposed_vcpis[i] = p)
    /\ \A p, q \in Ports : vcpi[p].vcpi = vcpi[q].vcpi /\ p # q => vcpi[p].vcpi = 0

\* Source and sink agree about every stream between modesets: its channel fills exactly
\* the slots the source sends it in, whatever was enabled and disabled before.
SinkAgrees ==
  call.pc = "idle" /\ plugged /\ ~MayFail("write") =>
    \A i \in Index :
      /\ payloads[i].num = Requested(i)
      /\ payloads[i].num > 0 =>
           {s \in 1..TotalSlots : sink[s] = vcpi[proposed_vcpis[i]].vcpi}
             = payloads[i].start..payloads[i].start + payloads[i].num - 1

\* No branch device keeps bandwidth for a stream that is off, and none lacks it for one
\* that is on, unless a message was lost.
RemoteExact ==
  call.pc = "idle" /\ plugged /\ world.fail \cap {"write", "message"} = {} =>
    remote = {vcpi[p].vcpi : p \in lit} \ {0}

\* drm_dp_update_payload_part1() knows the port of every payload it removes: it would
\* read port->vcpi.vcpi through a null pointer otherwise.
PortKnown == call.pc # "oops"
==============================================================================
