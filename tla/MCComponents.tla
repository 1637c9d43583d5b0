---------------------------- MODULE MCComponents ----------------------------
(* One component at a time: the datapath, a bench of a clocked component, a  *)
(* bench of a device, a virtio device with its driver, or the instruction    *)
(* fetch of a core; what is not under test stays as it began.                *)
EXTENDS DeviceBench, Datapath, Sequencing, VirtioDevices, HartFetch

VARIABLE subject

MCSerials == {[kind |-> "feed", cpb |-> 2, first |-> TRUE], [kind |-> "feed", cpb |-> 3, first |-> FALSE],
              [kind |-> "in", cpb |-> 2, first |-> FALSE]}
MCClocks == {[high |-> 1, low |-> 1]}
MCYears == 1970..2401

\* Narrow nets take every value, wide ones the values at their boundaries and
\* a few whose halves carry into each other.
MCValues(n) ==
    IF n <= 4 THEN 0..(2^n - 1)
    ELSE {0, 1, 2, 3, 2^(n-1) - 1, 2^(n-1), 2^(n-1) + 1, 2^n - 2, 2^n - 1}
         \cup {85 % 2^n, 119 % 2^n, 2^(n-1) - 2^(n \div 2), 2^n - 2^(n \div 2) + 1}
MCFloats == {-520, -513, -512, -258, -257, -256, -255, -3, -2, -1, 0, 1, 2, 3,
             254, 255, 256, 257, 510, 511, 512, 513, 520}

\* A medium of a sector and a half of two pieces, at most eight pieces of
\* addresses; whole requests for blocks, and malformed ones.
D(len, next) == [len |-> len, next |-> next]
Header == D(1, "next")
StatusByte == D(1, "none")
Middle == {<<D(1, "next")>>, <<D(2, "next")>>, <<D(1, "next"), D(0, "next"), D(1, "next")>>}
Whole == {<<Header>> \o d \o <<StatusByte>> : d \in Middle}
Malformed == {<<D(0, "next"), StatusByte>>, <<D(1, "none")>>, <<D(1, "stray")>>,
    <<Header, D(0, "stray")>>, <<Header, D(1, "stray")>>, <<Header, D(1, "next"), D(0, "none")>>}
MCBlocks ==
    [type : {"in", "out"}, sector : {0, 1, 4}, chain : Whole]
    \cup [type : {"flush", "other"}, sector : {0}, chain : {<<Header, StatusByte>>, <<Header, Header, StatusByte>>}]
    \cup [type : {"out"}, sector : {0}, chain : Malformed]
MCReads == [chain : {<<D(1, "none")>>, <<D(2, "next"), D(1, "none")>>, <<D(0, "none")>>}]
MCEventBuffers == [chain : {<<D(0, "none")>>, <<D(3, "none")>>}]
MCStatusChains == [chain : {<<D(1, "next"), D(1, "none")>>}]

ASSUME DevicesAssumption == RequestsAssumption /\ RingsAssumption

\* Two pages of code next to each other, the other way round in memory.
Scattered == (0 :> 2) @@ (1 :> 0)

NoDevice == dut = [dev |-> "none"] /\ ref = None
NoBench == bench = [dev |-> "none"] /\ expected = <<>>
NoPins == pins = [w |-> 0, n |-> 0, a |-> 0, b |-> 0, c |-> 0]

MCInit ==
    /\ DevicesInit /\ FetchInit
    /\ \/ subject \in {"virtio", "fetch"} /\ NoDevice /\ NoBench /\ NoPins
       \/ subject = "device" /\ DeviceInit /\ NoBench /\ NoPins
       \/ subject = "bench" /\ NoDevice /\ BenchInit /\ NoPins
       \/ subject = "datapath" /\ NoDevice /\ NoBench /\ PinsInit
    /\ subject # "virtio" => dev = "rng"
MCNext ==
    \/ subject = "virtio" /\ DevicesNext /\ UNCHANGED <<subject, dutVars, benchVars, pinsVars, fetchVars>>
    \/ DeviceNext /\ UNCHANGED <<subject, benchVars, pinsVars, devicesVars, fetchVars>>
    \/ BenchNext /\ UNCHANGED <<subject, dutVars, pinsVars, devicesVars, fetchVars>>
    \/ subject = "datapath" /\ PinsNext /\ UNCHANGED <<subject, dutVars, benchVars, devicesVars, fetchVars>>
    \/ subject = "fetch" /\ FetchNext /\ UNCHANGED <<subject, dutVars, benchVars, pinsVars, devicesVars>>
MCSpec == MCInit /\ [][MCNext]_<<subject, dutVars, benchVars, pinsVars, devicesVars, fetchVars>>
=============================================================================
