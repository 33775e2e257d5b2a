-------------------------- MODULE DiscoveryTargets --------------------------
(***************************************************************************)
(* Which addresses a network scan probes (discovery.rs): subnets, the ones *)
(* the machine's adapters derive or the user names, and the machine's own  *)
(* addresses left out of each.                                             *)
(*                                                                         *)
(* An address is a number of AddressBits bits (32 in the code), an adapter *)
(* a record [name, address, prefix]; a netmask that is not contiguous has  *)
(* no prefix.                                                              *)
(***************************************************************************)
EXTENDS Naturals, Sequences, FiniteSets, SequencesExt

CONSTANTS
  AddressBits,
  AutoScanMinimumPrefix,      \* 24: the longest network scanned unasked
  ExplicitScanMinimumPrefix,  \* 16: the longest network scanned at all
  Loopback                    \* the addresses of 127.0.0.0/8

ASSUME AddressesHaveBits == AddressBits \in Nat \ {0}
ASSUME AutomaticIsStricter ==
  /\ AutoScanMinimumPrefix \in 0..AddressBits
  /\ ExplicitScanMinimumPrefix \in 0..AutoScanMinimumPrefix

NoPrefix == AddressBits + 1

-----------------------------------------------------------------------------
(* Subnet.                                                                 *)

PowerOfTwo[n \in 0..AddressBits] == IF n = 0 THEN 1 ELSE 2 * PowerOfTwo[n - 1]
Addresses == 0..(PowerOfTwo[AddressBits] - 1)
BlockSize(prefix) == PowerOfTwo[AddressBits - prefix]

\* u32::from(address) & prefix_mask(prefix)
Masked(address, prefix) == address - (address % BlockSize(prefix))

Subnet(address, prefix) == [network |-> Masked(address, prefix), prefix |-> prefix]

Subnets == {Subnet(address, prefix) : address \in Addresses, prefix \in 0..AddressBits}

Covers(subnet, address) == Masked(address, subnet.prefix) = subnet.network

\* A /31 and a /32 have neither a network nor a broadcast address.
HostsWithBroadcast(subnet) == subnet.network..(subnet.network + BlockSize(subnet.prefix) - 1)
HostsOf(subnet) ==
  LET first == subnet.network
      last  == subnet.network + BlockSize(subnet.prefix) - 1
  IN IF subnet.prefix >= AddressBits - 1 THEN first..last ELSE (first + 1)..(last - 1)

-----------------------------------------------------------------------------
(* Targets.                                                                *)

Adapters(interfaces) == {interfaces[i] : i \in DOMAIN interfaces}
IsMachine(interfaces) ==
  /\ interfaces \in Seq(Adapters(interfaces))
  /\ \A adapter \in Adapters(interfaces) :
       adapter.address \in Addresses /\ adapter.prefix \in 0..NoPrefix

\* local_addresses_within: by the subnet scanned, not by the adapter's own netmask.
WithSameNetmask(subnet, interfaces) ==
  {adapter.address : adapter \in
     {a \in Adapters(interfaces) :
        a.prefix = subnet.prefix /\ Covers(subnet, a.address)}}
LocalAddressesWithin(subnet, interfaces) ==
  {adapter.address : adapter \in {a \in Adapters(interfaces) : Covers(subnet, a.address)}}

Target(subnet, interfaces) ==
  [subnet |-> subnet, excluded |-> LocalAddressesWithin(subnet, interfaces)]

Skipped(adapter) ==
  /\ adapter.address \notin Loopback
  /\ adapter.prefix = NoPrefix \/ adapter.prefix < AutoScanMinimumPrefix

SkippedInterfaces(interfaces) == {adapter \in Adapters(interfaces) : Skipped(adapter)}

\* detect_networks: one target for each subnet, in the order of its first adapter.
DetectNetworks(interfaces) ==
  LET SubnetOf(i) == Subnet(interfaces[i].address, interfaces[i].prefix)
      Candidate(i) == interfaces[i].address \notin Loopback /\ ~Skipped(interfaces[i])
      detected[n \in 0..Len(interfaces)] ==
        IF n = 0 THEN <<>>
        ELSE IF Candidate(n) /\ \A t \in DOMAIN detected[n - 1] :
                                  detected[n - 1][t].subnet # SubnetOf(n)
        THEN Append(detected[n - 1], Target(SubnetOf(n), interfaces))
        ELSE detected[n - 1]
  IN detected[Len(interfaces)]

TooLargeToScan(subnets) ==
  \E i \in DOMAIN subnets : subnets[i].prefix < ExplicitScanMinimumPrefix

\* explicit_scan_targets: a subnet named twice is a target twice.
ExplicitScanTargets(subnets, interfaces) ==
  [i \in DOMAIN subnets |-> Target(subnets[i], interfaces)]

\* resolve_targets_from
ResolveTargets(subnets, interfaces) ==
  IF subnets = <<>> THEN DetectNetworks(interfaces)
                    ELSE ExplicitScanTargets(subnets, interfaces)

\* A probe is an address of a target; targets that overlap probe it more than once.
ProbesOf(targets) ==
  UNION {{[target |-> t, address |-> a] : a \in HostsOf(targets[t].subnet) \ targets[t].excluded} :
         t \in DOMAIN targets}

ProbeCount(targets) == Cardinality(ProbesOf(targets))
=============================================================================
