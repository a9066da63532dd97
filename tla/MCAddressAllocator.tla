------------------------- MODULE MCAddressAllocator -------------------------
(* Networks of 10.20.0.0/22, whose span is walked across the end of an     *)
(* octet, and of 10.20.0.248/29, which is walked to its end.               *)
EXTENDS AddressAllocator

Address(o2, o3, o4) == 10 * 16777216 + o2 * 65536 + o3 * 256 + o4

Shown(base)   == {{}, {base + 1}, {base + 1, base + 2}, {base + 2, base + 4}}
VmidSets(base) == {{}, {Vmid(base)}, {Vmid(base + 1), 105}, {Vmid(base), Vmid(base + 2), 20000300}}
Pools(lo, base, hi) == {{}} \cup {{<<base, base + 2>>}, {<<base + 3, base + 1>>},
                                  {<<lo - 1, base>>}, {<<base + 1, hi + 1>>}, {<<base + 1, hi>>}}

(* base: an address about which the inventory and the request are centred. *)
About(lo, hi, base) ==
  {r \in [lo : {lo}, hi : {hi}, shown : Shown(base), vmids : VmidSets(base),
          reserved : {{}, {base}, (base + 2)..(base + 3)}, gateway : {{}, {base + 1}},
          pool : Pools(lo, base, hi), offset : {0, base - lo, 1030},
          max_hosts : {0, 1, 3}, pin : {{}, {base + 1}, {base + 2}, {hi}}] :
     /\ r.pool # {} => r.offset = 0 /\ r.max_hosts = 0
     /\ r.offset = 0 /\ r.pool = {} => r.max_hosts # 0}

TwoNetworks == About(Address(20, 0, 0), Address(20, 3, 255), Address(20, 0, 254))
               \cup About(Address(20, 0, 248), Address(20, 0, 255), Address(20, 0, 251))
=============================================================================
