-------------------------- MODULE NicReceiveProofs --------------------------
(***************************************************************************)
(* Proofs about NicReceive, for any list of descriptors, any size of the   *)
(* ARP cache and any number of resolvers.                                  *)
(*                                                                         *)
(* The invariant numbers the descriptors that have ever been in the list,  *)
(* in the order of the list: frame n went into descriptor n.  The list is  *)
(* then an interval of numbers.  The daemon takes descriptors off at its   *)
(* start, whose number is known from how many frames were processed, and   *)
(* the RU stands at number received + 1, never behind rfa.next.            *)
(***************************************************************************)
EXTENDS NicReceive, SeqLemmas

Links == Pages \cup {NULL}
Datas == [ip : Nat, mac : Nat] \cup {NotArp}
Frames == [n : Nat, data : Datas]
Pairs == [{1, 2} -> Nat]
Saving == {"ip", "filled", "mac1", "mac2"}
Handling == Saving \cup {"head"}
DaemonAt == Handling \cup {"start", "test", "free", "alloc", "link", "unset", "tail"}
ResolverAt == {"idle", "probe", "copy1", "copy2", "request", "found", "failed"}

Typed ==
  /\ rfa \in [head : Links, next : Links, tail : Links]
  /\ link \in [Pages -> Links] /\ el \in [Pages -> BOOLEAN]
  /\ frame \in [Pages -> Frames] /\ used \subseteq Pages
  /\ ru \in [state : {"off", "ready", "no resources"}, at : Links]
  /\ fr \in BOOLEAN /\ isr \in BOOLEAN
  /\ arp_cache \in [Slots -> [ip_addr : Nat, filled : BOOLEAN, hw_addr : Pairs]]
  /\ daemon \in [at : DaemonAt, rfd : Links, slot : Slots, new : Links]
  /\ received \in Nat /\ processed \in Seq(Frames)

\* the number of the descriptor at rfa.head
First == Len(processed) + (IF daemon.at \in Handling THEN 0 ELSE 1)

(***************************************************************************)
(* The list holds the descriptors First to e, and rfa.next is number k.    *)
(***************************************************************************)
Behind(e, k) ==
  First <= k /\ k <= e /\ k <= received + 1 /\ (fr /\ ~isr => k <= received)
Distinct(at, e) == \A i, j \in First .. e : i # j => at[i] # at[j]
Linked(at, e) ==
  \A i \in First .. e : at[i] \in used /\ link[at[i]] = IF i = e THEN NULL ELSE at[i + 1]
Filled(at, e) == \A i \in First .. e : i <= received => frame[at[i]].n = i
Flagged(at, e) ==
  /\ el[at[e]]
  /\ \A i \in First .. e : el[at[i]] => i = e \/ (i = e - 1 /\ daemon.at = "unset")
Ends(at, e, k) ==
  /\ rfa.head = at[First] /\ rfa.next = at[k]
  /\ daemon.at \notin {"unset", "tail"} => rfa.tail = at[e]
  /\ daemon.at \in {"unset", "tail"} =>
       First < e /\ rfa.tail = at[e - 1] /\ daemon.new = at[e]
RuStands(at, e) ==
  /\ received <= e
  /\ ru.state = "ready" => received + 1 <= e /\ ru.at = at[received + 1]
  /\ daemon.at = "start" => received = 0 /\ ru.state = "off"
DaemonHas(at, e, k) ==
  /\ daemon.at \in Handling => daemon.rfd = rfa.head /\ First < k
  /\ daemon.at = "free" => \A i \in First .. e : at[i] # daemon.rfd
  /\ daemon.at = "link" => /\ \A i \in First .. e : at[i] # daemon.new
                           /\ daemon.new \in used
                           /\ link[daemon.new] = NULL /\ el[daemon.new]

Laid(at, e, k) ==
  /\ Behind(e, k) /\ Distinct(at, e) /\ Linked(at, e) /\ Filled(at, e) /\ Flagged(at, e)
  /\ Ends(at, e, k) /\ RuStands(at, e) /\ DaemonHas(at, e, k)

ListInv == RanOff \/ \E at \in [Nat -> Pages], e \in Nat, k \in Nat : Laid(at, e, k)

\* the state of a search for ip that ends at place i
Passed(ip, i) ==
  \A j \in 1 .. i - 1 : /\ arp_cache[ProbeFrom(ip)[j]].filled
                        /\ arp_cache[ProbeFrom(ip)[j]].ip_addr # ip

Announced(ip, mac) ==
  \E i \in 1 .. Len(processed) : processed[i].data.ip = ip /\ processed[i].data.mac = mac

\* what the daemon is saving, and where
SaveInv ==
  daemon.at \in Saving =>
    LET slot == arp_cache[daemon.slot] IN
    /\ Saved \in [ip : Nat, mac : Nat] /\ Announced(Saved.ip, Saved.mac)
    /\ \E i \in 1 .. ARP_CACHE_SIZE : /\ daemon.slot = ProbeFrom(Saved.ip)[i]
                                      /\ Passed(Saved.ip, i)
    /\ daemon.at = "ip" => slot.ip_addr = Saved.ip \/ ~slot.filled
    /\ daemon.at # "ip" => slot.ip_addr = Saved.ip
    /\ daemon.at \in {"mac1", "mac2"} => slot.filled
    /\ daemon.at = "mac2" => slot.hw_addr[1] = Saved.mac

\* the daemon is in the middle of the address in slot s
Writing(s) == daemon.at \in {"mac1", "mac2"} /\ daemon.slot = s

\* a filled slot holds an address that was announced, once it is all there
CacheTrue ==
  \A s \in Slots : arp_cache[s].filled /\ ~Writing(s) =>
     \E mac \in Nat : /\ arp_cache[s].hw_addr[1] = mac /\ arp_cache[s].hw_addr[2] = mac
                      /\ Announced(arp_cache[s].ip_addr, mac)

\* what a resolver has copied
ResolverInv(p) ==
  LET r == resolver[p] IN
  /\ r.at \in {"probe", "request"} => r.ip \in Nat
  /\ r.at \in {"copy1", "copy2"} => /\ arp_cache[r.slot].filled
                                    /\ arp_cache[r.slot].ip_addr = r.ip
  /\ r.at = "copy2" /\ ~r.torn => r.mac[1] = arp_cache[r.slot].hw_addr[1]
  /\ r.at = "found" /\ ~r.torn =>
       \E mac \in Nat : r.mac[1] = mac /\ r.mac[2] = mac /\ Announced(r.ip, mac)

Readers == [at : ResolverAt, ip : Int, try : Nat, count : Nat, slot : Slots, mac : Pairs,
            torn : BOOLEAN, calls : Nat]
ResolversTyped == resolver \in [Resolvers -> Readers]

InOrder == \A i \in 1 .. Len(processed) : processed[i].n = i

ListPart == Typed /\ ListInv /\ InOrder
CachePart ==
  /\ CacheSearchable /\ SaveInv /\ CacheTrue
  /\ ResolversTyped /\ \A p \in Resolvers : ResolverInv(p)
IInv == ListPart /\ CachePart

-----------------------------------------------------------------------------
(* Lemmas *)

\* The constants, as the provers need them.
LEMMA Constants ==
  /\ TOTAL_RFD \in Nat /\ TOTAL_RFD >= 1 /\ ARP_CACHE_SIZE \in Nat /\ ARP_CACHE_SIZE >= 1
  /\ Pages \subseteq Nat /\ NULL \notin Pages /\ 1 .. TOTAL_RFD + 1 \subseteq Pages
  /\ Contents \subseteq Datas /\ IsFiniteSet(Pages) /\ 0 \in Slots
  /\ IPs \subseteq Nat
<1>1. TOTAL_RFD \in Nat \ {0} /\ ARP_CACHE_SIZE \in Nat \ {0}
  BY NicReceiveAssumption
<1>2. NULL \notin Pages /\ Pages \subseteq Nat
  BY NicReceiveAssumption
<1>3. 0 \in Slots
  BY <1>1 DEF Slots
<1>4. Contents \subseteq Datas
  BY NicReceiveAssumption DEF Datas
<1> QED BY <1>1, <1>2, <1>3, <1>4, NicReceiveAssumption

\* A search looks at slots of the cache.
LEMMA ProbeIs ==
  ASSUME NEW ip \in Nat, NEW i \in 1 .. ARP_CACHE_SIZE
  PROVE  ProbeFrom(ip)[i] = (ip + i - 1) % ARP_CACHE_SIZE /\ ProbeFrom(ip)[i] \in Slots
<1>1. ARP_CACHE_SIZE \in Nat /\ ARP_CACHE_SIZE >= 1
  BY Constants
<1>2. ip + i - 1 \in Nat
  BY <1>1
<1>3. (ip + i - 1) % ARP_CACHE_SIZE \in 0 .. ARP_CACHE_SIZE - 1
  BY <1>1, <1>2
<1> QED BY <1>3 DEF ProbeFrom, Slots

\* What Laid needs to know about numbers.
LEMMA FirstIs ==
  ASSUME Typed
  PROVE  /\ First \in Nat /\ Len(processed) \in Nat /\ received \in Nat
         /\ daemon.at \in Handling => First = Len(processed)
         /\ daemon.at \notin Handling => First = Len(processed) + 1
<1>1. processed \in Seq(Frames) /\ received \in Nat
  BY DEF Typed
<1>2. Len(processed) \in Nat
  BY <1>1
<1> QED BY <1>1, <1>2 DEF First

\* Steps that leave the cache and its readers alone.
LEMMA CacheKept ==
  ASSUME IInv, UNCHANGED <<arp_cache, resolver, processed>>,
         \/ daemon.at \notin Saving /\ daemon'.at \notin Saving
         \/ daemon' = daemon /\ (daemon.at \in Saving => frame'[daemon.rfd] = frame[daemon.rfd])
  PROVE  CachePart'
<1>1. CacheSearchable'
  BY DEF IInv, CachePart, CacheSearchable
<1>2. SaveInv'
  <2>1. CASE daemon'.at \notin Saving
    BY <2>1 DEF SaveInv
  <2>2. CASE daemon'.at \in Saving
    <3>1. daemon' = daemon /\ frame'[daemon.rfd] = frame[daemon.rfd]
      BY <2>2
    <3> QED BY <3>1 DEF IInv, CachePart, SaveInv, Saved, Announced, Passed
  <2> QED BY <2>1, <2>2
<1>3. \A s : Writing(s)' <=> Writing(s)
  BY DEF Writing, Saving
<1>4. CacheTrue'
  BY <1>3 DEF IInv, CachePart, CacheTrue, Announced
<1>5. \A p \in Resolvers : ResolverInv(p)'
  BY DEF IInv, CachePart, ResolverInv, Announced
<1>6. ResolversTyped'
  BY DEF IInv, CachePart, ResolversTyped
<1> QED BY <1>1, <1>2, <1>4, <1>5, <1>6 DEF CachePart

\* Steps that leave the list alone.
LEMMA ListKept ==
  ASSUME IInv, UNCHANGED <<List, Card, isr, daemon, arp_cache, processed>>
  PROVE  ListPart'
<1>1. Typed' /\ InOrder'
  BY DEF IInv, ListPart, Typed, InOrder, List, Card
<1>2. CASE RanOff
  BY <1>1, <1>2 DEF ListPart, ListInv, RanOff, List
<1>3. CASE ~RanOff
  <2>1. PICK at \in [Nat -> Pages], e \in Nat, k \in Nat : Laid(at, e, k)
    BY <1>3 DEF IInv, ListPart, ListInv
  <2>2. First' = First
    BY DEF First
  <2>3. Laid(at, e, k)'
    BY <2>1, <2>2 DEF Laid, Behind, Distinct, Linked, Filled, Flagged, Ends, RuStands,
                      DaemonHas, List, Card
  <2> QED BY <1>1, <2>3 DEF ListPart, ListInv
<1> QED BY <1>2, <1>3

-----------------------------------------------------------------------------
(* The card and the handler *)

\* The RU fills its descriptor and moves on, or stops at the end of the list.
LEMMA ReceiveOK ==
  ASSUME IInv, ~RanOff, NEW c \in Contents, ru_receive(c)
  PROVE  IInv'
<1> DEFINE f == [n |-> received + 1, data |-> c]
           z == received + 1
<1>1. Typed /\ InOrder /\ CachePart
  BY DEF IInv, ListPart
<1>2. PICK at \in [Nat -> Pages], e \in Nat, k \in Nat : Laid(at, e, k)
  BY DEF IInv, ListPart, ListInv
<1>3. /\ ru.state = "ready" /\ frame' = [frame EXCEPT ![ru.at] = f] /\ received' = z
      /\ ru' = IF el[ru.at] THEN [ru EXCEPT !.state = "no resources"]
               ELSE [ru EXCEPT !.at = link[ru.at]]
      /\ fr' = TRUE
      /\ UNCHANGED <<rfa, link, el, used, isr, arp_cache, daemon, resolver, processed>>
  BY DEF ru_receive, List
<1>4. /\ First \in Nat /\ received \in Nat /\ z \in First .. e /\ ru.at = at[z] /\ at[z] \in Pages
      /\ z >= k
  <2>1. First \in Nat /\ received \in Nat
    BY <1>1, FirstIs
  <2>2. z <= e /\ ru.at = at[z]
    BY <1>2, <1>3 DEF Laid, RuStands
  <2>3. First <= k /\ k <= z
    BY <1>2 DEF Laid, Behind
  <2> QED BY <2>1, <2>2, <2>3
<1>5. f \in Frames
  BY <1>4, Constants DEF Frames
<1> HIDE DEF f
<1>6. Typed'
  <2>1. frame' \in [Pages -> Frames]
    BY <1>1, <1>3, <1>5 DEF Typed
  <2>2. ru' \in [state : {"off", "ready", "no resources"}, at : Links]
    BY <1>1, <1>3, <1>4 DEF Typed, Links
  <2>3. received \in Nat /\ received' = received + 1
    BY <1>3, <1>4
  <2>4. received' \in Nat
    BY <2>3
  <2> QED BY <1>1, <1>3, <2>1, <2>2, <2>4, Zenon DEF Typed
<1>7. First' = First
  BY <1>3 DEF First
<1>8. ASSUME NEW i \in First .. e, i <= z PROVE frame'[at[i]].n = i
  <2>1. CASE i = z
    BY <1>1, <1>3, <1>4, <2>1 DEF Typed, f
  <2>2. CASE i # z
    <3>1. at[i] # at[z] /\ i <= received /\ at[i] \in Pages
      BY <1>2, <1>4, <1>8, <2>2 DEF Laid, Distinct
    <3>2. frame'[at[i]] = frame[at[i]]
      BY <1>1, <1>3, <1>4, <3>1 DEF Typed
    <3> QED BY <1>2, <3>1, <3>2 DEF Laid, Filled
  <2> QED BY <2>1, <2>2
<1>9. ru'.state = "ready" => z + 1 <= e /\ ru'.at = at[z + 1]
  <2> SUFFICES ASSUME ru'.state = "ready" PROVE z + 1 <= e /\ ru'.at = at[z + 1]
    OBVIOUS
  <2>1. ~el[ru.at] /\ ru'.at = link[ru.at]
    BY <1>1, <1>3 DEF Typed
  <2>2. z # e /\ link[at[z]] = at[z + 1]
    BY <1>2, <1>4, <2>1 DEF Laid, Linked, Flagged
  <2> QED BY <1>4, <2>1, <2>2
<1>10. Laid(at, e, k)'
  <2>1. Behind(e, k)'
    <3>1. First <= k /\ k <= e /\ k <= z /\ k <= z + 1
      BY <1>2, <1>4 DEF Laid, Behind
    <3> QED BY <1>3, <1>7, <3>1, Zenon DEF Behind
  <2>2. Distinct(at, e)' /\ Linked(at, e)' /\ Flagged(at, e)' /\ Ends(at, e, k)'
    BY <1>2, <1>3, <1>7 DEF Laid, Distinct, Linked, Flagged, Ends
  <2>3. Filled(at, e)'
    BY <1>3, <1>7, <1>8 DEF Filled
  <2>4. RuStands(at, e)'
    <3>1. z <= e /\ daemon.at # "start"
      BY <1>2, <1>3, <1>4 DEF Laid, RuStands
    <3> QED BY <1>3, <1>9, <3>1 DEF RuStands
  <2>5. DaemonHas(at, e, k)'
    BY <1>2, <1>3, <1>7 DEF Laid, DaemonHas
  <2> QED BY <2>1, <2>2, <2>3, <2>4, <2>5 DEF Laid
<1>11. ListPart'
  BY <1>1, <1>3, <1>6, <1>10 DEF ListPart, ListInv, InOrder
<1>12. daemon.at \in Saving => frame'[daemon.rfd] = frame[daemon.rfd]
  <2> SUFFICES ASSUME daemon.at \in Saving PROVE frame'[daemon.rfd] = frame[daemon.rfd]
    OBVIOUS
  <2>1. daemon.rfd = at[First] /\ First < k
    BY <1>2 DEF Laid, DaemonHas, Ends, Handling
  <2>2. at[First] # at[z]
    BY <1>2, <1>4, <2>1 DEF Laid, Distinct
  <2>3. at[First] \in Pages
    BY <1>4
  <2> QED BY <1>1, <1>3, <1>4, <2>1, <2>2, <2>3 DEF Typed
<1>13. CachePart'
  BY <1>3, <1>12, CacheKept
<1> QED BY <1>11, <1>13 DEF IInv

\* The handler moves rfa.next by one descriptor, or off the list.
LEMMA HandlerOK ==
  ASSUME IInv, ~RanOff, handler
  PROVE  IInv'
<1>1. Typed /\ InOrder
  BY DEF IInv, ListPart
<1>2. PICK at \in [Nat -> Pages], e \in Nat, k \in Nat : Laid(at, e, k)
  BY DEF IInv, ListPart, ListInv
<1>3. /\ ~isr /\ fr /\ rfa' = [rfa EXCEPT !.next = link[rfa.next]] /\ isr' = TRUE
      /\ UNCHANGED <<link, el, used, ru, fr, frame, received, arp_cache, daemon, resolver,
                     processed>>
  BY DEF handler, Card
<1>4. /\ First \in Nat /\ received \in Nat /\ k \in First .. e /\ rfa.next = at[k]
      /\ at[k] \in Pages /\ First' = First /\ k <= received
  <2>1. First' = First
    BY <1>3 DEF First
  <2>2. First \in Nat /\ received \in Nat
    BY <1>1, FirstIs
  <2>3. First <= k /\ k <= e /\ k <= received
    BY <1>2, <1>3 DEF Laid, Behind
  <2>4. rfa.next = at[k]
    BY <1>2 DEF Laid, Ends
  <2> QED BY <2>1, <2>2, <2>3, <2>4
<1>5. /\ rfa' \in [head : Links, next : Links, tail : Links]
      /\ rfa'.head = rfa.head /\ rfa'.tail = rfa.tail /\ rfa'.next = link[at[k]]
  BY <1>1, <1>3, <1>4 DEF Typed
<1>6. Typed' /\ InOrder'
  BY <1>1, <1>3, <1>5 DEF Typed, InOrder
<1>7. CASE k = e
  <2>1. RanOff'
    BY <1>2, <1>4, <1>5, <1>7 DEF Laid, Linked, RanOff
  <2> QED BY <1>3, <1>6, <2>1, CacheKept DEF IInv, ListPart, ListInv
<1>8. CASE k # e
  <2>1. link[at[k]] = at[k + 1] /\ k + 1 <= e /\ k + 1 \in Nat
    BY <1>2, <1>4, <1>8 DEF Laid, Linked
  <2>2. Behind(e, k + 1)'
    <3>1. First <= k + 1 /\ k + 1 <= received + 1
      BY <1>4
    <3> QED BY <1>3, <1>4, <2>1, <3>1 DEF Behind
  <2>3. Distinct(at, e)' /\ Linked(at, e)' /\ Filled(at, e)' /\ Flagged(at, e)' /\ RuStands(at, e)'
    BY <1>2, <1>3, <1>4 DEF Laid, Distinct, Linked, Filled, Flagged, RuStands
  <2>4. Ends(at, e, k + 1)'
    BY <1>2, <1>3, <1>4, <1>5, <2>1 DEF Laid, Ends
  <2>5. DaemonHas(at, e, k + 1)'
    <3>1. First < k => First < k + 1
      BY <1>4
    <3> QED BY <1>2, <1>3, <1>4, <1>5, <3>1 DEF Laid, DaemonHas
  <2>6. ListInv'
    BY <2>1, <2>2, <2>3, <2>4, <2>5 DEF ListInv, Laid
  <2> QED BY <1>3, <1>6, <2>6, CacheKept DEF IInv, ListPart
<1> QED BY <1>7, <1>8

\* The rest of the handler only changes fr and isr.
LEMMA AckOK ==
  ASSUME IInv, ~RanOff, handler_other \/ handler_ack
  PROVE  IInv'
<1>1. Typed /\ InOrder
  BY DEF IInv, ListPart
<1>2. PICK at \in [Nat -> Pages], e \in Nat, k \in Nat : Laid(at, e, k)
  BY DEF IInv, ListPart, ListInv
<1>3. /\ isr' \in BOOLEAN /\ fr' \in BOOLEAN /\ ~(fr' /\ ~isr')
      /\ UNCHANGED <<rfa, link, el, used, ru, frame, received, arp_cache, daemon, resolver,
                     processed>>
  BY <1>1 DEF handler_other, handler_ack, Card, List, Typed
<1>4. First' = First
  BY <1>3 DEF First
<1>5. Typed' /\ InOrder'
  BY <1>1, <1>3 DEF Typed, InOrder
<1>6. Laid(at, e, k)'
  BY <1>2, <1>3, <1>4 DEF Laid, Behind, Distinct, Linked, Filled, Flagged, Ends, RuStands,
                          DaemonHas
<1> QED BY <1>3, <1>5, <1>6, CacheKept DEF IInv, ListPart, ListInv

-----------------------------------------------------------------------------
(* nic_rx_daemon: the list *)

\* The daemon goes from one place to the next.
LEMMA DaemonMoves ==
  ASSUME Typed, NEW from \in DaemonAt, NEW to \in DaemonAt, Daemon(from, to)
  PROVE  /\ daemon.at = from /\ daemon'.at = to /\ daemon'.rfd = daemon.rfd
         /\ daemon'.slot = daemon.slot /\ daemon'.new = daemon.new
         /\ daemon' \in [at : DaemonAt, rfd : Links, slot : Slots, new : Links]
         /\ ~isr
<1>1. daemon \in [at : DaemonAt, rfd : Links, slot : Slots, new : Links]
  BY DEF Typed
<1> QED BY <1>1 DEF Daemon

\* The places.
LEMMA Places ==
  /\ {"start", "test", "free", "alloc", "link", "unset", "tail", "head",
      "ip", "filled", "mac1", "mac2"} \subseteq DaemonAt
  /\ {"start", "test", "free", "alloc", "link", "unset", "tail"} \cap Handling = {}
  /\ Saving \subseteq Handling /\ "head" \in Handling /\ "head" \notin Saving
  /\ {"ip", "filled", "mac1", "mac2"} = Saving
BY DEF DaemonAt, Handling, Saving

\* The RU is started at the first descriptor.
LEMMA EnableOK ==
  ASSUME IInv, ~RanOff, enable_rx
  PROVE  IInv'
<1>1. Typed /\ InOrder
  BY DEF IInv, ListPart
<1>2. PICK at \in [Nat -> Pages], e \in Nat, k \in Nat : Laid(at, e, k)
  BY DEF IInv, ListPart, ListInv
<1>3. /\ ru' = [state |-> "ready", at |-> rfa.next] /\ Daemon("start", "test")
      /\ UNCHANGED <<rfa, link, el, used, fr, frame, received, isr, arp_cache, resolver,
                     processed>>
  BY DEF enable_rx, List
<1>4. /\ daemon.at = "start" /\ daemon'.at = "test"
      /\ daemon' \in [at : DaemonAt, rfd : Links, slot : Slots, new : Links]
  BY <1>1, <1>3, DaemonMoves, Places
<1>5. First \in Nat /\ First' = First /\ First = Len(processed) + 1 /\ Len(processed) \in Nat
  BY <1>1, <1>3, <1>4, FirstIs, Places DEF First
<1>6. k = received + 1 /\ rfa.next = at[k] /\ k <= e
  <2>1. received = 0 /\ First <= k /\ k <= received + 1 /\ rfa.next = at[k] /\ k <= e
    BY <1>2, <1>4 DEF Laid, RuStands, Behind, Ends
  <2> QED BY <1>5, <2>1
<1>7. Typed' /\ InOrder'
  <2>1. ru' \in [state : {"off", "ready", "no resources"}, at : Links]
    BY <1>1, <1>3 DEF Typed
  <2> QED BY <1>1, <1>3, <1>4, <2>1 DEF Typed, InOrder
<1>8. /\ Behind(e, k)' /\ Distinct(at, e)' /\ Linked(at, e)' /\ Filled(at, e)' /\ Flagged(at, e)'
      /\ Ends(at, e, k)'
  BY <1>2, <1>3, <1>4, <1>5 DEF Laid, Behind, Distinct, Linked, Filled, Flagged, Ends
<1>9. RuStands(at, e)' /\ DaemonHas(at, e, k)'
  BY <1>2, <1>3, <1>4, <1>6, Places DEF Laid, RuStands, DaemonHas
<1>10. ListInv'
  BY <1>8, <1>9 DEF ListInv, Laid
<1>11. daemon.at \notin Saving /\ daemon'.at \notin Saving
  BY <1>4, Places
<1> QED BY <1>3, <1>7, <1>10, <1>11, CacheKept DEF IInv, ListPart

\* rfa.head leaves the descriptor that was processed.
LEMMA HeadOK ==
  ASSUME IInv, ~RanOff, advance_head
  PROVE  IInv'
<1>1. Typed /\ InOrder
  BY DEF IInv, ListPart
<1>2. PICK at \in [Nat -> Pages], e \in Nat, k \in Nat : Laid(at, e, k)
  BY DEF IInv, ListPart, ListInv
<1>3. /\ rfa' = [rfa EXCEPT !.head = link[daemon.rfd]] /\ Daemon("head", "free")
      /\ UNCHANGED <<link, el, used, ru, fr, frame, received, isr, arp_cache, resolver,
                     processed>>
  BY DEF advance_head, Card
<1>4. /\ daemon.at = "head" /\ daemon'.at = "free" /\ daemon'.rfd = daemon.rfd
      /\ daemon' \in [at : DaemonAt, rfd : Links, slot : Slots, new : Links]
  BY <1>1, <1>3, DaemonMoves, Places
<1>5. First \in Nat /\ First' = First + 1
  BY <1>1, <1>3, <1>4, FirstIs, Places DEF First
<1>6. /\ First < k /\ k <= e /\ daemon.rfd = at[First] /\ at[First] \in Pages
      /\ First \in First .. e
  <2>1. First < k /\ k <= e /\ daemon.rfd = at[First]
    BY <1>2, <1>4, Places DEF Laid, DaemonHas, Behind, Ends
  <2> QED BY <1>5, <2>1
<1>7. link[daemon.rfd] = at[First + 1]
  BY <1>2, <1>5, <1>6 DEF Laid, Linked
<1>8. /\ rfa' \in [head : Links, next : Links, tail : Links]
      /\ rfa'.head = at[First + 1] /\ rfa'.tail = rfa.tail /\ rfa'.next = rfa.next
  BY <1>1, <1>3, <1>6, <1>7 DEF Typed
<1>9. Typed' /\ InOrder'
  BY <1>1, <1>3, <1>4, <1>8 DEF Typed, InOrder
<1>10. First' .. e \subseteq First .. e /\ First' <= k /\ \A i \in First' .. e : i # First
  BY <1>5, <1>6
<1>11. Behind(e, k)'
  BY <1>2, <1>3, <1>10 DEF Laid, Behind
<1>12. Distinct(at, e)' /\ Linked(at, e)' /\ Filled(at, e)'
  BY <1>2, <1>3, <1>10 DEF Laid, Distinct, Linked, Filled
<1>13. Flagged(at, e)' /\ RuStands(at, e)' /\ Ends(at, e, k)'
  BY <1>2, <1>3, <1>4, <1>5, <1>8, <1>10 DEF Laid, Flagged, RuStands, Ends
<1>14. DaemonHas(at, e, k)'
  <2>1. \A i \in First' .. e : at[i] # daemon'.rfd
    BY <1>2, <1>4, <1>6, <1>10 DEF Laid, Distinct
  <2> QED BY <1>4, <2>1, Places DEF DaemonHas
<1>15. ListInv'
  BY <1>11, <1>12, <1>13, <1>14 DEF ListInv, Laid
<1>16. daemon.at \notin Saving /\ daemon'.at \notin Saving
  BY <1>4, Places
<1> QED BY <1>3, <1>9, <1>15, <1>16, CacheKept DEF IInv, ListPart

\* The page that was taken off the list is given back.
LEMMA FreeOK ==
  ASSUME IInv, ~RanOff, free_rfd
  PROVE  IInv'
<1>1. Typed /\ InOrder
  BY DEF IInv, ListPart
<1>2. PICK at \in [Nat -> Pages], e \in Nat, k \in Nat : Laid(at, e, k)
  BY DEF IInv, ListPart, ListInv
<1>3. /\ used' = used \ {daemon.rfd} /\ Daemon("free", "alloc")
      /\ UNCHANGED <<rfa, link, el, ru, fr, frame, received, isr, arp_cache, resolver,
                     processed>>
  BY DEF free_rfd, Card
<1>4. /\ daemon.at = "free" /\ daemon'.at = "alloc"
      /\ daemon' \in [at : DaemonAt, rfd : Links, slot : Slots, new : Links]
  BY <1>1, <1>3, DaemonMoves, Places
<1>5. First' = First
  BY <1>3, <1>4, Places DEF First
<1>6. Typed' /\ InOrder'
  BY <1>1, <1>3, <1>4 DEF Typed, InOrder
<1>7. \A i \in First .. e : at[i] # daemon.rfd
  BY <1>2, <1>4 DEF Laid, DaemonHas
<1>8. Linked(at, e)'
  BY <1>2, <1>3, <1>5, <1>7 DEF Laid, Linked
<1>9. Behind(e, k)' /\ Distinct(at, e)' /\ Filled(at, e)' /\ Flagged(at, e)'
  BY <1>2, <1>3, <1>4, <1>5 DEF Laid, Behind, Distinct, Filled, Flagged
<1>10. RuStands(at, e)' /\ Ends(at, e, k)' /\ DaemonHas(at, e, k)'
  BY <1>2, <1>3, <1>4, <1>5, Places DEF Laid, RuStands, Ends, DaemonHas
<1>11. ListInv'
  BY <1>8, <1>9, <1>10 DEF ListInv, Laid
<1>12. daemon.at \notin Saving /\ daemon'.at \notin Saving
  BY <1>4, Places
<1> QED BY <1>3, <1>6, <1>11, <1>12, CacheKept DEF IInv, ListPart

\* A page that is not in use becomes a descriptor.
LEMMA NewTailOK ==
  ASSUME IInv, ~RanOff, NEW page \in Pages, make_new_tail(page)
  PROVE  IInv'
<1>1. Typed /\ InOrder
  BY DEF IInv, ListPart
<1>2. PICK at \in [Nat -> Pages], e \in Nat, k \in Nat : Laid(at, e, k)
  BY DEF IInv, ListPart, ListInv
<1>3. /\ daemon.at = "alloc" /\ page \notin used
      /\ daemon' = [daemon EXCEPT !.at = "link", !.new = page]
      /\ used' = used \cup {page} /\ link' = [link EXCEPT ![page] = NULL]
      /\ el' = [el EXCEPT ![page] = TRUE] /\ frame' = [frame EXCEPT ![page] = NoFrame]
      /\ UNCHANGED <<rfa, ru, fr, received, isr, arp_cache, resolver, processed>>
  BY DEF make_new_tail
<1>4. /\ daemon'.at = "link" /\ daemon'.new = page
      /\ daemon' \in [at : DaemonAt, rfd : Links, slot : Slots, new : Links]
  <2>1. daemon \in [at : DaemonAt, rfd : Links, slot : Slots, new : Links]
    BY <1>1 DEF Typed
  <2> QED BY <1>3, <2>1, Places DEF Links
<1>5. First' = First /\ First \in Nat /\ e \in First .. e
  <2>1. First' = First
    BY <1>3, <1>4, Places DEF First
  <2>2. First \in Nat
    BY <1>1, FirstIs
  <2>3. First <= k /\ k <= e
    BY <1>2 DEF Laid, Behind
  <2> QED BY <2>1, <2>2, <2>3
<1>6. NoFrame \in Frames
  BY DEF NoFrame, Frames, Datas
<1>7. /\ used' \subseteq Pages /\ link' \in [Pages -> Links] /\ el' \in [Pages -> BOOLEAN]
      /\ frame' \in [Pages -> Frames]
      /\ link'[page] = NULL /\ el'[page]
      /\ \A q \in Pages : q # page => /\ link'[q] = link[q] /\ el'[q] = el[q]
                                      /\ frame'[q] = frame[q]
  BY <1>1, <1>3, <1>6 DEF Typed, Links
<1>8. Typed' /\ InOrder'
  BY <1>1, <1>3, <1>4, <1>7 DEF Typed, InOrder
<1>9. \A i \in First .. e : at[i] # page /\ at[i] \in Pages
  BY <1>2, <1>3, <1>5 DEF Laid, Linked
<1>10. Behind(e, k)' /\ Distinct(at, e)'
  BY <1>2, <1>3, <1>5 DEF Laid, Behind, Distinct
<1>11. Linked(at, e)' /\ Filled(at, e)'
  BY <1>2, <1>3, <1>5, <1>7, <1>9 DEF Laid, Linked, Filled
<1>12. Flagged(at, e)'
  <2>1. el'[at[e]] = el[at[e]]
    BY <1>5, <1>7, <1>9
  <2>2. \A i \in First .. e : el'[at[i]] => i = e
    BY <1>2, <1>3, <1>7, <1>9 DEF Laid, Flagged
  <2> QED BY <1>2, <1>5, <2>1, <2>2 DEF Laid, Flagged
<1>13. RuStands(at, e)' /\ Ends(at, e, k)'
  BY <1>2, <1>3, <1>4, <1>5 DEF Laid, RuStands, Ends
<1>14. DaemonHas(at, e, k)'
  BY <1>3, <1>4, <1>5, <1>7, <1>9, Places DEF DaemonHas
<1>15. ListInv'
  BY <1>10, <1>11, <1>12, <1>13, <1>14 DEF ListInv, Laid
<1>16. daemon.at \notin Saving /\ daemon'.at \notin Saving
  BY <1>3, <1>4, Places
<1> QED BY <1>3, <1>8, <1>15, <1>16, CacheKept DEF IInv, ListPart

\* The new descriptor joins the list.
LEMMA LinkOK ==
  ASSUME IInv, ~RanOff, link_tail
  PROVE  IInv'
<1>1. Typed /\ InOrder
  BY DEF IInv, ListPart
<1>2. PICK at \in [Nat -> Pages], e \in Nat, k \in Nat : Laid(at, e, k)
  BY DEF IInv, ListPart, ListInv
<1>3. /\ link' = [link EXCEPT ![rfa.tail] = daemon.new] /\ Daemon("link", "unset")
      /\ UNCHANGED <<rfa, el, used, ru, fr, frame, received, isr, arp_cache, resolver,
                     processed>>
  BY DEF link_tail, Card
<1>4. /\ daemon.at = "link" /\ daemon'.at = "unset" /\ daemon'.new = daemon.new
      /\ daemon' \in [at : DaemonAt, rfd : Links, slot : Slots, new : Links]
  BY <1>1, <1>3, DaemonMoves, Places
<1> DEFINE new == daemon.new
           d == e + 1
<1>5. First' = First /\ First \in Nat /\ First <= k /\ k <= e /\ e \in First .. e
  <2>1. First' = First
    BY <1>3, <1>4, Places DEF First
  <2>2. First \in Nat
    BY <1>1, FirstIs
  <2>3. First <= k /\ k <= e
    BY <1>2 DEF Laid, Behind
  <2> QED BY <2>1, <2>2, <2>3
<1>6. /\ \A i \in First .. e : at[i] # new
      /\ new \in used /\ new \in Pages /\ link[new] = NULL /\ el[new]
  BY <1>1, <1>2, <1>4 DEF Laid, DaemonHas, Typed
<1>7. PICK on \in [Nat -> Pages] :
        /\ on[d] = new /\ d \in Nat
        /\ \A i \in First .. e : on[i] = at[i] /\ i # d
        /\ \A i \in First .. d : i # d => i \in First .. e
  <2> DEFINE a == [at EXCEPT ![d] = new]
  <2>1. a \in [Nat -> Pages] /\ a[d] = new /\ d \in Nat
    BY <1>6
  <2>2. \A i \in First .. e : a[i] = at[i] /\ i # d
    BY <1>5
  <2>3. \A i \in First .. d : i # d => i \in First .. e
    BY <1>5
  <2> QED BY <2>1, <2>2, <2>3
<1>8. rfa.tail = at[e] /\ at[e] \in Pages
  BY <1>2, <1>4 DEF Laid, Ends
<1>9. /\ link' \in [Pages -> Links] /\ link'[at[e]] = new /\ link'[new] = NULL
      /\ \A q \in Pages : q # at[e] => link'[q] = link[q]
  BY <1>1, <1>3, <1>5, <1>6, <1>8 DEF Typed, Links
<1>10. Typed' /\ InOrder'
  BY <1>1, <1>3, <1>4, <1>9 DEF Typed, InOrder
<1>11. Behind(d, k)'
  <2>1. k <= d
    BY <1>5
  <2> QED BY <1>2, <1>3, <1>5, <2>1 DEF Laid, Behind
<1>12. Distinct(on, d)'
  <2>1. ASSUME NEW i \in First .. d, NEW j \in First .. d, i # j PROVE on[i] # on[j]
    BY <1>2, <1>6, <1>7, <2>1 DEF Laid, Distinct
  <2> QED BY <1>5, <2>1 DEF Distinct
<1>13. Linked(on, d)'
  <2>1. ASSUME NEW i \in First .. d
        PROVE  on[i] \in used /\ link'[on[i]] = IF i = d THEN NULL ELSE on[i + 1]
    <3>1. CASE i = d
      BY <1>6, <1>7, <1>9, <3>1
    <3>2. CASE i # d /\ i = e
      BY <1>2, <1>5, <1>7, <1>9, <3>2 DEF Laid, Linked
    <3>3. CASE i # d /\ i # e
      <4>1. i \in First .. e /\ i + 1 \in First .. e
        BY <1>5, <1>7, <3>3
      <4>2. at[i] # at[e] /\ at[i] \in Pages
        BY <1>2, <1>5, <3>3, <4>1 DEF Laid, Distinct
      <4>3. at[i] \in used /\ link[at[i]] = at[i + 1]
        BY <1>2, <3>3, <4>1 DEF Laid, Linked
      <4> QED BY <1>7, <1>9, <3>3, <4>1, <4>2, <4>3
    <3> QED BY <3>1, <3>2, <3>3
  <2> QED BY <1>3, <1>5, <2>1 DEF Linked
<1>14. Filled(on, d)'
  <2>1. received <= e /\ received \in Nat
    BY <1>1, <1>2 DEF Laid, RuStands, Typed
  <2>2. ASSUME NEW i \in First .. d, i <= received PROVE frame[on[i]].n = i
    <3>1. i # d
      BY <2>1, <2>2
    <3> QED BY <1>2, <1>7, <2>2, <3>1 DEF Laid, Filled
  <2> QED BY <1>3, <1>5, <2>2 DEF Filled
<1>15. Flagged(on, d)'
  <2>1. ASSUME NEW i \in First .. d, el[on[i]] PROVE i = d \/ i = d - 1
    <3>1. CASE i # d
      <4>1. i \in First .. e /\ el[at[i]]
        BY <1>7, <2>1, <3>1
      <4>2. i = e
        BY <1>2, <1>4, <4>1 DEF Laid, Flagged
      <4> QED BY <1>5, <4>2
    <3> QED BY <3>1
  <2>2. el[on[d]]
    BY <1>6, <1>7
  <2> QED BY <1>3, <1>4, <1>5, <2>1, <2>2 DEF Flagged
<1>16. Ends(on, d, k)'
  <2>1. on[First] = at[First] /\ on[k] = at[k] /\ on[d - 1] = at[e] /\ First < d
    BY <1>5, <1>7
  <2> QED BY <1>2, <1>3, <1>4, <1>5, <1>7, <1>8, <2>1 DEF Laid, Ends
<1>17. RuStands(on, d)'
  <2>1. received \in Nat /\ received <= e
    BY <1>1, <1>2 DEF Laid, RuStands, Typed
  <2>2. received <= d /\ (received + 1 <= e => received + 1 <= d)
    BY <2>1
  <2>3. received + 1 <= e => on[received + 1] = at[received + 1]
    <3>1. k <= received + 1
      BY <1>2 DEF Laid, Behind
    <3> QED BY <1>5, <1>7, <2>1, <3>1
  <2> QED BY <1>2, <1>3, <1>4, <2>2, <2>3 DEF Laid, RuStands
<1>18. DaemonHas(on, d, k)'
  BY <1>4, Places DEF DaemonHas
<1>19. ListInv'
  <2>1. Laid(on, d, k)'
    BY <1>11, <1>12, <1>13, <1>14, <1>15, <1>16, <1>17, <1>18 DEF Laid
  <2> QED BY <1>7, <2>1 DEF ListInv
<1>20. daemon.at \notin Saving /\ daemon'.at \notin Saving
  BY <1>4, Places
<1> QED BY <1>3, <1>10, <1>19, <1>20, CacheKept DEF IInv, ListPart

\* The old end of the list loses its flag.
LEMMA UnsetOK ==
  ASSUME IInv, ~RanOff, unset_el
  PROVE  IInv'
<1>1. Typed /\ InOrder
  BY DEF IInv, ListPart
<1>2. PICK at \in [Nat -> Pages], e \in Nat, k \in Nat : Laid(at, e, k)
  BY DEF IInv, ListPart, ListInv
<1>3. /\ el' = [el EXCEPT ![rfa.tail] = FALSE] /\ Daemon("unset", "tail")
      /\ UNCHANGED <<rfa, link, used, ru, fr, frame, received, isr, arp_cache, resolver,
                     processed>>
  BY DEF unset_el, Card
<1>4. /\ daemon.at = "unset" /\ daemon'.at = "tail" /\ daemon'.new = daemon.new
      /\ daemon' \in [at : DaemonAt, rfd : Links, slot : Slots, new : Links]
  BY <1>1, <1>3, DaemonMoves, Places
<1>5. First' = First /\ First \in Nat /\ First < e /\ rfa.tail = at[e - 1]
  <2>1. First' = First
    BY <1>3, <1>4, Places DEF First
  <2>2. First \in Nat
    BY <1>1, FirstIs
  <2> QED BY <1>2, <1>4, <2>1, <2>2 DEF Laid, Ends
<1>6. /\ e - 1 \in First .. e /\ e \in First .. e /\ e # e - 1
      /\ at[e - 1] \in Pages /\ at[e] # at[e - 1]
  <2>1. e - 1 \in First .. e /\ e \in First .. e /\ e # e - 1
    BY <1>5
  <2> QED BY <1>2, <1>5, <2>1 DEF Laid, Distinct
<1>7. /\ el' \in [Pages -> BOOLEAN] /\ ~el'[at[e - 1]]
      /\ \A q \in Pages : q # at[e - 1] => el'[q] = el[q]
  BY <1>1, <1>3, <1>5, <1>6 DEF Typed
<1>8. Typed' /\ InOrder'
  BY <1>1, <1>3, <1>4, <1>7 DEF Typed, InOrder
<1>9. Behind(e, k)' /\ Distinct(at, e)' /\ Linked(at, e)' /\ Filled(at, e)'
  BY <1>2, <1>3, <1>5 DEF Laid, Behind, Distinct, Linked, Filled
<1>10. Flagged(at, e)'
  <2>1. ASSUME NEW i \in First .. e, el'[at[i]] PROVE i = e
    <3>1. at[i] # at[e - 1] /\ i # e - 1 /\ at[i] \in Pages
      BY <1>5, <1>7, <2>1
    <3>2. el[at[i]]
      BY <1>7, <2>1, <3>1
    <3> QED BY <1>2, <3>1, <3>2 DEF Laid, Flagged
  <2>2. el'[at[e]] = el[at[e]]
    BY <1>6, <1>7
  <2> QED BY <1>2, <1>5, <2>1, <2>2 DEF Laid, Flagged
<1>11. RuStands(at, e)' /\ Ends(at, e, k)' /\ DaemonHas(at, e, k)'
  BY <1>2, <1>3, <1>4, <1>5, Places DEF Laid, RuStands, Ends, DaemonHas
<1>12. ListInv'
  BY <1>9, <1>10, <1>11 DEF ListInv, Laid
<1>13. daemon.at \notin Saving /\ daemon'.at \notin Saving
  BY <1>4, Places
<1> QED BY <1>3, <1>8, <1>12, <1>13, CacheKept DEF IInv, ListPart

\* rfa.tail moves to the new end.
LEMMA TailOK ==
  ASSUME IInv, ~RanOff, advance_tail
  PROVE  IInv'
<1>1. Typed /\ InOrder
  BY DEF IInv, ListPart
<1>2. PICK at \in [Nat -> Pages], e \in Nat, k \in Nat : Laid(at, e, k)
  BY DEF IInv, ListPart, ListInv
<1>3. /\ rfa' = [rfa EXCEPT !.tail = link[rfa.tail]] /\ Daemon("tail", "test")
      /\ UNCHANGED <<link, el, used, ru, fr, frame, received, isr, arp_cache, resolver,
                     processed>>
  BY DEF advance_tail, Card
<1>4. /\ daemon.at = "tail" /\ daemon'.at = "test"
      /\ daemon' \in [at : DaemonAt, rfd : Links, slot : Slots, new : Links]
  BY <1>1, <1>3, DaemonMoves, Places
<1>5. First' = First /\ First \in Nat /\ First < e /\ rfa.tail = at[e - 1]
  <2>1. First' = First
    BY <1>3, <1>4, Places DEF First
  <2>2. First \in Nat
    BY <1>1, FirstIs
  <2> QED BY <1>2, <1>4, <2>1, <2>2 DEF Laid, Ends
<1>6. link[rfa.tail] = at[e] /\ at[e] \in Pages
  <2>1. e - 1 \in First .. e /\ e - 1 # e /\ e - 1 + 1 = e
    BY <1>5
  <2> QED BY <1>2, <1>5, <2>1 DEF Laid, Linked
<1>7. /\ rfa' \in [head : Links, next : Links, tail : Links]
      /\ rfa'.head = rfa.head /\ rfa'.next = rfa.next /\ rfa'.tail = at[e]
  BY <1>1, <1>3, <1>6 DEF Typed, Links
<1>8. Typed' /\ InOrder'
  BY <1>1, <1>3, <1>4, <1>7 DEF Typed, InOrder
<1>9. Behind(e, k)' /\ Distinct(at, e)' /\ Linked(at, e)' /\ Filled(at, e)'
  BY <1>2, <1>3, <1>5 DEF Laid, Behind, Distinct, Linked, Filled
<1>10. Flagged(at, e)'
  BY <1>2, <1>3, <1>4, <1>5 DEF Laid, Flagged
<1>11. RuStands(at, e)' /\ Ends(at, e, k)' /\ DaemonHas(at, e, k)'
  BY <1>2, <1>3, <1>4, <1>5, <1>7, Places DEF Laid, RuStands, Ends, DaemonHas
<1>12. ListInv'
  BY <1>9, <1>10, <1>11 DEF ListInv, Laid
<1>13. daemon.at \notin Saving /\ daemon'.at \notin Saving
  BY <1>4, Places
<1> QED BY <1>3, <1>8, <1>12, <1>13, CacheKept DEF IInv, ListPart

-----------------------------------------------------------------------------
(* nic_rx_daemon: the cache *)

\* The first place that fits.
LEMMA MinIs ==
  ASSUME NEW S, S \subseteq Nat, S # {}
  PROVE  Min(S) \in S /\ \A y \in S : Min(S) <= y
<1>1. \E x \in S : \A y \in S : x <= y
  BY LeastNat
<1> QED BY <1>1, Zenon DEF Min

\* What was announced stays announced.
LEMMA AnnouncedMore ==
  ASSUME processed \in Seq(Frames), NEW f \in Frames, processed' = Append(processed, f)
  PROVE  /\ \A ip, mac : Announced(ip, mac) => Announced(ip, mac)'
         /\ Announced(f.data.ip, f.data.mac)'
<1>1. /\ Len(processed) \in Nat /\ Len(processed') = Len(processed) + 1
      /\ \A i \in 1 .. Len(processed) : processed'[i] = processed[i]
      /\ processed'[Len(processed) + 1] = f
  OBVIOUS
<1>2. /\ 1 .. Len(processed) \subseteq 1 .. Len(processed')
      /\ Len(processed) + 1 \in 1 .. Len(processed')
  BY <1>1
<1>3. ASSUME NEW ip, NEW mac, Announced(ip, mac) PROVE Announced(ip, mac)'
  BY <1>1, <1>2, <1>3 DEF Announced
<1>4. Announced(f.data.ip, f.data.mac)'
  BY <1>1, <1>2 DEF Announced
<1> QED BY <1>3, <1>4

\* A frame is taken from the head of the list.
LEMMA ProcessOK ==
  ASSUME IInv, ~RanOff, process_frame
  PROVE  IInv'
<1>1. Typed /\ InOrder /\ CachePart
  BY DEF IInv, ListPart
<1>2. PICK at \in [Nat -> Pages], e \in Nat, k \in Nat : Laid(at, e, k)
  BY DEF IInv, ListPart, ListInv
<1>3. PICK f, fits, save :
        /\ f = frame[rfa.head] /\ fits = Fitting(f.data.ip)
        /\ save = (f.data # NotArp /\ fits # {})
        /\ daemon' = [at |-> IF save THEN "ip" ELSE "head", rfd |-> rfa.head,
                      slot |-> IF save THEN ProbeFrom(f.data.ip)[Min(fits)] ELSE 0,
                      new |-> NULL]
        /\ processed' = Append(processed, f)
  BY DEF process_frame
<1>4. /\ daemon.at = "test" /\ rfa.head # rfa.next
      /\ UNCHANGED <<rfa, link, el, used, ru, fr, frame, received, isr, arp_cache, resolver>>
  BY DEF process_frame, List, Card
<1>5. /\ First \in Nat /\ First = Len(processed) + 1 /\ Len(processed) \in Nat
      /\ received \in Nat
  BY <1>1, <1>4, FirstIs, Places
<1>6. /\ rfa.head = at[First] /\ rfa.next = at[k] /\ First <= k /\ k <= e
      /\ k <= received + 1
  BY <1>2 DEF Laid, Ends, Behind
<1>7. First < k /\ First <= received /\ First \in First .. e /\ at[First] \in Pages
  <2>1. First # k
    BY <1>4, <1>6
  <2> QED BY <1>5, <1>6, <2>1
<1>8. f \in Frames /\ f.n = First
  <2>1. frame[at[First]].n = First
    BY <1>2, <1>7 DEF Laid, Filled
  <2> QED BY <1>1, <1>3, <1>6, <1>7, <2>1 DEF Typed
<1>9. /\ daemon'.at \in {"ip", "head"} /\ (daemon'.at = "ip" <=> save)
      /\ daemon'.rfd = rfa.head /\ daemon'.new = NULL
      /\ daemon'.slot = IF save THEN ProbeFrom(f.data.ip)[Min(fits)] ELSE 0
  BY <1>3
<1>10. /\ processed' \in Seq(Frames) /\ Len(processed') = First
       /\ \A i \in 1 .. Len(processed) : processed'[i] = processed[i]
       /\ processed'[First] = f
  <2>1. processed \in Seq(Frames)
    BY <1>1 DEF Typed
  <2> QED BY <1>3, <1>5, <1>8, <2>1
<1>11. InOrder'
  <2>1. ASSUME NEW i \in 1 .. First PROVE processed'[i].n = i
    <3>1. CASE i = First
      BY <1>8, <1>10, <3>1
    <3>2. CASE i # First
      <4>1. i \in 1 .. Len(processed)
        BY <1>5, <3>2
      <4> QED BY <1>1, <1>10, <4>1 DEF InOrder
    <3> QED BY <3>1, <3>2
  <2> QED BY <1>10, <2>1 DEF InOrder
<1>12. ASSUME save
       PROVE  /\ f.data \in [ip : Nat, mac : Nat]
              /\ Min(fits) \in 1 .. ARP_CACHE_SIZE /\ Min(fits) \in Fitting(f.data.ip)
              /\ ProbeFrom(f.data.ip)[Min(fits)] \in Slots
              /\ Passed(f.data.ip, Min(fits))
  <2>1. f.data \in [ip : Nat, mac : Nat]
    BY <1>3, <1>8, <1>12 DEF Frames, Datas
  <2>2. fits \subseteq Nat /\ fits # {} /\ fits \subseteq 1 .. ARP_CACHE_SIZE
    <3>1. fits # {}
      BY <1>3, <1>12, Zenon
    <3>2. fits \subseteq 1 .. ARP_CACHE_SIZE
      BY <1>3, Zenon DEF Fitting
    <3> QED BY <3>1, <3>2, Constants
  <2>3. Min(fits) \in fits /\ \A y \in fits : Min(fits) <= y
    BY <2>2, MinIs
  <2>4. Min(fits) \in 1 .. ARP_CACHE_SIZE
    BY <2>2, <2>3
  <2>5. ProbeFrom(f.data.ip)[Min(fits)] \in Slots
    BY <2>1, <2>4, ProbeIs
  <2>6. ASSUME NEW j \in 1 .. Min(fits) - 1
        PROVE  /\ arp_cache[ProbeFrom(f.data.ip)[j]].filled
               /\ arp_cache[ProbeFrom(f.data.ip)[j]].ip_addr # f.data.ip
    <3>1. j \in 1 .. ARP_CACHE_SIZE /\ ~(Min(fits) <= j)
      BY <2>4, Constants
    <3>2. j \notin fits
      BY <2>3, <3>1
    <3> QED BY <1>3, <3>1, <3>2 DEF Fitting
  <2> QED BY <1>3, <2>1, <2>3, <2>4, <2>5, <2>6 DEF Passed
<1>13. daemon' \in [at : DaemonAt, rfd : Links, slot : Slots, new : Links]
  <2>1. daemon'.slot \in Slots
    BY <1>9, <1>12, Constants
  <2>2. rfa.head \in Links /\ NULL \in Links
    BY <1>1 DEF Typed, Links
  <2>3. {"ip", "head"} \subseteq DaemonAt
    BY Places
  <2> QED BY <1>3, <2>1, <2>2, <2>3
<1>14. Typed'
  BY <1>1, <1>4, <1>10, <1>13 DEF Typed
<1>15. First' = First
  <2>1. daemon'.at \in Handling
    BY <1>9, Places
  <2> QED BY <1>5, <1>10, <2>1 DEF First
<1>16. Laid(at, e, k)'
  <2>1. Behind(e, k)' /\ Distinct(at, e)' /\ Linked(at, e)' /\ Filled(at, e)'
    BY <1>2, <1>4, <1>15 DEF Laid, Behind, Distinct, Linked, Filled
  <2>2. Flagged(at, e)' /\ Ends(at, e, k)' /\ RuStands(at, e)'
    BY <1>2, <1>4, <1>9, <1>15 DEF Laid, Flagged, Ends, RuStands
  <2>3. DaemonHas(at, e, k)'
    BY <1>4, <1>7, <1>9, <1>15 DEF DaemonHas
  <2> QED BY <2>1, <2>2, <2>3 DEF Laid
<1>17. ListPart'
  BY <1>11, <1>14, <1>16 DEF ListPart, ListInv
<1>18. /\ \A ip, mac : Announced(ip, mac) => Announced(ip, mac)'
       /\ Announced(f.data.ip, f.data.mac)'
  <2>1. processed \in Seq(Frames)
    BY <1>1 DEF Typed
  <2> QED BY <1>3, <1>8, <2>1, AnnouncedMore
<1>19. \A s : ~Writing(s) /\ ~Writing(s)'
  BY <1>4, <1>9 DEF Writing
<1>20. CacheSearchable' /\ ResolversTyped'
  BY <1>1, <1>4 DEF CachePart, CacheSearchable, ResolversTyped
<1>21. CacheTrue'
  BY <1>1, <1>4, <1>18, <1>19 DEF CachePart, CacheTrue
<1>22. \A p \in Resolvers : ResolverInv(p)'
  BY <1>1, <1>4, <1>18 DEF CachePart, ResolverInv
<1>23. SaveInv'
  <2>1. CASE ~save
    BY <1>9, <2>1, Places DEF SaveInv
  <2>2. CASE save
    <3>1. Saved' = f.data
      BY <1>3, <1>4, <1>9 DEF Saved
    <3>2. daemon'.at = "ip" /\ daemon'.slot = ProbeFrom(f.data.ip)[Min(fits)]
      BY <1>9, <2>2
    <3>3. Passed(f.data.ip, Min(fits))'
      BY <1>4, <1>12, <2>2 DEF Passed
    <3>4. arp_cache'[daemon'.slot].ip_addr = f.data.ip \/ ~arp_cache'[daemon'.slot].filled
      BY <1>4, <1>12, <2>2, <3>2 DEF Fitting
    <3> QED BY <1>12, <1>18, <2>2, <3>1, <3>2, <3>3, <3>4 DEF SaveInv
  <2> QED BY <1>3, <2>1, <2>2
<1>24. CachePart'
  BY <1>20, <1>21, <1>22, <1>23 DEF CachePart
<1> QED BY <1>17, <1>24 DEF IInv

\* The steps of save_hw_addr leave the list alone.
LEMMA SaveKeepsList ==
  ASSUME IInv, ~RanOff, NEW from \in Saving, NEW to \in Handling, Daemon(from, to),
         UNCHANGED <<List, Card, isr, processed>>,
         arp_cache' \in [Slots -> [ip_addr : Nat, filled : BOOLEAN, hw_addr : Pairs]]
  PROVE  ListPart'
<1>1. Typed /\ InOrder
  BY DEF IInv, ListPart
<1>2. PICK at \in [Nat -> Pages], e \in Nat, k \in Nat : Laid(at, e, k)
  BY DEF IInv, ListPart, ListInv
<1>3. UNCHANGED <<rfa, link, el, used, ru, fr, frame, received, isr, processed>>
  BY DEF List, Card
<1>4. /\ daemon.at = from /\ daemon'.at = to /\ daemon'.rfd = daemon.rfd
      /\ daemon' \in [at : DaemonAt, rfd : Links, slot : Slots, new : Links]
  <2>1. from \in DaemonAt /\ to \in DaemonAt
    BY DEF DaemonAt, Handling
  <2> QED BY <1>1, <2>1, DaemonMoves
<1>5. daemon.at \in Handling /\ daemon'.at \in Handling
  BY <1>4, Places
<1>6. First' = First
  BY <1>3, <1>5 DEF First
<1>7. Typed' /\ InOrder'
  BY <1>1, <1>3, <1>4 DEF Typed, InOrder
<1>8. {daemon.at, daemon'.at} \cap {"start", "unset", "tail", "free", "link"} = {}
  BY <1>5, Places
<1>9. Laid(at, e, k)'
  <2>1. Behind(e, k)' /\ Distinct(at, e)' /\ Linked(at, e)' /\ Filled(at, e)'
    BY <1>2, <1>3, <1>6 DEF Laid, Behind, Distinct, Linked, Filled
  <2>2. Flagged(at, e)' /\ Ends(at, e, k)' /\ RuStands(at, e)'
    BY <1>2, <1>3, <1>6, <1>8 DEF Laid, Flagged, Ends, RuStands
  <2>3. DaemonHas(at, e, k)'
    BY <1>2, <1>3, <1>4, <1>5, <1>6, <1>8 DEF Laid, DaemonHas
  <2> QED BY <2>1, <2>2, <2>3 DEF Laid
<1> QED BY <1>7, <1>9 DEF ListPart, ListInv

\* A step of save_hw_addr changes one slot.
LEMMA SlotChanged ==
  ASSUME NEW s \in Slots,
         arp_cache \in [Slots -> [ip_addr : Nat, filled : BOOLEAN, hw_addr : Pairs]],
         NEW new \in [ip_addr : Nat, filled : BOOLEAN, hw_addr : Pairs],
         arp_cache' = [arp_cache EXCEPT ![s] = new]
  PROVE  /\ arp_cache' \in [Slots -> [ip_addr : Nat, filled : BOOLEAN, hw_addr : Pairs]]
         /\ arp_cache'[s] = new
         /\ \A t \in Slots : t # s => arp_cache'[t] = arp_cache[t]
OBVIOUS

\* The address goes into the slot: it was free, or held the same address.
LEMMA SaveIpOK ==
  ASSUME IInv, ~RanOff, save_ip
  PROVE  IInv'
<1> DEFINE s == daemon.slot
           Entry == [ip_addr : Nat, filled : BOOLEAN, hw_addr : Pairs]
           new == [arp_cache[s] EXCEPT !.ip_addr = Saved.ip]
<1>1. Typed /\ CachePart
  BY DEF IInv, ListPart
<1>2. /\ Daemon("ip", "filled") /\ arp_cache' = [arp_cache EXCEPT ![s] = new]
      /\ UNCHANGED <<List, Card, isr, processed>> /\ UNCHANGED <<frame, resolver, processed>>
  BY DEF save_ip, Card
<1>3. /\ daemon.at = "ip" /\ daemon'.at = "filled" /\ daemon'.rfd = daemon.rfd
      /\ daemon'.slot = s /\ s \in Slots
  BY <1>1, <1>2, DaemonMoves, Places DEF Typed
<1>4. /\ Saved \in [ip : Nat, mac : Nat] /\ Announced(Saved.ip, Saved.mac)
      /\ arp_cache[s].ip_addr = Saved.ip \/ ~arp_cache[s].filled
  BY <1>1, <1>3, Places DEF CachePart, SaveInv
<1>5. PICK i \in 1 .. ARP_CACHE_SIZE : s = ProbeFrom(Saved.ip)[i] /\ Passed(Saved.ip, i)
  BY <1>1, <1>3, Places DEF CachePart, SaveInv
<1>6. arp_cache \in [Slots -> Entry] /\ arp_cache[s] \in Entry
  BY <1>1, <1>3 DEF Typed
<1>7. /\ new \in Entry /\ new.ip_addr = Saved.ip /\ new.filled = arp_cache[s].filled
      /\ new.hw_addr = arp_cache[s].hw_addr
  BY <1>4, <1>6
<1>8. /\ arp_cache' \in [Slots -> Entry] /\ arp_cache'[s] = new
      /\ \A t \in Slots : t # s => arp_cache'[t] = arp_cache[t]
  <2> HIDE DEF new, s
  <2> QED BY <1>2, <1>3, <1>6, <1>7, SlotChanged
<1>9. ListPart'
  BY <1>2, <1>8, Places, SaveKeepsList
<1> HIDE DEF new, Entry
<1>10. /\ \A t \in Slots : arp_cache'[t].filled = arp_cache[t].filled
       /\ \A t \in Slots : arp_cache'[t].hw_addr = arp_cache[t].hw_addr
       /\ \A t \in Slots : arp_cache[t].filled => arp_cache'[t].ip_addr = arp_cache[t].ip_addr
  BY <1>4, <1>7, <1>8
<1>11. \A ip, mac : Announced(ip, mac)' <=> Announced(ip, mac)
  BY <1>2 DEF Announced
<1>12. Saved' = Saved
  BY <1>2, <1>3 DEF Saved
<1>13. CacheSearchable'
  <2> SUFFICES ASSUME NEW t \in Slots, arp_cache'[t].filled, NEW j \in 1 .. ARP_CACHE_SIZE,
                      \A l \in 1 .. j : ProbeFrom(arp_cache'[t].ip_addr)[l] # t
               PROVE  /\ arp_cache'[ProbeFrom(arp_cache'[t].ip_addr)[j]].filled
                      /\ arp_cache'[ProbeFrom(arp_cache'[t].ip_addr)[j]].ip_addr
                           # arp_cache'[t].ip_addr
    BY DEF CacheSearchable
  <2>1. arp_cache[t].filled /\ arp_cache'[t].ip_addr = arp_cache[t].ip_addr
    BY <1>10
  <2>2. /\ arp_cache[ProbeFrom(arp_cache[t].ip_addr)[j]].filled
        /\ arp_cache[ProbeFrom(arp_cache[t].ip_addr)[j]].ip_addr # arp_cache[t].ip_addr
    BY <1>1, <2>1 DEF CachePart, CacheSearchable
  <2>3. arp_cache[t].ip_addr \in Nat
    BY <1>6 DEF Entry
  <2>4. ProbeFrom(arp_cache[t].ip_addr)[j] \in Slots
    BY <2>3, ProbeIs
  <2> QED BY <1>10, <2>1, <2>2, <2>4
<1>14. Passed(Saved.ip, i)'
  <2>1. ASSUME NEW j \in 1 .. i - 1
        PROVE  /\ arp_cache'[ProbeFrom(Saved.ip)[j]].filled
               /\ arp_cache'[ProbeFrom(Saved.ip)[j]].ip_addr # Saved.ip
    <3>1. j \in 1 .. ARP_CACHE_SIZE
      BY Constants
    <3>2. ProbeFrom(Saved.ip)[j] \in Slots
      BY <1>4, <3>1, ProbeIs
    <3> QED BY <1>5, <1>10, <3>2 DEF Passed
  <2> QED BY <1>12, <2>1 DEF Passed
<1>15. SaveInv'
  <2>1. arp_cache'[daemon'.slot].ip_addr = Saved'.ip
    BY <1>3, <1>7, <1>8, <1>12
  <2> QED BY <1>3, <1>4, <1>5, <1>11, <1>12, <1>14, <2>1 DEF SaveInv
<1>16. \A t : ~Writing(t) /\ ~Writing(t)'
  BY <1>3 DEF Writing
<1>17. CacheTrue'
  BY <1>1, <1>10, <1>11, <1>16 DEF CachePart, CacheTrue
<1>18. ResolversTyped'
  BY <1>1, <1>2 DEF CachePart, ResolversTyped
<1>19. ASSUME NEW p \in Resolvers PROVE ResolverInv(p)'
  <2>1. resolver[p].slot \in Slots
    BY <1>1 DEF CachePart, ResolversTyped, Readers
  <2>2. ResolverInv(p)
    BY <1>1 DEF CachePart
  <2> QED BY <1>2, <1>10, <1>11, <2>1, <2>2 DEF ResolverInv
<1>20. CachePart'
  BY <1>13, <1>15, <1>17, <1>18, <1>19 DEF CachePart
<1> QED BY <1>9, <1>20 DEF IInv

\* The slot becomes visible to searches.
LEMMA SaveFilledOK ==
  ASSUME IInv, ~RanOff, save_filled
  PROVE  IInv'
<1> DEFINE s == daemon.slot
           Entry == [ip_addr : Nat, filled : BOOLEAN, hw_addr : Pairs]
           new == [arp_cache[s] EXCEPT !.filled = TRUE]
<1>1. Typed /\ CachePart
  BY DEF IInv, ListPart
<1>2. /\ Daemon("filled", "mac1") /\ arp_cache' = [arp_cache EXCEPT ![s] = new]
      /\ UNCHANGED <<List, Card, isr, processed>> /\ UNCHANGED <<frame, resolver, processed>>
  BY DEF save_filled, Card
<1>3. /\ daemon.at = "filled" /\ daemon'.at = "mac1" /\ daemon'.rfd = daemon.rfd
      /\ daemon'.slot = s /\ s \in Slots
  BY <1>1, <1>2, DaemonMoves, Places DEF Typed
<1>4. /\ Saved \in [ip : Nat, mac : Nat] /\ Announced(Saved.ip, Saved.mac)
      /\ arp_cache[s].ip_addr = Saved.ip
  BY <1>1, <1>3, Places DEF CachePart, SaveInv
<1>5. PICK i \in 1 .. ARP_CACHE_SIZE : s = ProbeFrom(Saved.ip)[i] /\ Passed(Saved.ip, i)
  BY <1>1, <1>3, Places DEF CachePart, SaveInv
<1>6. arp_cache \in [Slots -> Entry] /\ arp_cache[s] \in Entry
  BY <1>1, <1>3 DEF Typed
<1>7. /\ new \in Entry /\ new.ip_addr = arp_cache[s].ip_addr /\ new.filled
      /\ new.hw_addr = arp_cache[s].hw_addr
  BY <1>4, <1>6
<1>8. /\ arp_cache' \in [Slots -> Entry] /\ arp_cache'[s] = new
      /\ \A t \in Slots : t # s => arp_cache'[t] = arp_cache[t]
  <2> HIDE DEF new, s
  <2> QED BY <1>2, <1>3, <1>6, <1>7, SlotChanged
<1>9. ListPart'
  BY <1>2, <1>8, Places, SaveKeepsList
<1> HIDE DEF new, Entry
<1>10. /\ \A t \in Slots : arp_cache[t].filled => arp_cache'[t].filled
       /\ \A t \in Slots : arp_cache'[t].hw_addr = arp_cache[t].hw_addr
       /\ \A t \in Slots : arp_cache'[t].ip_addr = arp_cache[t].ip_addr
       /\ \A t \in Slots : t # s /\ arp_cache'[t].filled => arp_cache[t].filled
  BY <1>7, <1>8
<1>11. \A ip, mac : Announced(ip, mac)' <=> Announced(ip, mac)
  BY <1>2 DEF Announced
<1>12. Saved' = Saved
  BY <1>2, <1>3 DEF Saved
<1>13. CacheSearchable'
  <2> SUFFICES ASSUME NEW t \in Slots, arp_cache'[t].filled, NEW j \in 1 .. ARP_CACHE_SIZE,
                      \A l \in 1 .. j : ProbeFrom(arp_cache'[t].ip_addr)[l] # t
               PROVE  /\ arp_cache'[ProbeFrom(arp_cache'[t].ip_addr)[j]].filled
                      /\ arp_cache'[ProbeFrom(arp_cache'[t].ip_addr)[j]].ip_addr
                           # arp_cache'[t].ip_addr
    BY DEF CacheSearchable
  <2>1. arp_cache[t].ip_addr \in Nat /\ arp_cache'[t].ip_addr = arp_cache[t].ip_addr
    BY <1>6, <1>10 DEF Entry
  <2>2. ProbeFrom(arp_cache[t].ip_addr)[j] \in Slots
    BY <2>1, ProbeIs
  <2>3. /\ arp_cache[ProbeFrom(arp_cache[t].ip_addr)[j]].filled
        /\ arp_cache[ProbeFrom(arp_cache[t].ip_addr)[j]].ip_addr # arp_cache[t].ip_addr
    <3>1. CASE t # s
      BY <1>1, <1>10, <2>1, <3>1 DEF CachePart, CacheSearchable
    <3>2. CASE t = s
      <4>1. arp_cache[t].ip_addr = Saved.ip
        BY <1>4, <3>2
      <4>2. ~(i <= j)
        BY <1>5, <2>1, <3>2, <4>1, Constants
      <4>3. j \in 1 .. i - 1
        BY <4>2, Constants
      <4> QED BY <1>5, <4>1, <4>3 DEF Passed
    <3> QED BY <3>1, <3>2
  <2> QED BY <1>10, <2>1, <2>2, <2>3
<1>14. Passed(Saved.ip, i)'
  <2>1. ASSUME NEW j \in 1 .. i - 1
        PROVE  /\ arp_cache'[ProbeFrom(Saved.ip)[j]].filled
               /\ arp_cache'[ProbeFrom(Saved.ip)[j]].ip_addr # Saved.ip
    <3>1. j \in 1 .. ARP_CACHE_SIZE
      BY Constants
    <3>2. ProbeFrom(Saved.ip)[j] \in Slots
      BY <1>4, <3>1, ProbeIs
    <3> QED BY <1>5, <1>10, <3>2 DEF Passed
  <2> QED BY <1>12, <2>1 DEF Passed
<1>15. SaveInv'
  <2>1. arp_cache'[daemon'.slot].ip_addr = Saved'.ip /\ arp_cache'[daemon'.slot].filled
    BY <1>3, <1>4, <1>7, <1>8, <1>12
  <2> QED BY <1>3, <1>4, <1>5, <1>11, <1>12, <1>14, <2>1 DEF SaveInv
<1>16. \A t : ~Writing(t) /\ (Writing(t)' <=> t = s)
  BY <1>3 DEF Writing
<1>17. CacheTrue'
  BY <1>1, <1>10, <1>11, <1>16 DEF CachePart, CacheTrue
<1>18. ResolversTyped'
  BY <1>1, <1>2 DEF CachePart, ResolversTyped
<1>19. ASSUME NEW p \in Resolvers PROVE ResolverInv(p)'
  <2>1. resolver[p].slot \in Slots
    BY <1>1 DEF CachePart, ResolversTyped, Readers
  <2>2. ResolverInv(p)
    BY <1>1 DEF CachePart
  <2> QED BY <1>2, <1>10, <1>11, <2>1, <2>2 DEF ResolverInv
<1>20. CachePart'
  BY <1>13, <1>15, <1>17, <1>18, <1>19 DEF CachePart
<1> QED BY <1>9, <1>20 DEF IInv

\* Half of the hardware address is copied into the slot.
LEMMA SaveMacOK ==
  ASSUME IInv, ~RanOff, NEW half \in {1, 2}, save_mac(half)
  PROVE  IInv'
<1> DEFINE s == daemon.slot
           Entry == [ip_addr : Nat, filled : BOOLEAN, hw_addr : Pairs]
           hw == [arp_cache[s].hw_addr EXCEPT ![half] = Saved.mac]
           new == [arp_cache[s] EXCEPT !.hw_addr = hw]
           from == <<"mac1", "mac2">>[half]
           to == <<"mac2", "head">>[half]
<1>1. Typed /\ CachePart
  BY DEF IInv, ListPart
<1>2. /\ Daemon(from, to) /\ arp_cache' = [arp_cache EXCEPT ![s] = new]
      /\ resolver' = Tearing
      /\ UNCHANGED <<List, Card, isr, processed>> /\ UNCHANGED <<frame, processed>>
  BY DEF save_mac, Card
<1>3. /\ half = 1 => from = "mac1" /\ to = "mac2"
      /\ half = 2 => from = "mac2" /\ to = "head"
  OBVIOUS
<1> HIDE DEF from, to
<1>4. /\ daemon.at = from /\ daemon'.at = to /\ daemon'.rfd = daemon.rfd
      /\ daemon'.slot = s /\ s \in Slots
  BY <1>1, <1>2, <1>3, DaemonMoves, Places, ZenonT(60) DEF Typed
<1>5. /\ Saved \in [ip : Nat, mac : Nat] /\ Announced(Saved.ip, Saved.mac)
      /\ arp_cache[s].ip_addr = Saved.ip /\ arp_cache[s].filled
      /\ half = 2 => arp_cache[s].hw_addr[1] = Saved.mac
  BY <1>1, <1>3, <1>4, Places DEF CachePart, SaveInv
<1>6. PICK i \in 1 .. ARP_CACHE_SIZE : s = ProbeFrom(Saved.ip)[i] /\ Passed(Saved.ip, i)
  BY <1>1, <1>3, <1>4, Places DEF CachePart, SaveInv
<1>7. /\ arp_cache \in [Slots -> Entry] /\ arp_cache[s] \in Entry
      /\ arp_cache[s].hw_addr \in Pairs
  BY <1>1, <1>4 DEF Typed
<1>8. /\ hw \in Pairs /\ hw[half] = Saved.mac
      /\ half = 2 => hw[1] = Saved.mac /\ hw[2] = Saved.mac
  BY <1>5, <1>7 DEF Pairs
<1> HIDE DEF hw
<1>9. /\ new \in Entry /\ new.ip_addr = arp_cache[s].ip_addr
      /\ new.filled = arp_cache[s].filled /\ new.hw_addr = hw
  BY <1>7, <1>8
<1>10. /\ arp_cache' \in [Slots -> Entry] /\ arp_cache'[s] = new
       /\ \A t \in Slots : t # s => arp_cache'[t] = arp_cache[t]
  <2> HIDE DEF new, s
  <2> QED BY <1>2, <1>4, <1>7, <1>9, SlotChanged
<1>11. ListPart'
  <2>1. from \in Saving /\ to \in Handling
    BY <1>3, Places
  <2> QED BY <1>2, <1>10, <2>1, SaveKeepsList
<1> HIDE DEF new, Entry
<1>12. /\ \A t \in Slots : arp_cache'[t].filled = arp_cache[t].filled
       /\ \A t \in Slots : arp_cache'[t].ip_addr = arp_cache[t].ip_addr
       /\ \A t \in Slots : t # s => arp_cache'[t].hw_addr = arp_cache[t].hw_addr
  BY <1>9, <1>10
<1>13. \A ip, mac : Announced(ip, mac)' <=> Announced(ip, mac)
  BY <1>2 DEF Announced
<1>14. Saved' = Saved
  BY <1>2, <1>4 DEF Saved
<1>15. CacheSearchable'
  <2> SUFFICES ASSUME NEW t \in Slots, arp_cache'[t].filled, NEW j \in 1 .. ARP_CACHE_SIZE,
                      \A l \in 1 .. j : ProbeFrom(arp_cache'[t].ip_addr)[l] # t
               PROVE  /\ arp_cache'[ProbeFrom(arp_cache'[t].ip_addr)[j]].filled
                      /\ arp_cache'[ProbeFrom(arp_cache'[t].ip_addr)[j]].ip_addr
                           # arp_cache'[t].ip_addr
    BY DEF CacheSearchable
  <2>1. arp_cache[t].ip_addr \in Nat /\ arp_cache'[t].ip_addr = arp_cache[t].ip_addr
    BY <1>7, <1>12 DEF Entry
  <2>2. ProbeFrom(arp_cache[t].ip_addr)[j] \in Slots
    BY <2>1, ProbeIs
  <2>3. /\ arp_cache[ProbeFrom(arp_cache[t].ip_addr)[j]].filled
        /\ arp_cache[ProbeFrom(arp_cache[t].ip_addr)[j]].ip_addr # arp_cache[t].ip_addr
    BY <1>1, <1>12, <2>1 DEF CachePart, CacheSearchable
  <2> QED BY <1>12, <2>1, <2>2, <2>3
<1>16. Passed(Saved.ip, i)'
  <2>1. ASSUME NEW j \in 1 .. i - 1
        PROVE  /\ arp_cache'[ProbeFrom(Saved.ip)[j]].filled
               /\ arp_cache'[ProbeFrom(Saved.ip)[j]].ip_addr # Saved.ip
    <3>1. j \in 1 .. ARP_CACHE_SIZE
      BY Constants
    <3>2. ProbeFrom(Saved.ip)[j] \in Slots
      BY <1>5, <3>1, ProbeIs
    <3> QED BY <1>6, <1>12, <3>2 DEF Passed
  <2> QED BY <1>14, <2>1 DEF Passed
<1>17. SaveInv'
  <2>1. CASE half = 1
    <3>1. /\ arp_cache'[daemon'.slot].ip_addr = Saved'.ip /\ arp_cache'[daemon'.slot].filled
          /\ arp_cache'[daemon'.slot].hw_addr[1] = Saved'.mac
      BY <1>4, <1>5, <1>8, <1>9, <1>10, <1>14, <2>1
    <3> QED BY <1>3, <1>4, <1>5, <1>6, <1>13, <1>14, <1>16, <2>1, <3>1 DEF SaveInv
  <2>2. CASE half = 2
    BY <1>3, <1>4, <2>2, Places DEF SaveInv
  <2> QED BY <2>1, <2>2
<1>18. CacheTrue'
  <2> SUFFICES ASSUME NEW t \in Slots, arp_cache'[t].filled, ~Writing(t)'
               PROVE  \E mac \in Nat : /\ arp_cache'[t].hw_addr[1] = mac
                                       /\ arp_cache'[t].hw_addr[2] = mac
                                       /\ Announced(arp_cache[t].ip_addr, mac)
    BY <1>12, <1>13 DEF CacheTrue
  <2>1. CASE t # s
    BY <1>1, <1>4, <1>12, <2>1 DEF CachePart, CacheTrue, Writing
  <2>2. CASE t = s
    <3>1. half = 2
      BY <1>3, <1>4, <2>2 DEF Writing
    <3>2. arp_cache'[t].hw_addr[1] = Saved.mac /\ arp_cache'[t].hw_addr[2] = Saved.mac
      BY <1>8, <1>9, <1>10, <2>2, <3>1
    <3> QED BY <1>5, <2>2, <3>2
  <2> QED BY <2>1, <2>2
<1>19. ASSUME NEW p \in Resolvers
       PROVE  /\ \A x \in {"at", "ip", "try", "count", "slot", "mac", "calls"} :
                    resolver'[p][x] = resolver[p][x]
              /\ resolver'[p].torn = (resolver[p].torn \/ (/\ resolver[p].at \in {"copy1", "copy2"}
                                                          /\ resolver[p].slot = s))
              /\ resolver'[p] \in Readers
  <2>1. resolver[p] \in Readers
    BY <1>1 DEF CachePart, ResolversTyped
  <2> QED BY <1>2, <2>1 DEF Tearing, Readers
<1>20. ResolversTyped'
  BY <1>2, <1>19 DEF ResolversTyped, Tearing
<1>21. ASSUME NEW p \in Resolvers PROVE ResolverInv(p)'
  <2>1. resolver[p].slot \in Slots
    BY <1>1 DEF CachePart, ResolversTyped, Readers
  <2>2. ResolverInv(p)
    BY <1>1 DEF CachePart
  <2> QED BY <1>12, <1>13, <1>19, <2>1, <2>2, ZenonT(60) DEF ResolverInv
<1>22. CachePart'
  BY <1>15, <1>17, <1>18, <1>20, <1>21 DEF CachePart
<1> QED BY <1>11, <1>22 DEF IInv

-----------------------------------------------------------------------------
(* get_hw_addr *)

\* What a resolver r must satisfy.
Reader(r) ==
  /\ r.at \in {"probe", "request"} => r.ip \in Nat
  /\ r.at \in {"copy1", "copy2"} => /\ arp_cache[r.slot].filled
                                    /\ arp_cache[r.slot].ip_addr = r.ip
  /\ r.at = "copy2" /\ ~r.torn => r.mac[1] = arp_cache[r.slot].hw_addr[1]
  /\ r.at = "found" /\ ~r.torn =>
       \E mac \in Nat : r.mac[1] = mac /\ r.mac[2] = mac /\ Announced(r.ip, mac)

\* A step of one resolver leaves everything else alone.
LEMMA ResolverStep ==
  ASSUME IInv, NEW p \in Resolvers, NEW r \in Readers, OnlyResolver,
         resolver' = [resolver EXCEPT ![p] = r], Reader(r)
  PROVE  IInv'
<1>1. CachePart /\ resolver \in [Resolvers -> Readers]
  BY DEF IInv, CachePart, ResolversTyped
<1>2. /\ UNCHANGED <<List, Card, isr, daemon, arp_cache, processed>>
      /\ UNCHANGED <<arp_cache, daemon, processed, frame>>
  BY DEF OnlyResolver, Card
<1>3. ListPart'
  BY <1>2, ListKept
<1>4. /\ resolver' \in [Resolvers -> Readers] /\ resolver'[p] = r
      /\ \A q \in Resolvers : q # p => resolver'[q] = resolver[q]
  BY <1>1
<1>5. CacheSearchable' /\ SaveInv' /\ CacheTrue'
  <2>1. CacheSearchable'
    BY <1>1, <1>2 DEF CachePart, CacheSearchable
  <2>2. SaveInv'
    BY <1>1, <1>2 DEF CachePart, SaveInv, Saved, Announced, Passed
  <2>3. CacheTrue'
    <3>1. /\ \A s : Writing(s)' <=> Writing(s)
          /\ \A ip, mac : Announced(ip, mac)' <=> Announced(ip, mac)
      BY <1>2 DEF Writing, Announced
    <3> QED BY <1>1, <1>2, <3>1 DEF CachePart, CacheTrue
  <2> QED BY <2>1, <2>2, <2>3
<1>6. ASSUME NEW q \in Resolvers PROVE ResolverInv(q)'
  <2>1. CASE q = p
    BY <1>2, <1>4, <2>1 DEF Reader, ResolverInv, Announced
  <2>2. CASE q # p
    BY <1>1, <1>2, <1>4, <2>2 DEF CachePart, ResolverInv, Announced
  <2> QED BY <2>1, <2>2
<1> QED BY <1>3, <1>4, <1>5, <1>6 DEF IInv, CachePart, ResolversTyped

\* The slots of a search are slots of the cache.
LEMMA HashIs ==
  ASSUME NEW n \in Nat
  PROVE  n % ARP_CACHE_SIZE \in Slots
<1>1. ARP_CACHE_SIZE \in Nat /\ ARP_CACHE_SIZE >= 1
  BY Constants
<1> QED BY <1>1 DEF Slots

\* A resolver that has not called yet.
LEMMA IdleIs == Idle \in Readers /\ Idle.at = "idle"
<1>1. <<0, 0>> \in Pairs
  BY DEF Pairs
<1>2. "idle" \in ResolverAt
  BY DEF ResolverAt
<1>3. 0 \in Slots /\ -1 \in Int /\ 1 \in Nat /\ 0 \in Nat
  BY Constants
<1> HIDE DEF Pairs, ResolverAt, Slots
<1> QED BY <1>1, <1>2, <1>3 DEF Idle, Readers

\* A call begins its search at the hash of the address.
LEMMA GetOK ==
  ASSUME IInv, NEW p \in Resolvers, NEW ip \in IPs, get_hw_addr(p, ip)
  PROVE  IInv'
<1> DEFINE hash == ip % ARP_CACHE_SIZE
           calls == resolver[p].calls + 1
           r == [Idle EXCEPT !.at = "probe", !.ip = ip, !.slot = hash, !.calls = calls]
<1>1. resolver' = [resolver EXCEPT ![p] = r] /\ OnlyResolver
  BY DEF get_hw_addr
<1>2. resolver[p] \in Readers
  BY DEF IInv, CachePart, ResolversTyped
<1>3. calls \in Nat
  BY <1>2 DEF Readers
<1>4. ip \in Nat /\ ip \in Int /\ hash \in Slots
  BY Constants, HashIs
<1> HIDE DEF hash, calls
<1>5. r \in Readers
  <2>1. "probe" \in ResolverAt
    BY DEF ResolverAt
  <2> QED BY <1>3, <1>4, <2>1, IdleIs DEF Readers
<1>6. r.at = "probe" /\ r.ip = ip
  BY IdleIs DEF Readers
<1>7. Reader(r)
  <2> HIDE DEF r
  <2> QED BY <1>4, <1>6 DEF Reader
<1> HIDE DEF r
<1> QED BY <1>1, <1>5, <1>7, ResolverStep

\* A call ends.
LEMMA ReturnOK ==
  ASSUME IInv, NEW p \in Resolvers, return(p)
  PROVE  IInv'
<1> DEFINE r == [Idle EXCEPT !.calls = resolver[p].calls]
<1>1. resolver' = [resolver EXCEPT ![p] = r] /\ OnlyResolver
  BY DEF return
<1>2. resolver[p] \in Readers
  BY DEF IInv, CachePart, ResolversTyped
<1>3. r \in Readers
  BY <1>2, IdleIs DEF Readers
<1>4. r.at = "idle"
  BY IdleIs DEF Readers
<1>5. Reader(r)
  <2> HIDE DEF r
  <2> QED BY <1>4 DEF Reader
<1> HIDE DEF r
<1> QED BY <1>1, <1>3, <1>5, ResolverStep

\* One slot is looked at.
LEMMA ProbeOK ==
  ASSUME IInv, NEW p \in Resolvers, probe(p)
  PROVE  IInv'
<1> DEFINE o == resolver[p]
           hit == arp_cache[o.slot].ip_addr = o.ip /\ arp_cache[o.slot].filled
           r1 == [o EXCEPT !.at = "copy1"]
           r2 == [o EXCEPT !.at = "request"]
           r3 == [o EXCEPT !.slot = (@ + 1) % ARP_CACHE_SIZE, !.count = @ + 1]
           r == IF hit THEN r1 ELSE IF o.count = ARP_CACHE_SIZE THEN r2 ELSE r3
<1>1. resolver' = [resolver EXCEPT ![p] = r] /\ OnlyResolver
  BY DEF probe
<1>2. o \in Readers /\ Reader(o) /\ o.at = "probe"
  BY DEF IInv, CachePart, ResolversTyped, ResolverInv, Reader, probe, Resolve
<1>3. o.slot \in Nat /\ o.count + 1 \in Nat /\ o.ip \in Nat
  BY <1>2, Constants DEF Readers, Slots, Reader
<1>4. (o.slot + 1) % ARP_CACHE_SIZE \in Slots
  BY <1>3, HashIs
<1>5. {"copy1", "request", "probe"} \subseteq ResolverAt
  BY DEF ResolverAt
<1> HIDE DEF o
<1>6. /\ r1 \in Readers /\ r1.at = "copy1" /\ r1.slot = o.slot /\ r1.ip = o.ip
      /\ r2 \in Readers /\ r2.at = "request" /\ r2.ip = o.ip
      /\ r3 \in Readers /\ r3.at = "probe" /\ r3.ip = o.ip
  BY <1>2, <1>3, <1>4, <1>5 DEF Readers
<1> HIDE DEF r1, r2, r3
<1>7. r \in Readers /\ Reader(r)
  <2>1. CASE hit
    BY <1>6, <2>1 DEF Reader
  <2>2. CASE ~hit
    <3>1. Reader(r2) /\ Reader(r3)
      BY <1>3, <1>6 DEF Reader
    <3> HIDE DEF hit
    <3> QED BY <1>6, <2>2, <3>1
  <2> QED BY <2>1, <2>2
<1> HIDE DEF r
<1> QED BY <1>1, <1>7, ResolverStep

\* The search starts again, or the call gives up.
LEMMA RequestOK ==
  ASSUME IInv, NEW p \in Resolvers, request_and_sleep(p)
  PROVE  IInv'
<1> DEFINE o == resolver[p]
           r1 == [o EXCEPT !.at = "failed"]
           r2 == [o EXCEPT !.at = "probe", !.try = @ + 1, !.count = 1,
                           !.slot = o.ip % ARP_CACHE_SIZE]
           r == IF o.try = TRIES THEN r1 ELSE r2
<1>1. resolver' = [resolver EXCEPT ![p] = r] /\ OnlyResolver
  BY DEF request_and_sleep
<1>2. o \in Readers /\ Reader(o) /\ o.at = "request"
  BY DEF IInv, CachePart, ResolversTyped, ResolverInv, Reader, request_and_sleep, Resolve
<1>3. o.try + 1 \in Nat /\ o.ip \in Nat
  BY <1>2 DEF Readers, Reader
<1>4. o.ip % ARP_CACHE_SIZE \in Slots
  BY <1>3, HashIs
<1>5. {"failed", "probe"} \subseteq ResolverAt
  BY DEF ResolverAt
<1> HIDE DEF o
<1>6. /\ r1 \in Readers /\ r1.at = "failed"
      /\ r2 \in Readers /\ r2.at = "probe" /\ r2.ip = o.ip
  BY <1>2, <1>3, <1>4, <1>5 DEF Readers
<1> HIDE DEF r1, r2
<1>7. r \in Readers /\ Reader(r)
  BY <1>3, <1>6 DEF Reader
<1> HIDE DEF r
<1> QED BY <1>1, <1>7, ResolverStep

\* Half of the address is copied out of the slot.
LEMMA CopyOK ==
  ASSUME IInv, NEW p \in Resolvers, NEW half \in {1, 2}, copy(p, half)
  PROVE  IInv'
<1> DEFINE o == resolver[p]
           next == <<"copy2", "found">>[half]
           hw == arp_cache[o.slot].hw_addr
           mac == [o.mac EXCEPT ![half] = hw[half]]
           torn == o.torn \/ Torn(p)
           r == [o EXCEPT !.at = next, !.mac = mac, !.torn = torn]
<1>1. CachePart /\ Typed
  BY DEF IInv, ListPart
<1>2. /\ o \in Readers /\ ResolverInv(p) /\ o.at = <<"copy1", "copy2">>[half]
      /\ resolver \in [Resolvers -> Readers]
  BY <1>1 DEF CachePart, ResolversTyped, copy, Resolve
<1>3. /\ half = 1 => o.at = "copy1" /\ next = "copy2"
      /\ half = 2 => o.at = "copy2" /\ next = "found"
  BY <1>2
<1>4. OnlyResolver /\ resolver' = [resolver EXCEPT ![p] = r]
  BY <1>2 DEF copy, Readers
<1>5. o.slot \in Slots /\ hw \in Pairs /\ o.mac \in Pairs
  BY <1>1, <1>2 DEF Typed, Readers
<1>6. mac \in Pairs /\ mac[half] = hw[half] /\ (half = 2 => mac[1] = o.mac[1])
  BY <1>5 DEF Pairs
<1>7. next \in ResolverAt /\ torn \in BOOLEAN
  <2>1. next \in ResolverAt
    BY <1>3 DEF ResolverAt
  <2>2. torn \in BOOLEAN
    BY <1>2 DEF Readers, Torn
  <2> QED BY <2>1, <2>2
<1>8. ~torn => ~Writing(o.slot) /\ ~o.torn
  BY DEF Torn, Writing
<1>9. arp_cache[o.slot].filled /\ arp_cache[o.slot].ip_addr = o.ip
  BY <1>2, <1>3 DEF ResolverInv
<1>10. half = 2 /\ ~o.torn => o.mac[1] = hw[1]
  BY <1>2, <1>3 DEF ResolverInv
<1>11. ~torn => \E m \in Nat : hw[1] = m /\ hw[2] = m /\ Announced(o.ip, m)
  BY <1>1, <1>5, <1>8, <1>9 DEF CachePart, CacheTrue
<1> HIDE DEF o, next, mac, torn, hw
<1>12. /\ r \in Readers /\ r.at = next /\ r.mac = mac /\ r.torn = torn /\ r.ip = o.ip
       /\ r.slot = o.slot
  BY <1>2, <1>6, <1>7 DEF Readers
<1> HIDE DEF r
<1>13. Reader(r)
  <2>1. CASE half = 1
    <3>1. r.at = "copy2" /\ r.mac[1] = hw[1]
      BY <1>3, <1>6, <1>12, <2>1
    <3> QED BY <1>9, <1>12, <3>1 DEF Reader, hw
  <2>2. CASE half = 2
    <3>1. r.at = "found"
      BY <1>3, <1>12, <2>2
    <3>2. ~torn => \E m \in Nat : r.mac[1] = m /\ r.mac[2] = m /\ Announced(r.ip, m)
      BY <1>6, <1>8, <1>10, <1>11, <1>12, <2>2
    <3> QED BY <1>12, <3>1, <3>2 DEF Reader
  <2> QED BY <2>1, <2>2
<1> QED BY <1>4, <1>12, <1>13, ResolverStep

-----------------------------------------------------------------------------
(* The invariant *)

\* The list as init_rfa leaves it, and an empty cache.
LEMMA InitOK == Init => IInv
<1> SUFFICES ASSUME Init PROVE IInv
  OBVIOUS
<1> DEFINE e == TOTAL_RFD + 1
           at == [i \in Nat |-> IF i \in 1 .. e THEN i ELSE 1]
<1>1. /\ rfa = [head |-> 1, next |-> 1, tail |-> e]
      /\ link = [page \in Pages |-> IF page <= TOTAL_RFD THEN page + 1 ELSE NULL]
      /\ el = [page \in Pages |-> page = e]
      /\ frame = [page \in Pages |-> NoFrame]
      /\ used = 1 .. e
      /\ ru = [state |-> "off", at |-> NULL]
      /\ fr = FALSE /\ isr = FALSE
      /\ arp_cache = [s \in Slots |-> [ip_addr |-> 0, filled |-> FALSE, hw_addr |-> <<0, 0>>]]
      /\ daemon = [at |-> "start", rfd |-> NULL, slot |-> 0, new |-> NULL]
      /\ resolver = [p \in Resolvers |-> Idle]
      /\ received = 0 /\ processed = <<>>
  BY DEF Init
<1>2. /\ TOTAL_RFD \in Nat /\ TOTAL_RFD >= 1 /\ e \in Nat /\ 1 \in 1 .. e /\ e \in 1 .. e
      /\ 1 .. e \subseteq Pages /\ Pages \subseteq Nat
  BY Constants
<1>3. daemon.at = "start" /\ First = 1 /\ Len(processed) = 0
  BY <1>1, Places DEF First
<1>4. Typed
  <2>1. rfa \in [head : Links, next : Links, tail : Links] /\ used \subseteq Pages
    BY <1>1, <1>2 DEF Links
  <2>2. link \in [Pages -> Links]
    <3>1. ASSUME NEW page \in Pages PROVE (IF page <= TOTAL_RFD THEN page + 1 ELSE NULL) \in Links
      <4>1. page \in Nat /\ page # 0
        BY <1>2, Constants DEF NULL
      <4>2. page <= TOTAL_RFD => page + 1 \in 1 .. e
        BY <1>2, <4>1
      <4> QED BY <1>2, <4>2 DEF Links
    <3> QED BY <1>1, <3>1
  <2>3. el \in [Pages -> BOOLEAN] /\ frame \in [Pages -> Frames]
    BY <1>1 DEF NoFrame, Frames, Datas
  <2>4. ru \in [state : {"off", "ready", "no resources"}, at : Links] /\ fr \in BOOLEAN /\ isr \in BOOLEAN
    BY <1>1 DEF Links
  <2>5. arp_cache \in [Slots -> [ip_addr : Nat, filled : BOOLEAN, hw_addr : Pairs]]
    <3>1. <<0, 0>> \in Pairs
      BY DEF Pairs
    <3> QED BY <1>1, <3>1
  <2>6. daemon \in [at : DaemonAt, rfd : Links, slot : Slots, new : Links]
    BY <1>1, Places, Constants DEF Links
  <2>7. received \in Nat /\ processed \in Seq(Frames)
    BY <1>1
  <2> QED BY <2>1, <2>2, <2>3, <2>4, <2>5, <2>6, <2>7 DEF Typed
<1>5. at \in [Nat -> Pages] /\ \A i \in 1 .. e : at[i] = i
  BY <1>2
<1> HIDE DEF at
<1>6. Laid(at, e, 1)
  <2>1. Behind(e, 1)
    BY <1>1, <1>2, <1>3 DEF Behind
  <2>2. Distinct(at, e)
    BY <1>3, <1>5 DEF Distinct
  <2>3. Linked(at, e)
    <3>1. ASSUME NEW i \in 1 .. e
          PROVE  at[i] \in used /\ link[at[i]] = IF i = e THEN NULL ELSE at[i + 1]
      <4>1. at[i] = i /\ i \in used /\ i \in Pages
        BY <1>1, <1>2, <1>5
      <4>2. i # e => at[i + 1] = i + 1 /\ i <= TOTAL_RFD
        BY <1>2, <1>5
      <4>3. i = e => ~(i <= TOTAL_RFD)
        BY <1>2
      <4> QED BY <1>1, <4>1, <4>2, <4>3
    <3> QED BY <1>3, <3>1 DEF Linked
  <2>4. Filled(at, e)
    BY <1>1, <1>2, <1>3 DEF Filled
  <2>5. Flagged(at, e)
    BY <1>1, <1>2, <1>3, <1>5 DEF Flagged
  <2>6. Ends(at, e, 1)
    BY <1>1, <1>2, <1>3, <1>5 DEF Ends
  <2>7. RuStands(at, e)
    BY <1>1, <1>2, <1>3 DEF RuStands
  <2>8. DaemonHas(at, e, 1)
    BY <1>3, Places DEF DaemonHas
  <2> QED BY <2>1, <2>2, <2>3, <2>4, <2>5, <2>6, <2>7, <2>8 DEF Laid
<1>7. ListPart
  BY <1>2, <1>3, <1>4, <1>5, <1>6 DEF ListPart, ListInv, InOrder
<1>8. \A s \in Slots : ~arp_cache[s].filled
  BY <1>1
<1>9. CacheSearchable /\ CacheTrue
  BY <1>8 DEF CacheSearchable, CacheTrue
<1>10. SaveInv
  BY <1>3, Places DEF SaveInv
<1>11. ResolversTyped /\ \A p \in Resolvers : ResolverInv(p)
  BY <1>1, IdleIs DEF ResolversTyped, ResolverInv
<1> QED BY <1>7, <1>9, <1>10, <1>11 DEF IInv, CachePart

\* A step that changes nothing.
LEMMA StutterOK ==
  ASSUME IInv, UNCHANGED vars
  PROVE  IInv'
<1>1. /\ UNCHANGED <<List, Card, isr, daemon, arp_cache, processed>>
      /\ UNCHANGED <<arp_cache, resolver, processed>> /\ daemon' = daemon /\ frame' = frame
  BY DEF vars, List, Card
<1>2. ListPart'
  BY <1>1, ListKept
<1>3. CachePart'
  BY <1>1, CacheKept
<1> QED BY <1>2, <1>3 DEF IInv

\* Every step.
LEMMA StepOK ==
  ASSUME IInv, [Next]_vars
  PROVE  IInv'
<1>1. CASE ~RanOff /\ \E c \in Contents : ru_receive(c)
  BY <1>1, ReceiveOK
<1>2. CASE ~RanOff /\ (handler \/ handler_other \/ handler_ack)
  BY <1>2, HandlerOK, AckOK
<1>3. CASE ~RanOff /\ RxDaemon
  <2>1. CASE enable_rx \/ process_frame \/ save_ip \/ save_filled
    BY <1>3, <2>1, EnableOK, ProcessOK, SaveIpOK, SaveFilledOK
  <2>2. CASE spin
    BY <2>2, StutterOK DEF spin
  <2>3. CASE save_mac(1) \/ save_mac(2)
    BY <1>3, <2>3, SaveMacOK
  <2>4. CASE advance_head \/ free_rfd \/ \E page \in Pages : make_new_tail(page)
    BY <1>3, <2>4, HeadOK, FreeOK, NewTailOK
  <2>5. CASE link_tail \/ unset_el \/ advance_tail
    BY <1>3, <2>5, LinkOK, UnsetOK, TailOK
  <2> QED BY <1>3, <2>1, <2>2, <2>3, <2>4, <2>5 DEF RxDaemon
<1>4. CASE ~RanOff /\ \E p \in Resolvers : Resolver(p)
  <2>1. PICK p \in Resolvers : Resolver(p)
    BY <1>4
  <2> QED BY <2>1, GetOK, ProbeOK, CopyOK, RequestOK, ReturnOK DEF Resolver
<1>5. CASE UNCHANGED vars
  BY <1>5, StutterOK
<1> QED BY <1>1, <1>2, <1>3, <1>4, <1>5 DEF Next

(***************************************************************************)
(* The invariant holds of the list, the cache and everybody who works on   *)
(* them: the RU, the handler, the daemon and the resolvers.                *)
(***************************************************************************)
THEOREM Invariance == Spec => []IInv
<1>1. Init => IInv
  BY InitOK
<1>2. IInv /\ [Next]_vars => IInv'
  BY StepOK
<1> QED BY <1>1, <1>2, PTL DEF Spec

(***************************************************************************)
(* nic_rx_daemon: frames are processed in the order in which they were     *)
(* received, each once, however the RU, the handler and the daemon take    *)
(* turns.                                                                  *)
(***************************************************************************)
THEOREM FramesKeepOrder == Spec => []FramesInOrder
<1>1. IInv => FramesInOrder
  BY DEF IInv, ListPart, InOrder, FramesInOrder
<1> QED BY <1>1, Invariance, PTL

(***************************************************************************)
(* save_hw_addr: the cache can be searched at every step of a save, for    *)
(* every number of slots and every sequence of announcements.              *)
(***************************************************************************)
THEOREM SearchesFind == Spec => []CacheSearchable
<1>1. IInv => CacheSearchable
  BY DEF IInv, CachePart
<1> QED BY <1>1, Invariance, PTL

(***************************************************************************)
(* get_hw_addr: any number of resolvers get announced addresses, or read   *)
(* one while it was being written.                                         *)
(***************************************************************************)
THEOREM AnswersAnnounced == Spec => []ResolvedWasAnnounced
<1>1. IInv => ResolvedWasAnnounced
  <2> SUFFICES ASSUME IInv, NEW p \in Resolvers, resolver[p].at = "found", ~resolver[p].torn
               PROVE  \E i \in 1 .. Len(processed) :
                        /\ processed[i].data.ip = resolver[p].ip
                        /\ resolver[p].mac = <<processed[i].data.mac, processed[i].data.mac>>
    BY DEF ResolvedWasAnnounced
  <2>1. PICK mac \in Nat : /\ resolver[p].mac[1] = mac /\ resolver[p].mac[2] = mac
                           /\ Announced(resolver[p].ip, mac)
    BY DEF IInv, CachePart, ResolverInv
  <2>2. resolver[p].mac \in Pairs
    BY DEF IInv, CachePart, ResolversTyped, Readers
  <2>3. resolver[p].mac = <<mac, mac>>
    <3>1. resolver[p].mac = [h \in {1, 2} |-> mac]
      BY <2>1, <2>2 DEF Pairs
    <3>2. <<mac, mac>> = [h \in {1, 2} |-> mac]
      OBVIOUS
    <3> QED BY <3>1, <3>2
  <2> QED BY <2>1, <2>3 DEF Announced
<1> QED BY <1>1, Invariance, PTL

-----------------------------------------------------------------------------
(* The list as Chain reads it *)

\* g is what one finds when one follows the links from page.
Follows(g, page) ==
  g = [k \in 0 .. Cardinality(Pages) |-> IF k = 0 THEN page
                                         ELSE IF g[k - 1] = NULL THEN NULL
                                         ELSE link[g[k - 1]]]

\* The same, place by place.
LEMMA FollowsAt ==
  ASSUME NEW g, NEW page, Follows(g, page), NEW k \in 0 .. Cardinality(Pages)
  PROVE  g[k] = IF k = 0 THEN page ELSE IF g[k - 1] = NULL THEN NULL ELSE link[g[k - 1]]
BY DEF Follows

\* The list from a to e, when it is short enough to be followed to its end.
LEMMA ChainIs ==
  ASSUME NEW at \in [Nat -> Pages], NEW a \in Nat, NEW e \in Nat, a <= e,
         NEW N \in Nat, N = Cardinality(Pages), e - a <= N,
         \A i \in a .. e : link[at[i]] = IF i = e THEN NULL ELSE at[i + 1]
  PROVE  Chain(at[a]) = {at[i] : i \in a .. e}
<1> DEFINE h == [k \in 0 .. N |-> IF a + k <= e THEN at[a + k] ELSE NULL]
<1>1. PICK f : /\ f = CHOOSE g : Follows(g, at[a])
               /\ Chain(at[a]) = {f[k] : k \in 0 .. N} \ {NULL}
  BY DEF Chain, Follows
<1>2. Follows(h, at[a])
  <2>1. ASSUME NEW k \in 0 .. N
        PROVE  h[k] = IF k = 0 THEN at[a] ELSE IF h[k - 1] = NULL THEN NULL ELSE link[h[k - 1]]
    <3>1. CASE k = 0
      BY <3>1
    <3>2. CASE k # 0 /\ a + (k - 1) > e
      <4>1. h[k - 1] = NULL /\ h[k] = NULL
        BY <3>2
      <4> QED BY <3>2, <4>1
    <3>3. CASE k # 0 /\ a + (k - 1) <= e
      <4>1. /\ k - 1 \in 0 .. N /\ a + (k - 1) \in a .. e /\ a + (k - 1) + 1 = a + k
            /\ a + (k - 1) \in Nat /\ (a + (k - 1) # e <=> a + k <= e)
        BY <3>3
      <4>2. h[k - 1] = at[a + (k - 1)] /\ at[a + (k - 1)] \in Pages
        BY <3>3, <4>1
      <4>3. h[k - 1] # NULL
        BY <4>2, Constants
      <4>4. link[at[a + (k - 1)]] = IF a + k <= e THEN at[a + k] ELSE NULL
        BY <4>1
      <4>5. h[k] = IF a + k <= e THEN at[a + k] ELSE NULL
        OBVIOUS
      <4> HIDE DEF h
      <4> QED BY <3>3, <4>2, <4>3, <4>4, <4>5
    <3> QED BY <3>1, <3>2, <3>3
  <2>2. h = [k \in 0 .. N |-> h[k]]
    OBVIOUS
  <2> HIDE DEF h
  <2>3. [k \in 0 .. N |-> h[k]]
          = [k \in 0 .. N |-> IF k = 0 THEN at[a] ELSE IF h[k - 1] = NULL THEN NULL
                              ELSE link[h[k - 1]]]
    BY <2>1
  <2> QED BY <2>2, <2>3 DEF Follows
<1>3. Follows(f, at[a])
  <2> HIDE DEF h
  <2> QED BY <1>1, <1>2, Zenon
<1>4. ASSUME NEW k \in 0 .. N PROVE f[k] = h[k]
  <2> HIDE DEF h
  <2> DEFINE S == {j \in 0 .. N : f[j] # h[j]}
  <2>1. SUFFICES ASSUME S # {} PROVE FALSE
    OBVIOUS
  <2>2. S \subseteq Nat
    OBVIOUS
  <2>3. PICK x \in S : \A y \in S : x <= y
    <3> HIDE DEF S
    <3> QED BY <2>1, <2>2, LeastNat
  <2>4. x \in 0 .. N /\ f[x] # h[x]
    OBVIOUS
  <2>5. x # 0 => x - 1 \in 0 .. N /\ x - 1 \notin S
    BY <2>2, <2>3, <2>4
  <2>6. x # 0 => f[x - 1] = h[x - 1]
    BY <2>5
  <2>7. /\ f[x] = IF x = 0 THEN at[a] ELSE IF f[x - 1] = NULL THEN NULL ELSE link[f[x - 1]]
        /\ h[x] = IF x = 0 THEN at[a] ELSE IF h[x - 1] = NULL THEN NULL ELSE link[h[x - 1]]
    <3> HIDE DEF S
    <3> QED BY <1>2, <1>3, <2>4, FollowsAt
  <2> QED BY <2>4, <2>6, <2>7
<1>5. ASSUME NEW q \in Chain(at[a]) PROVE q \in {at[i] : i \in a .. e}
  <2>1. PICK k \in 0 .. N : q = f[k] /\ q # NULL
    BY <1>1
  <2>2. q = at[a + k] /\ a + k <= e
    BY <1>4, <2>1
  <2>3. a + k \in a .. e
    BY <2>2
  <2> QED BY <2>2, <2>3
<1>6. ASSUME NEW i \in a .. e PROVE at[i] \in Chain(at[a])
  <2>1. i - a \in 0 .. N /\ a + (i - a) = i /\ i <= e
    OBVIOUS
  <2>2. f[i - a] = at[i]
    BY <1>4, <2>1
  <2>3. at[i] # NULL
    <3>1. at[i] \in Pages
      OBVIOUS
    <3> QED BY <3>1, Constants
  <2> QED BY <1>1, <2>1, <2>2, <2>3
<1> QED BY <1>5, <1>6

\* Descriptors that are all different are no more than there are pages.
LEMMA ListFits ==
  ASSUME NEW at \in [Nat -> Pages], NEW a \in Nat, NEW e \in Nat, a <= e,
         \A i, j \in a .. e : i # j => at[i] # at[j]
  PROVE  Cardinality(Pages) \in Nat /\ e - a <= Cardinality(Pages)
<1> DEFINE f == [i \in a .. e |-> at[i]]
<1>1. IsFiniteSet(Pages)
  BY Constants
<1>2. Cardinality(Pages) \in Nat
  BY <1>1, FS_CardinalityType
<1>3. f \in Injection(a .. e, Pages)
  <2>1. f \in [a .. e -> Pages]
    OBVIOUS
  <2>2. ASSUME NEW i \in a .. e, NEW j \in a .. e, f[i] = f[j] PROVE i = j
    BY <2>2
  <2> HIDE DEF f
  <2> QED BY <2>1, <2>2 DEF Injection, IsInjective
<1>4. Cardinality(a .. e) <= Cardinality(Pages)
  <2> HIDE DEF f
  <2> QED BY <1>1, <1>3, FS_Injection
<1>5. Cardinality(a .. e) = e - a + 1
  BY FS_Interval
<1> QED BY <1>2, <1>4, <1>5

(***************************************************************************)
(* init_rfa, nic_rx_daemon, intel_nic_handler: for any number of           *)
(* descriptors and pages, whoever moved last, one list leads from head     *)
(* over next and the RU's descriptor to tail, in pages that are in use,    *)
(* and only its end stops the RU.                                          *)
(***************************************************************************)
THEOREM ListStaysWhole == Spec => []ListIntact
<1>1. IInv => ListIntact
  <2> SUFFICES ASSUME IInv, ~RanOff PROVE ListIntact
    BY DEF ListIntact
  <2>1. PICK at \in [Nat -> Pages], e \in Nat, k \in Nat : Laid(at, e, k)
    BY DEF IInv, ListPart, ListInv
  <2>2. PICK a \in Nat, r \in Nat, N \in Nat : a = First /\ r = received /\ N = Cardinality(Pages)
    <3>1. Typed
      BY DEF IInv, ListPart
    <3>2. Cardinality(Pages) \in Nat
      BY Constants, FS_CardinalityType
    <3> QED BY <3>1, <3>2, FirstIs
  <2>3. a <= k /\ k <= e /\ k <= r + 1 /\ a <= e
    <3>1. a <= k /\ k <= e /\ k <= r + 1
      BY <2>1, <2>2 DEF Laid, Behind
    <3> QED BY <3>1
  <2>4. a \in a .. e /\ k \in a .. e /\ e \in a .. e /\ k .. e \subseteq a .. e /\ e \in k .. e
    BY <2>3
  <2>5. /\ \A i \in a .. e : at[i] \in used /\ link[at[i]] = IF i = e THEN NULL ELSE at[i + 1]
        /\ \A i, j \in a .. e : i # j => at[i] # at[j]
    <3>1. Linked(at, e) /\ Distinct(at, e)
      BY <2>1 DEF Laid
    <3> QED BY <2>2, <3>1 DEF Linked, Distinct
  <2>6. e - a <= N
    BY <2>2, <2>3, <2>5, ListFits
  <2>7. Chain(rfa.head) = {at[i] : i \in a .. e}
    <3>1. rfa.head = at[a]
      BY <2>1, <2>2 DEF Laid, Ends
    <3>2. \A i \in a .. e : link[at[i]] = IF i = e THEN NULL ELSE at[i + 1]
      BY <2>5
    <3>3. Chain(at[a]) = {at[i] : i \in a .. e}
      BY <2>2, <2>3, <2>6, <3>2, ChainIs
    <3> QED BY <3>1, <3>3
  <2>8. Chain(rfa.next) = {at[i] : i \in k .. e} /\ rfa.next = at[k]
    <3>1. rfa.next = at[k]
      BY <2>1 DEF Laid, Ends
    <3>2. e - k <= N
      BY <2>3, <2>6
    <3>3. \A i \in k .. e : link[at[i]] = IF i = e THEN NULL ELSE at[i + 1]
      BY <2>4, <2>5
    <3>4. Chain(at[k]) = {at[i] : i \in k .. e}
      BY <2>2, <2>3, <3>2, <3>3, ChainIs
    <3> QED BY <3>1, <3>4
  <2> DEFINE last == IF daemon.at \in {"unset", "tail"} THEN daemon.new ELSE rfa.tail
  <2>9. last = at[e] /\ rfa.tail \in {at[i] : i \in a .. e}
    <3>1. CASE daemon.at \in {"unset", "tail"}
      <4>1. a < e /\ rfa.tail = at[e - 1] /\ daemon.new = at[e]
        BY <2>1, <2>2, <3>1 DEF Laid, Ends
      <4>2. e - 1 \in a .. e
        BY <4>1
      <4> QED BY <3>1, <4>1, <4>2
    <3>2. CASE daemon.at \notin {"unset", "tail"}
      BY <2>1, <2>4, <3>2 DEF Laid, Ends
    <3> QED BY <3>1, <3>2
  <2>10. link[at[e]] = NULL /\ el[at[e]]
    BY <2>1, <2>4, <2>5 DEF Laid, Flagged
  <2>11. ru.state = "ready" => ru.at \in Chain(rfa.next)
    <3>1. ru.state = "ready" => ru.at = at[r + 1] /\ r + 1 \in k .. e
      BY <2>1, <2>2, <2>3 DEF Laid, RuStands
    <3> QED BY <2>8, <3>1
  <2>12. ASSUME NEW page \in Chain(rfa.head), el[page] PROVE page \in {last, rfa.tail}
    <3>1. PICK i \in a .. e : page = at[i]
      BY <2>7
    <3>2. i = e \/ (i = e - 1 /\ daemon.at = "unset")
      BY <2>1, <2>2, <2>12, <3>1 DEF Laid, Flagged
    <3>3. daemon.at = "unset" => rfa.tail = at[e - 1]
      BY <2>1 DEF Laid, Ends
    <3> HIDE DEF last
    <3> QED BY <2>9, <3>1, <3>2, <3>3
  <2>13. Chain(rfa.head) \subseteq used /\ {rfa.next, rfa.tail} \subseteq Chain(rfa.head)
    BY <2>4, <2>5, <2>7, <2>8, <2>9
  <2>14. last \in Chain(rfa.next)
    BY <2>4, <2>8, <2>9
  <2>15. link[last] = NULL /\ el[last]
    <3> HIDE DEF last
    <3> QED BY <2>9, <2>10
  <2> QED BY <2>11, <2>12, <2>13, <2>14, <2>15, Zenon DEF ListIntact
<1> QED BY <1>1, Invariance, PTL
=============================================================================
