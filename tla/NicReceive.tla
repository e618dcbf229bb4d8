----------------------------- MODULE NicReceive -----------------------------
(***************************************************************************)
(* The receive half of intel.c: the list of receive frame descriptors, on  *)
(* which the card's receive unit (RU), the interrupt handler and the       *)
(* receive daemon work at the same time, and the ARP cache, which the      *)
(* daemon fills and get_hw_addr reads from other processes.                *)
(*                                                                         *)
(* The handler runs with interrupts off: only the card moves meanwhile.    *)
(* The daemon and the resolvers can be preempted between any two accesses. *)
(* When the handler follows the link of the last descriptor, rfa.next is   *)
(* NULL and the model stops.                                               *)
(***************************************************************************)
EXTENDS Integers, Sequences, FiniteSets, SequencesExt

CONSTANTS
  Pages,            \* pages the daemon can be given; the first ones are the list
  TOTAL_RFD,
  ARP_CACHE_SIZE,
  Contents,         \* what a frame can hold: the ip and mac of the sender of an
                    \* ARP request or reply, or NotArp
  IPs,              \* addresses passed to get_hw_addr
  Resolvers,        \* processes that call get_hw_addr
  TRIES,            \* how often get_hw_addr looks into the cache
  MaxFrames,        \* bound: frames the card receives
  MaxCalls          \* bound: calls of get_hw_addr by each resolver

NULL == 0
NotArp == [ip |-> -1, mac |-> 0]

ASSUME NicReceiveAssumption ==
  /\ {TOTAL_RFD, ARP_CACHE_SIZE, TRIES, MaxFrames, MaxCalls} \subseteq Nat \ {0}
  /\ 1 .. TOTAL_RFD + 1 \subseteq Pages /\ Pages \subseteq Nat \ {NULL}
  /\ IsFiniteSet(Pages)
  /\ IPs \subseteq Nat
  /\ Contents \subseteq [ip : Nat, mac : Nat] \cup {NotArp}

Slots == 0 .. ARP_CACHE_SIZE - 1

VARIABLES
  rfa,        \* head, next and tail
  link, el,   \* of each descriptor; el: the end-of-list flag
  frame,      \* what the RU has put into a descriptor: number and contents
  used,       \* the pages of the list
  ru,         \* the RU: its state and its descriptor
  fr,         \* the frame-received bit of stat_ack
  isr,        \* the handler is between the read and the acknowledgement
  arp_cache,  \* ip_addr, filled, hw_addr (in two halves) of each slot
  daemon,     \* where nic_rx_daemon is, its rfd, its slot
  resolver,   \* where each resolver is
  received, processed,   \* frames so far
  lost        \* a frame was received while fr was set or the handler ran

vars == <<rfa, link, el, frame, used, ru, fr, isr, arp_cache, daemon, resolver,
          received, processed, lost>>

List == <<rfa, link, el, used>>
Card == <<ru, fr, frame, received, lost>>

NoFrame == [n |-> 0, data |-> NotArp]

-----------------------------------------------------------------------------
(* The card *)

\* a frame comes in: into the RU's descriptor, if it has one
ru_receive(c) ==
  /\ ru.state = "ready" /\ received < MaxFrames
  /\ frame' = [frame EXCEPT ![ru.at] = [n |-> received + 1, data |-> c]]
  /\ received' = received + 1
  /\ ru' = IF el[ru.at] THEN [ru EXCEPT !.state = "no resources"]
           ELSE [ru EXCEPT !.at = link[@]]
  /\ fr' = TRUE
  /\ lost' = (lost \/ fr \/ isr)
  /\ UNCHANGED <<List, isr, arp_cache, daemon, resolver, processed>>

-----------------------------------------------------------------------------
(* intel_nic_handler *)

\* Mutant: the pointer moves on whether a frame was received or not.
handler_any ==
  /\ ~isr
  /\ rfa' = [rfa EXCEPT !.next = link[@]]
  /\ isr' = TRUE
  /\ UNCHANGED <<link, el, used, Card, arp_cache, daemon, resolver, processed>>

\* Mutant: the pointer moves on only when the daemon has nothing to do.
handler_idle ==
  /\ ~isr /\ fr
  /\ rfa' = IF rfa.head = rfa.next THEN [rfa EXCEPT !.next = link[@]] ELSE rfa
  /\ isr' = TRUE
  /\ UNCHANGED <<link, el, used, Card, arp_cache, daemon, resolver, processed>>

\* one descriptor further, however many were filled
handler ==
  /\ ~isr /\ fr
  /\ rfa' = [rfa EXCEPT !.next = link[@]]
  /\ isr' = TRUE
  /\ UNCHANGED <<link, el, used, Card, arp_cache, daemon, resolver, processed>>

\* an interrupt for something else: the command unit has stopped, or the RU
handler_other ==
  /\ ~isr /\ ~fr /\ ru.state # "off"
  /\ isr' = TRUE
  /\ UNCHANGED <<List, Card, arp_cache, daemon, resolver, processed>>

\* all bits are acknowledged, those that came in meanwhile too
handler_ack ==
  /\ isr
  /\ fr' = FALSE
  /\ isr' = FALSE
  /\ UNCHANGED <<List, ru, frame, received, lost, arp_cache, daemon, resolver,
                 processed>>

-----------------------------------------------------------------------------
(* nic_rx_daemon *)

Daemon(from, to) ==
  /\ ~isr /\ daemon.at = from
  /\ daemon' = [daemon EXCEPT !.at = to]

enable_rx ==
  /\ Daemon("start", "test")
  /\ ru' = [state |-> "ready", at |-> rfa.next]
  /\ UNCHANGED <<List, fr, frame, received, lost, isr, arp_cache, resolver, processed>>

ProbeFrom(ip) == [i \in 1 .. ARP_CACHE_SIZE |-> (ip + i - 1) % ARP_CACHE_SIZE]

\* Mutant: only free slots.
Fitting_free(ip) ==
  {i \in 1 .. ARP_CACHE_SIZE : ~arp_cache[ProbeFrom(ip)[i]].filled}

\* the places of the search at which save_hw_addr would put ip
Fitting(ip) ==
  {i \in 1 .. ARP_CACHE_SIZE : \/ arp_cache[ProbeFrom(ip)[i]].ip_addr = ip
                               \/ ~arp_cache[ProbeFrom(ip)[i]].filled}

(***************************************************************************)
(* There is a frame: what it is decides whether save_hw_addr is called.    *)
(* The answer to a request goes through send_packet and leaves this alone. *)
(***************************************************************************)
process_frame ==
  /\ ~isr /\ daemon.at = "test" /\ rfa.head # rfa.next
  /\ LET f == frame[rfa.head]
         fits == Fitting(f.data.ip)
         save == f.data # NotArp /\ fits # {}
     IN  /\ daemon' = [at |-> IF save THEN "ip" ELSE "head", rfd |-> rfa.head,
                       slot |-> IF save THEN ProbeFrom(f.data.ip)[Min(fits)] ELSE 0,
                       new |-> NULL]
         /\ processed' = Append(processed, f)
  /\ UNCHANGED <<List, Card, isr, arp_cache, resolver>>

\* rfa.head == rfa.next: the daemon tries again at once, for ever
spin ==
  /\ ~isr /\ daemon.at = "test" /\ rfa.head = rfa.next
  /\ UNCHANGED vars

Saved == frame[daemon.rfd].data

save_ip ==
  /\ Daemon("ip", "filled")
  /\ arp_cache' = [arp_cache EXCEPT ![daemon.slot].ip_addr = Saved.ip]
  /\ UNCHANGED <<List, Card, isr, resolver, processed>>

save_filled ==
  /\ Daemon("filled", "mac1")
  /\ arp_cache' = [arp_cache EXCEPT ![daemon.slot].filled = TRUE]
  /\ UNCHANGED <<List, Card, isr, resolver, processed>>

\* a copy of a half of an address that somebody is reading: it is torn
Tearing == [p \in Resolvers |->
              [resolver[p] EXCEPT !.torn = @ \/ (/\ resolver[p].at \in {"copy1", "copy2"}
                                                 /\ resolver[p].slot = daemon.slot)]]

save_mac(half) ==
  /\ Daemon(<<"mac1", "mac2">>[half], <<"mac2", "head">>[half])
  /\ arp_cache' = [arp_cache EXCEPT ![daemon.slot].hw_addr[half] = Saved.mac]
  /\ resolver' = Tearing
  /\ UNCHANGED <<List, Card, isr, processed>>

advance_head ==
  /\ Daemon("head", "free")
  /\ rfa' = [rfa EXCEPT !.head = link[daemon.rfd]]
  /\ UNCHANGED <<link, el, used, Card, isr, arp_cache, resolver, processed>>

free_rfd ==
  /\ Daemon("free", "alloc")
  /\ used' = used \ {daemon.rfd}
  /\ UNCHANGED <<rfa, link, el, Card, isr, arp_cache, resolver, processed>>

\* make_new_tail: any free page, which may be the one just freed
make_new_tail(page) ==
  /\ ~isr /\ daemon.at = "alloc" /\ page \notin used
  /\ daemon' = [daemon EXCEPT !.at = "link", !.new = page]
  /\ used' = used \cup {page}
  /\ link' = [link EXCEPT ![page] = NULL]
  /\ el' = [el EXCEPT ![page] = TRUE]
  /\ frame' = [frame EXCEPT ![page] = NoFrame]
  /\ UNCHANGED <<rfa, ru, fr, received, lost, isr, arp_cache, resolver, processed>>

\* Mutant: the flag is cleared before there is a link.
link_tail_late ==
  /\ Daemon("link", "unset")
  /\ el' = [el EXCEPT ![rfa.tail] = FALSE]
  /\ UNCHANGED <<rfa, link, used, Card, isr, arp_cache, resolver, processed>>

link_tail ==
  /\ Daemon("link", "unset")
  /\ link' = [link EXCEPT ![rfa.tail] = daemon.new]
  /\ UNCHANGED <<rfa, el, used, Card, isr, arp_cache, resolver, processed>>

unset_el ==
  /\ Daemon("unset", "tail")
  /\ el' = [el EXCEPT ![rfa.tail] = FALSE]
  /\ UNCHANGED <<rfa, link, used, Card, isr, arp_cache, resolver, processed>>

advance_tail ==
  /\ Daemon("tail", "test")
  /\ rfa' = [rfa EXCEPT !.tail = link[@]]
  /\ UNCHANGED <<link, el, used, Card, isr, arp_cache, resolver, processed>>

-----------------------------------------------------------------------------
(* get_hw_addr *)

Idle == [at |-> "idle", ip |-> -1, try |-> 1, count |-> 1, slot |-> 0,
         mac |-> <<0, 0>>, torn |-> FALSE, calls |-> 0]

Resolve(p, at) == ~isr /\ resolver[p].at = at
OnlyResolver == UNCHANGED <<List, Card, isr, arp_cache, daemon, processed>>

get_hw_addr(p, ip) ==
  /\ Resolve(p, "idle") /\ resolver[p].calls < MaxCalls
  /\ resolver' = [resolver EXCEPT ![p] =
       [Idle EXCEPT !.at = "probe", !.ip = ip, !.slot = ip % ARP_CACHE_SIZE,
                    !.calls = resolver[p].calls + 1]]
  /\ OnlyResolver

\* Mutant: the filled flag is not looked at.
probe_unfilled(p) ==
  /\ Resolve(p, "probe")
  /\ LET r == resolver[p]
     IN  resolver' = [resolver EXCEPT ![p] =
           IF arp_cache[r.slot].ip_addr = r.ip
           THEN [r EXCEPT !.at = "copy1"]
           ELSE IF r.count = ARP_CACHE_SIZE THEN [r EXCEPT !.at = "request"]
           ELSE [r EXCEPT !.slot = (@ + 1) % ARP_CACHE_SIZE, !.count = @ + 1]]
  /\ OnlyResolver

\* one slot of the cache
probe(p) ==
  /\ Resolve(p, "probe")
  /\ LET r == resolver[p]
     IN  resolver' = [resolver EXCEPT ![p] =
           IF arp_cache[r.slot].ip_addr = r.ip /\ arp_cache[r.slot].filled
           THEN [r EXCEPT !.at = "copy1"]
           ELSE IF r.count = ARP_CACHE_SIZE THEN [r EXCEPT !.at = "request"]
           ELSE [r EXCEPT !.slot = (@ + 1) % ARP_CACHE_SIZE, !.count = @ + 1]]
  /\ OnlyResolver

\* the daemon is in the middle of the address that is being read
Torn(p) == daemon.at \in {"mac1", "mac2"} /\ daemon.slot = resolver[p].slot

copy(p, half) ==
  /\ Resolve(p, <<"copy1", "copy2">>[half])
  /\ resolver' = [resolver EXCEPT
       ![p].at = <<"copy2", "found">>[half],
       ![p].mac[half] = arp_cache[resolver[p].slot].hw_addr[half],
       ![p].torn = @ \/ Torn(p)]
  /\ OnlyResolver

(***************************************************************************)
(* Not found: a request is sent, whose answer may come at any time or      *)
(* never, and after a sleep the search starts again, or the call fails     *)
(* without another look.                                                   *)
(***************************************************************************)
request_and_sleep(p) ==
  /\ Resolve(p, "request")
  /\ LET r == resolver[p]
     IN  resolver' = [resolver EXCEPT ![p] =
           IF r.try = TRIES THEN [r EXCEPT !.at = "failed"]
           ELSE [r EXCEPT !.at = "probe", !.try = @ + 1, !.count = 1,
                          !.slot = r.ip % ARP_CACHE_SIZE]]
  /\ OnlyResolver

\* the caller goes on
return(p) ==
  /\ ~isr /\ resolver[p].at \in {"found", "failed"}
  /\ resolver' = [resolver EXCEPT ![p] = [Idle EXCEPT !.calls = resolver[p].calls]]
  /\ OnlyResolver

-----------------------------------------------------------------------------
RanOff == rfa.next = NULL

\* as init_rfa leaves it
Init ==
  /\ rfa = [head |-> 1, next |-> 1, tail |-> TOTAL_RFD + 1]
  /\ link = [page \in Pages |-> IF page <= TOTAL_RFD THEN page + 1 ELSE NULL]
  /\ el = [page \in Pages |-> page = TOTAL_RFD + 1]
  /\ frame = [page \in Pages |-> NoFrame]
  /\ used = 1 .. TOTAL_RFD + 1
  /\ ru = [state |-> "off", at |-> NULL]
  /\ fr = FALSE /\ isr = FALSE
  /\ arp_cache = [s \in Slots |-> [ip_addr |-> 0, filled |-> FALSE, hw_addr |-> <<0, 0>>]]
  /\ daemon = [at |-> "start", rfd |-> NULL, slot |-> 0, new |-> NULL]
  /\ resolver = [p \in Resolvers |-> Idle]
  /\ received = 0 /\ processed = <<>>
  /\ lost = FALSE

RxDaemon ==
  \/ enable_rx \/ process_frame \/ spin
  \/ save_ip \/ save_filled \/ save_mac(1) \/ save_mac(2)
  \/ advance_head \/ free_rfd
  \/ \E page \in Pages : make_new_tail(page)
  \/ link_tail \/ unset_el \/ advance_tail

Resolver(p) ==
  \/ \E ip \in IPs : get_hw_addr(p, ip)
  \/ probe(p) \/ copy(p, 1) \/ copy(p, 2) \/ request_and_sleep(p) \/ return(p)

Next ==
  \/ ~RanOff /\ \E c \in Contents : ru_receive(c)
  \/ ~RanOff /\ handler
  \/ ~RanOff /\ handler_other
  \/ ~RanOff /\ handler_ack
  \/ ~RanOff /\ RxDaemon
  \/ ~RanOff /\ \E p \in Resolvers : Resolver(p)
  \/ RanOff /\ UNCHANGED vars

(***************************************************************************)
(* A pending interrupt is taken and the handler ends; the daemon, of the   *)
(* highest priority, gets on between the interrupts, however many come.    *)
(***************************************************************************)
Fairness ==
  /\ WF_vars(~RanOff /\ handler)
  /\ WF_vars(~RanOff /\ handler_ack)
  /\ SF_vars(~RanOff /\ RxDaemon)

Spec == Init /\ [][Next]_vars /\ Fairness

-----------------------------------------------------------------------------
(* Properties *)

\* the descriptors from page on
Chain(page) ==
  LET N == Cardinality(Pages)
      after[k \in 0 .. N] == IF k = 0 THEN page
                             ELSE IF after[k - 1] = NULL THEN NULL
                             ELSE link[after[k - 1]]
  IN  {after[k] : k \in 0 .. N} \ {NULL}

(***************************************************************************)
(* init_rfa, nic_rx_daemon, intel_nic_handler: whoever moved last, one     *)
(* list leads from head over next and the RU's descriptor to tail, its     *)
(* pages are in use, and only its end has the end-of-list flag, so the RU  *)
(* never gets past it and never writes into a page that was given back.    *)
(***************************************************************************)
ListIntact ==
  LET last == IF daemon.at \in {"unset", "tail"} THEN daemon.new ELSE rfa.tail
  IN  RanOff \/
      /\ Chain(rfa.head) \subseteq used
      /\ {rfa.next, rfa.tail} \subseteq Chain(rfa.head)
      /\ last \in Chain(rfa.next) /\ link[last] = NULL /\ el[last]
      /\ ru.state = "ready" => ru.at \in Chain(rfa.next)
      /\ \A page \in Chain(rfa.head) : el[page] => page \in {last, rfa.tail}

(***************************************************************************)
(* nic_rx_daemon: frames are processed in the order in which they were     *)
(* received, each once, and nothing is that was not received.              *)
(***************************************************************************)
FramesInOrder ==
  RanOff \/ \A i \in 1 .. Len(processed) : processed[i].n = i

(***************************************************************************)
(* get_hw_addr, save_hw_addr: what a resolver returns was announced for    *)
(* that address in a frame the daemon has processed, unless it was read    *)
(* while the daemon was writing it.                                        *)
(***************************************************************************)
ResolvedWasAnnounced ==
  \A p \in Resolvers : resolver[p].at = "found" /\ ~resolver[p].torn =>
     \E i \in 1 .. Len(processed) :
        /\ processed[i].data.ip = resolver[p].ip
        /\ resolver[p].mac = <<processed[i].data.mac, processed[i].data.mac>>

(***************************************************************************)
(* save_hw_addr probes from the hash: an address has one filled slot, and  *)
(* every filled slot is found by a search that starts at the hash of its   *)
(* address and stops at the first free one.                                *)
(***************************************************************************)
CacheSearchable ==
  \A s \in Slots : arp_cache[s].filled =>
     \A i \in 1 .. ARP_CACHE_SIZE :
        LET probed == ProbeFrom(arp_cache[s].ip_addr)
        IN  (\A j \in 1 .. i : probed[j] # s) =>
              /\ arp_cache[probed[i]].filled
              /\ arp_cache[probed[i]].ip_addr # arp_cache[s].ip_addr

(***************************************************************************)
(* Every frame that is received is processed, as long as no two frames     *)
(* came in behind one interrupt, or one during a handler, and the list has *)
(* not run out.                                                            *)
(***************************************************************************)
FramesProcessed ==
  \A n \in 1 .. MaxFrames :
     received = n ~> (Len(processed) >= n \/ lost \/ RanOff)

=============================================================================
