----------------------------- MODULE ArpCache -----------------------------
(***************************************************************************)
(* The ARP cache of FreeRTOS_ARP.c.  Only the IP task touches it, so each  *)
(* call is one step.  A row holds the hardware address last heard for an   *)
(* IP address (valid) or waits for the answer to a request (not valid);    *)
(* rows are reused, never deleted.                                         *)
(***************************************************************************)
EXTENDS Integers, FiniteSets

CONSTANTS
    NumRows,          \* ipconfigARP_CACHE_ENTRIES
    MaxAge,           \* ipconfigMAX_ARP_AGE
    Retransmissions,  \* ipconfigMAX_ARP_RETRANSMISSIONS
    Warning,          \* arpMAX_ARP_AGE_BEFORE_NEW_ARP_REQUEST
    Local, Remote,    \* the IP addresses on and off the local network
    Gateway,          \* ulGatewayAddress, NoIp if there is none
    Macs,             \* hardware addresses
    NoIp, NoMac       \* the zero addresses

ASSUME ArpAssumption ==
    /\ NumRows \in Nat \ {0} /\ Warning \in Nat
    /\ MaxAge \in 1..255 /\ Retransmissions \in 1..255
    /\ NoIp \notin Local \cup Remote /\ NoMac \notin Macs
    /\ Local \cap Remote = {}
    /\ Gateway \in Local \cup {NoIp}

VARIABLES
    arp,    \* xARPCache
    heard,  \* history: the hardware address last heard for an IP address
    claim   \* history: the IP address last heard from a hardware address

arpVars == <<arp, heard, claim>>

Rows == 1..NumRows
Ips == Local \cup Remote
Empty == [ip |-> NoIp, mac |-> NoMac, age |-> 0, valid |-> FALSE]

InitArp ==
    /\ arp = [x \in Rows |-> Empty]
    /\ heard = [i \in Ips |-> NoMac]
    /\ claim = [m \in Macs |-> NoIp]

-----------------------------------------------------------------------------
(* vARPRefreshCacheEntry *)

\* The rows of an IP address, those of a hardware address and another IP
\* address, and those of both
IpRows(ip) == {x \in Rows : arp[x].ip = ip}
MacRows(m, ip) == {x \in Rows : arp[x].mac = m /\ arp[x].ip # ip}
Confirmed(m, ip) == {x \in IpRows(ip) : arp[x].mac = m}

\* The row a loop stops at, and the one it remembers if it goes on
First(S) == {x \in S : \A y \in S : x <= y}
LastOf(S) == {x \in S : \A y \in S : y <= x}

\* Mutant of OldestRow: the youngest row is reused.
YoungestRow == First({x \in Rows : \A y \in Rows : arp[x].age >= arp[y].age})

\* The first of the rows with the lowest age
OldestRow == First({x \in Rows : \A y \in Rows : arp[x].age <= arp[y].age})

Answered(m, ip) == [ip |-> ip, mac |-> m, age |-> MaxAge, valid |-> TRUE]

\* Mutant of Refreshed: the row of the IP address is not cleared when the
\* hardware address has another row.
RefreshedTwice(m, ip) ==
    LET rows == IF Confirmed(m, ip) # {} THEN First(Confirmed(m, ip))
                ELSE IF MacRows(m, ip) # {} THEN LastOf(MacRows(m, ip))
                ELSE IF IpRows(ip) # {} THEN LastOf(IpRows(ip)) ELSE OldestRow
    IN  {[arp EXCEPT ![x] = Answered(m, ip)] : x \in rows}

\* Mutant of Refreshed: a row of the IP address is only made young again.
RefreshedAge(m, ip) ==
    IF IpRows(ip) # {}
    THEN {[arp EXCEPT ![x].age = MaxAge, ![x].valid = TRUE] : x \in First(IpRows(ip))}
    ELSE {[arp EXCEPT ![x] = Answered(m, ip)] :
             x \in IF MacRows(m, ip) # {} THEN LastOf(MacRows(m, ip)) ELSE OldestRow}

\* With a hardware address, a row of both addresses is made young again; else
\* the row of the hardware address is reused and that of the IP address
\* cleared; else the row of the IP address is reused; else the oldest row.
Refreshed(m, ip) ==
    IF Confirmed(m, ip) # {}
    THEN {[arp EXCEPT ![x] = Answered(m, ip)] : x \in First(Confirmed(m, ip))}
    ELSE IF MacRows(m, ip) # {}
    THEN {[x \in Rows |-> IF x = y THEN Answered(m, ip)
                          ELSE IF x \in LastOf(IpRows(ip)) THEN Empty ELSE arp[x]] :
             y \in LastOf(MacRows(m, ip))}
    ELSE IF IpRows(ip) # {}
    THEN {[arp EXCEPT ![x] = Answered(m, ip)] : x \in LastOf(IpRows(ip))}
    ELSE {[arp EXCEPT ![x] = Answered(m, ip)] : x \in OldestRow}

\* Mutant of Reserved: a new request is entered with the age of an answer.
ReservedForLong(ip) ==
    {[arp EXCEPT ![x] = [@ EXCEPT !.ip = ip, !.age = MaxAge, !.valid = FALSE]] : x \in OldestRow}

\* Without one, the oldest row now waits for an answer; it keeps the hardware
\* address it had.  A row of the IP address is left as it is.
Reserved(ip) ==
    IF IpRows(ip) # {} THEN {arp}
    ELSE {[arp EXCEPT ![x] = [@ EXCEPT !.ip = ip, !.age = Retransmissions, !.valid = FALSE]] :
             x \in OldestRow}

\* A frame from ip at m: only addresses on the local network are stored.
Hear(m, ip) ==
    IF ip \in Local
    THEN /\ arp' \in Refreshed(m, ip)
         /\ heard' = [heard EXCEPT ![ip] = m]
         /\ claim' = [claim EXCEPT ![m] = ip]
    ELSE UNCHANGED arpVars

-----------------------------------------------------------------------------
(* eARPGetCacheEntry, prvCacheLookup *)

\* The address looked up: that of the gateway if ip is off the local network
Hop(ip) == IF ip \in Local THEN ip ELSE Gateway

\* eARPCacheHit, eARPCacheMiss, or eCantSendPacket while a request is
\* outstanding and when there is no way to the address
Lookup(ip) ==
    IF Hop(ip) = NoIp THEN "cantSend"
    ELSE IF IpRows(Hop(ip)) = {} THEN "miss"
    ELSE IF \E x \in First(IpRows(Hop(ip))) : arp[x].valid THEN "hit"
    ELSE "cantSend"

\* The hardware address of a hit
LookedUp(ip) == {arp[x].mac : x \in First(IpRows(Hop(ip)))}

\* vProcessGeneratedUDPPacket reserves a row for an address that is not there
Reserve(ip) ==
    /\ Lookup(ip) = "miss"
    /\ arp' \in Reserved(Hop(ip))
    /\ UNCHANGED <<heard, claim>>

-----------------------------------------------------------------------------
(* vARPAgeCache, one row *)

\* Only the IP address of a row that has expired is wiped.
Aged(x) ==
    LET r == arp[x]
        a == r.age - 1
    IN  [arp EXCEPT ![x] = [ip |-> IF a = 0 THEN NoIp ELSE r.ip, mac |-> r.mac, age |-> a,
                            valid |-> r.valid]]

\* The row waits for an answer, or will expire soon
AsksAgain(x) == arp[x].age > 0 /\ (~arp[x].valid \/ arp[x].age - 1 <= Warning)

\* Mutant of AgeRow: the age of a row that is not in use goes on falling.
AgeUnused(x) ==
    /\ arp' = Aged(x)
    /\ UNCHANGED <<heard, claim>>

AgeRow(x) ==
    /\ arp' = IF arp[x].age > 0 THEN Aged(x) ELSE arp
    /\ UNCHANGED <<heard, claim>>

-----------------------------------------------------------------------------
(* The cache driven by any sequence of frames, packets and timer events *)

ArpNext ==
    \/ \E m \in Macs, ip \in Ips : Hear(m, ip)
    \/ \E ip \in Ips : Reserve(ip)
    \/ \E x \in Rows : AgeRow(x)

ArpSpec == InitArp /\ [][ArpNext]_arpVars

-----------------------------------------------------------------------------
(* Types and properties *)

ArpTypeOK ==
    /\ arp \in [Rows -> [ip : Local \cup {NoIp}, mac : Macs \cup {NoMac},
                         age : 0..255, valid : BOOLEAN]]
    /\ heard \in [Ips -> Macs \cup {NoMac}]
    /\ claim \in [Macs -> Ips \cup {NoIp}]

\* No two rows are of the same IP address, and none of the same hardware
\* address, whichever rows are reused and in whatever order frames, requests
\* and expiries come: the loops, which stop at one row, see the only one.
OneRowEach ==
    \A x, y \in Rows : x # y =>
        /\ arp[x].ip # NoIp => arp[x].ip # arp[y].ip
        /\ arp[x].mac # NoMac => arp[x].mac # arp[y].mac

\* A packet goes to the host that was last heard at its address, and to a host
\* that has not been heard at another address since.
HitIsLatest ==
    \A ip \in Local : Lookup(ip) = "hit" =>
        \A m \in LookedUp(ip) : heard[ip] = m /\ claim[m] = ip

\* The cache tells the truth, whatever frames, requests and expiries came.
CacheIntact == ArpTypeOK /\ OneRowEach /\ HitIsLatest

\* A request is repeated a bounded number of times: a row that waits for an
\* answer is never given more time, however often packets for its address are
\* sent, and a row that was not waiting gets the time of a request.
Waiting(x) == arp[x].ip # NoIp /\ ~arp[x].valid
RequestsRunOut ==
    [][\A x \in Rows :
         Waiting(x)' => arp'[x].age <= IF Waiting(x) /\ arp'[x].ip = arp[x].ip
                                       THEN arp[x].age ELSE Retransmissions]_arpVars

\* An address loses its row only when its time has run out, when its hardware
\* address answers for another IP address, or when its row was the oldest.
EvictsOldest ==
    [][\A x \in Rows :
         arp[x].ip # NoIp /\ ~(\E y \in Rows : arp'[y].ip = arp[x].ip) =>
           \/ arp[x].age = 1
           \/ arp[x].mac = arp'[x].mac /\ arp'[x].valid
           \/ \A y \in Rows : arp[x].age <= arp[y].age]_arpVars
=============================================================================
