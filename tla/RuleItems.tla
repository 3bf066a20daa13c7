------------------------------ MODULE RuleItems ------------------------------
(***************************************************************************)
(* The rule items of route/rule_item_*.go: what each one looks at in the   *)
(* metadata of a connection or query (adapter.InboundContext).             *)
(*                                                                         *)
(* v is what the item was built from.  The code keeps lists in maps: v is  *)
(* then a set.  A domain, suffix, keyword or regular expression list is    *)
(* the set of (lower-case) names it matches, an IP list the set of         *)
(* addresses it holds.  Descriptions (String) are left out.                *)
(*                                                                         *)
(* m is the metadata.  Fqdn/Addr/Port are the parts of Destination, of     *)
(* which at most one of Fqdn and Addr is set.  ClashMode and WIFIState are *)
(* what the router answers at the time of the match.                       *)
(***************************************************************************)
EXTENDS Naturals, Sequences, FiniteSets

CONSTANTS
  None,       \* an unset string, address, process or server
  IPv6,       \* the addresses that are IPv6
  NonPublic,  \* the addresses that N.IsPublicAddr refuses
  GeoCountry, \* address |-> the code the GeoIP database gives, None if none
  GeositeDB,  \* code |-> the names of the geosite database entry
  BaseName    \* process path |-> filepath.Base of it

\* filepath.Base and the databases are read only; nothing assigns them.

InboundItem(v, m) == m.Inbound \in v

IPVersionItem(isIPv6, m) ==
  \/ m.IPVersion # 0 /\ (m.IPVersion = 6) = isIPv6
  \/ m.Addr # None /\ (m.Addr \in IPv6) = isIPv6

NetworkItem(v, m) == m.Network \in v

AuthUserItem(v, m) == m.User \in v

ProtocolItem(v, m) == m.Protocol \in v

ClientItem(v, m) == m.Client \in v

\* Zero is "no query": it never matches, whatever the list holds.
QueryTypeItem(v, m) == m.QueryType # 0 /\ m.QueryType \in v

\* "any" stands for every outbound, but not for the absence of one.
OutboundItem(v, m) ==
  \/ "any" \in v /\ m.Outbound # None
  \/ m.Outbound \in v \ {"any"}

FakeIPItem(m) == m.DNSMode = "fakeip"

(* The name the domain items look at: the destination, else the sniffed    *)
(* host, else the domain of the query.                                     *)
DomainHost(m) ==
  IF m.Fqdn # None THEN m.Fqdn
  ELSE IF m.SniffHost # None THEN m.SniffHost
  ELSE m.Domain

DomainItem(v, m) == DomainHost(m) # None /\ DomainHost(m) \in v

DomainKeywordItem(v, m) == DomainHost(m) # None /\ DomainHost(m) \in v

DomainRegexItem(v, m) == DomainHost(m) # None /\ DomainHost(m) \in v

\* The AdGuard item has an order of its own and ignores the sniffed host.
AdGuardDomainItem(v, m) ==
  LET host == IF m.Domain # None THEN m.Domain ELSE m.Fqdn
  IN host # None /\ host \in v

\* One compiled rule per code, each with domain items only.
GeositeItem(codes, m) == \E code \in codes : DomainItem(GeositeDB[code], m)

(* The list holds CIDRs.  In a rule-set with ip_cidr_match_source the      *)
(* destination list looks at the source.  With no address at all the       *)
(* answer is IPCIDRAcceptEmpty.                                            *)
IPCIDRItem(isSource, v, m) ==
  IF isSource \/ m.IPCIDRMatchSource THEN m.SrcAddr \in v
  ELSE IF m.Addr # None THEN m.Addr \in v
  ELSE IF m.DestinationAddresses # <<>>
    THEN \E i \in DOMAIN m.DestinationAddresses : m.DestinationAddresses[i] \in v
  ELSE m.IPCIDRAcceptEmpty

IPIsPrivateItem(isSource, m) ==
  LET addr == IF isSource THEN m.SrcAddr ELSE m.Addr
  IN IF addr # None THEN addr \in NonPublic
     ELSE /\ ~isSource
          /\ \E i \in DOMAIN m.DestinationAddresses :
               m.DestinationAddresses[i] \in NonPublic

PortItem(isSource, v, m) == (IF isSource THEN m.SrcPort ELSE m.Port) \in v

(* A range is written "a:b", ":b" or "a:"; what is missing is the end of   *)
(* the 16-bit port space on that side.                                     *)
PortRangeItem(isSource, v, m) ==
  \E r \in v :
    /\ (IF r.start = None THEN 0 ELSE r.start)
         <= (IF isSource THEN m.SrcPort ELSE m.Port)
    /\ (IF isSource THEN m.SrcPort ELSE m.Port)
         <= (IF r.end = None THEN 65535 ELSE r.end)

ProcessItem(v, m) ==
  /\ m.ProcessInfo # None
  /\ m.ProcessInfo.ProcessPath # None
  /\ BaseName[m.ProcessInfo.ProcessPath] \in v

ProcessPathItem(v, m) ==
  /\ m.ProcessInfo # None
  /\ m.ProcessInfo.ProcessPath # None
  /\ m.ProcessInfo.ProcessPath \in v

PackageNameItem(v, m) ==
  /\ m.ProcessInfo # None
  /\ m.ProcessInfo.PackageName # None
  /\ m.ProcessInfo.PackageName \in v

UserItem(v, m) ==
  /\ m.ProcessInfo # None
  /\ m.ProcessInfo.User # None
  /\ m.ProcessInfo.User \in v

\* -1 is "unknown user" in process.Info; None here.
UserIdItem(v, m) ==
  /\ m.ProcessInfo # None
  /\ m.ProcessInfo.UserId # None
  /\ m.ProcessInfo.UserId \in v

\* None is "no Clash server"; modes are compared without case.
ClashModeItem(v, m) == m.ClashMode # None /\ m.ClashMode \in v

WIFISSIDItem(v, m) == m.WIFIState.SSID \in v

WIFIBSSIDItem(v, m) == m.WIFIState.BSSID \in v

-----------------------------------------------------------------------------
(* The GeoIP item is the one plain item that writes to the metadata: the   *)
(* code of the last address looked up is kept for the following items and  *)
(* rules (SourceGeoIPCode, GeoIPCode), and ResetRuleCache keeps it.        *)

\* GeoIPItem.match: the code of one address.
GeoIPCodeOf(addr) == IF addr \in NonPublic THEN "private" ELSE GeoCountry[addr]

(* GeoIPItem.Match: <<matched, the metadata afterwards>>.  The addresses   *)
(* of the destination are tried in order up to the first match.            *)
GeoIPItem(isSource, v, m) ==
  LET field == IF isSource THEN "SourceGeoIPCode" ELSE "GeoIPCode"
      addr == IF isSource THEN m.SrcAddr ELSE m.Addr
      tried == IF addr # None THEN <<addr>> ELSE m.DestinationAddresses
      hits == {i \in DOMAIN tried : GeoIPCodeOf(tried[i]) \in v \ {None}}
      looked == IF hits = {} THEN DOMAIN tried
                ELSE 1..(CHOOSE i \in hits : \A j \in hits : i <= j)
      known == {i \in looked : GeoIPCodeOf(tried[i]) # None}
      last == CHOOSE i \in known : \A j \in known : j <= i
  IN IF m[field] # None THEN <<m[field] \in v, m>>
     ELSE IF known = {} THEN <<FALSE, m>>
     ELSE <<hits # {}, [m EXCEPT ![field] = GeoIPCodeOf(tried[last])]>>
=============================================================================
