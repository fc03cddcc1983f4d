---------------------------- MODULE PortalConfig ----------------------------
(***************************************************************************)
(* What the portal's replies say: the prelogin (portal/prelogin.rs), the   *)
(* list of gateways (gateway/parse_gateways.rs) and the configuration with *)
(* the order in which its gateways are offered and tried                   *)
(* (portal/config.rs).  An optional value is a sequence of at most one     *)
(* element.  A gateway is a record of name, address, priority and rules,   *)
(* a rule one of name and priority.                                        *)
(***************************************************************************)
EXTENDS Naturals, SequencesExt

CONSTANT MaxPriority   \* u32::MAX

ASSUME PriorityAssumption == MaxPriority \in Nat

\* A number that is missing or does not parse stands above MaxPriority.
Priority(number) == IF number <= MaxPriority THEN number ELSE MaxPriority

Option(options) == IF options = <<>> THEN <<>> ELSE <<Head(options)>>

-----------------------------------------------------------------------------
(* Prelogin: a portal or gateway asks for SAML or for a password.          *)

\* Mutant: gateways are always told of the embedded browser.
BrowserModeOfPortal(options, isGateway) ==
  IF options.requested /\ ~isGateway THEN "external" ELSE "embedded"

BrowserMode(options, isGateway) ==
  IF options.requested /\ (~isGateway \/ options.gatewayAllowed)
  THEN "external" ELSE "embedded"

\* A reply is SAML only when it has a method and a request; the browser it
\* supports says something only then.
ParsePrelogin(reply, server, isGateway, announced) ==
  [server    |-> server,
   isGateway |-> isGateway,
   announced |-> announced,
   saml      |-> reply.method /\ reply.request,
   external  |-> reply.method /\ reply.request /\ reply.defaultBrowser = "yes",
   region    |-> reply.region]

-----------------------------------------------------------------------------
(* The list of gateways and the internal host detection.                   *)

\* Reverse DNS names the expected host for the IPv4 or the IPv6 entry.
InternalHostDetect(entries) == \E i \in DOMAIN entries : entries[i] = "matches"

ParseGateways(doc, preferInternal) ==
  LET Tag(kind, list) == [i \in DOMAIN list |->
        [name     |-> list[i].name,
         address  |-> list[i].address,
         kind     |-> kind,
         priority |-> Priority(list[i].priority),
         rules    |-> [j \in DOMAIN list[i].rules |->
                        [list[i].rules[j] EXCEPT !.priority = Priority(@)]]]]
      Internal == IF preferInternal /\ doc.internal # <<>>
                  THEN <<Tag("internal", Head(doc.internal))>> ELSE <<>>
      External == IF doc.external # <<>>
                  THEN <<Tag("external", Head(doc.external))>> ELSE <<>>
  IN  Option(Internal \o External)

NewGateway(server) ==
  [name |-> server, address |-> server, kind |-> "external",
   priority |-> 0, rules |-> <<>>]

\* A configuration without gateways has the portal itself as its only one.
GatewaysOf(doc, server) ==
  LET preferInternal == doc.detection # <<>> /\ InternalHostDetect(Head(doc.detection))
      parsed         == ParseGateways(doc, preferInternal)
  IN  IF parsed = <<>> \/ parsed = <<<<>>>> THEN <<NewGateway(server)>> ELSE Head(parsed)

-----------------------------------------------------------------------------
(* The order of the gateways.                                              *)

Matching(gateway, region) ==
  {rule \in ToSet(gateway.rules) :
     rule.name \in {region, "Any"} /\ rule.priority < MaxPriority}

\* Mutant: the last gateway with a matching rule.
LastMatchingIndex(gateways, region) ==
  LET matching == {i \in DOMAIN gateways : Matching(gateways[i], region) # {}}
  IN  IF matching # {} THEN Max(matching) ELSE 1

\* The first gateway with the least of the matching rules or, when no rule
\* matches, the first with the least priority of its own.
PreferredIndex(gateways, region) ==
  LET rules == UNION {Matching(gateways[i], region) : i \in DOMAIN gateways}
      least == Min({rule.priority : rule \in rules})
      lowest == Min({gateways[i].priority : i \in DOMAIN gateways})
  IN  IF rules # {}
      THEN SelectInSeq(gateways, LAMBDA g :
             \E rule \in Matching(g, region) : rule.priority = least)
      ELSE SelectInSeq(gateways, LAMBDA g : g.priority = lowest)

PositionOf(gateways, gateway) ==
  SelectInSeq(gateways, LAMBDA g : g.name = gateway.name)

Swapped(gateways, i) ==
  [gateways EXCEPT ![1] = gateways[i], ![i] = gateways[1]]

\* The preferred gateway changes places with the first; it is looked for by
\* its name.
SortGateways(gateways, region) ==
  LET preferred == gateways[PreferredIndex(gateways, region)]
  IN  Swapped(gateways, PositionOf(gateways, preferred))

\* The position of the gateway with that name or address, 0 for none.
FindGateway(gateways, nameOrAddress) ==
  SelectInSeq(gateways, LAMBDA g : nameOrAddress \in {g.name, g.address})

YesNo(text) == CASE text = "yes" -> <<TRUE>> [] text = "no" -> <<FALSE>> [] OTHER -> <<>>
OrFalse(option) == option = <<TRUE>>

ParseConfig(doc, server) ==
  [gateways       |-> GatewaysOf(doc, server),
   extend         |-> OrFalse(YesNo(doc.extend)),
   defaultBrowser |-> OrFalse(YesNo(doc.defaultBrowser))]
=============================================================================
