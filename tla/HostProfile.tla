---------------------------- MODULE HostProfile ----------------------------
(***************************************************************************)
(* Who the client says it is.  HostIdentity reads the machine it runs on   *)
(* (os_profile/host_identity.rs) and OsProfile projects that identity to   *)
(* the operating system named by --os (os_profile/mod.rs).                 *)
(*                                                                         *)
(* A text is a sequence of tokens: <<>> is a blank or missing one, <<t>>   *)
(* one read from the machine, and a text computed from another starts with *)
(* the name of the computation, so that two texts are equal when the       *)
(* program computes them alike from equal texts.                           *)
(***************************************************************************)
EXTENDS Naturals, SequencesExt

ClientOs == {"Linux", "Windows", "Mac"}

Blank == <<>>

FirstOf(texts, fallback) ==
  LET i == SelectInSeq(texts, LAMBDA text : text # Blank)
  IN  IF i = 0 THEN fallback ELSE texts[i]

NonEmpty(text, fallback) == FirstOf(<<text>>, fallback)

DeriveUuid(seed, parts) == <<"uuid">> \o seed \o parts
DeriveMac(seed, parts)  == <<"mac">> \o DeriveUuid(seed, parts)
IsUuid(text) == text # Blank /\ Head(text) = "uuid"
IsMac(text)  == text # Blank /\ Head(text) \in {"mac", "colons"}
Colons(text) == IF text = Blank \/ IsMac(text) THEN text ELSE <<"colons">> \o text

-----------------------------------------------------------------------------
(***************************************************************************)
(* The machine: its operating system and what each source of an identity   *)
(* says.  firmwareId and firmwareSerial are the DMI product's UUID and     *)
(* serial (Linux: only root may read them) or what wmic and ioreg say.     *)
(***************************************************************************)
FirmwareId(machine, root) ==
  IF machine.os = "Linux" /\ ~root THEN Blank ELSE machine.firmwareId

LinuxHostId(machine, root) ==
  NonEmpty(FirmwareId(machine, root),
           DeriveUuid(FirstOf(<<machine.machineId, machine.dbusId>>, machine.hostname), <<>>))

WindowsHostId(machine) ==
  FirstOf(<<machine.firmwareId, machine.machineId>>, machine.hostname)

MacNative(machine) == FirstOf(<<machine.wifiMac, machine.defaultMac>>, Blank)

MacHostId(machine) ==
  NonEmpty(MacNative(machine), DeriveMac(machine.hostname, <<"runtime-mac">>))

NativeHostId(machine, root) ==
  CASE machine.os = "Linux"   -> LinuxHostId(machine, root)
    [] machine.os = "Windows" -> WindowsHostId(machine)
    [] machine.os = "Mac"     -> MacHostId(machine)

\* A serial number is read, or formed from the host id if that is a UUID.
DeriveSerial(hostId) ==
  <<"VMware">> \o (IF IsUuid(hostId) THEN hostId
                                     ELSE DeriveUuid(hostId, <<"runtime-serialno">>))

LinuxSerial(machine, root) ==
  IF root THEN FirstOf(<<machine.firmwareSerial, machine.firmwareId>>, Blank) ELSE Blank

WindowsSerial(machine) == machine.firmwareSerial
MacSerial(machine)     == machine.firmwareSerial

NativeSerial(machine, root) ==
  CASE machine.os = "Linux"   -> LinuxSerial(machine, root)
    [] machine.os = "Windows" -> WindowsSerial(machine)
    [] machine.os = "Mac"     -> MacSerial(machine)

MacComputer(machine) == FirstOf(<<machine.computer>>, machine.hostname)

NativeComputer(machine) ==
  IF machine.os = "Mac" THEN MacComputer(machine) ELSE machine.hostname

NativeMac(machine) ==
  IF machine.os = "Mac" THEN MacNative(machine) ELSE machine.defaultMac

\* collect_with_host_id(override): only the host id is overridden, and what
\* the machine does not say is derived from the host id in use.
HostIdentity(machine, root, override) ==
  LET hostId == NonEmpty(NonEmpty(override, NativeHostId(machine, root)),
                         DeriveUuid(machine.hostname, <<"runtime-host-id">>))
  IN  [computer |-> NativeComputer(machine),
       hostId   |-> hostId,
       serialno |-> NonEmpty(NativeSerial(machine, root), DeriveSerial(hostId)),
       macAddr  |-> NonEmpty(NativeMac(machine), DeriveMac(hostId, <<"runtime-mac">>))]

-----------------------------------------------------------------------------
\* The identity shown natively, and the one derived for another system: from
\* the host id alone, so that the same seed shows the same device everywhere.
NativeProfile(os, identity) ==
  [hostId   |-> IF os = "Mac" THEN Colons(identity.hostId) ELSE identity.hostId,
   serialno |-> identity.serialno]

ProfileUuid(os, seed, part) == DeriveUuid(seed, <<"os-profile", os, part>>)
ProfileMac(os, seed) == DeriveMac(seed, <<"os-profile", os, "mac">>)

LinuxProfile(seed) ==
  LET hostId == ProfileUuid("Linux", seed, "host-id")
  IN  [hostId |-> hostId, serialno |-> DeriveSerial(hostId)]

WindowsProfile(seed) ==
  [hostId   |-> ProfileUuid("Windows", seed, "host-id"),
   serialno |-> <<"VMware">> \o ProfileUuid("Windows", seed, "serialno")]

MacProfile(seed) ==
  [hostId   |-> ProfileMac("Mac", seed),
   serialno |-> <<"compact">> \o ProfileUuid("Mac", seed, "serialno")]

Project(machine, os, identity) ==
  IF os = machine.os THEN NativeProfile(os, identity)
  ELSE CASE os = "Linux"   -> LinuxProfile(identity.hostId)
         [] os = "Windows" -> WindowsProfile(identity.hostId)
         [] os = "Mac"     -> MacProfile(identity.hostId)

\* OsProfile: the seed that is handed on to other processes, and what is shown.
OsProfile(machine, root, os, seedOverride, computerOverride) ==
  LET identity == HostIdentity(machine, root, seedOverride)
      shown    == Project(machine, os, identity)
  IN  [os       |-> os,
       native   |-> os = machine.os,
       seed     |-> identity.hostId,
       hostId   |-> shown.hostId,
       serialno |-> shown.serialno,
       computer |-> NonEmpty(computerOverride, identity.computer)]

-----------------------------------------------------------------------------
(* What the requests of each system look like.                             *)

SamlPassword(os) == IF os = "Linux" THEN <<"SAMLPASS">> ELSE Blank

ExternalBrowser(os) ==
  CASE os = "Linux" -> "4" [] os = "Mac" -> "3" [] os = "Windows" -> "2"

DefaultBrowser(os, isGateway, external) ==
  CASE external                -> ExternalBrowser(os)
    [] ~external /\ isGateway  -> "0"
    [] ~external /\ ~isGateway -> "-10"

DefaultCscSupport(os) == os # "Linux"
EffectiveCscSupport(mode, os) ==
  \/ mode = "yes"
  \/ mode = "auto" /\ DefaultCscSupport(os)
=============================================================================
