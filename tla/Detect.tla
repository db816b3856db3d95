------------------------------- MODULE Detect -------------------------------
(***************************************************************************)
(* Which backend a host gets: select of src/src/platform/linux/detect.rs   *)
(* and src/src/platform/bsd/mod.rs, on the classification of               *)
(* /etc/resolv.conf of src/src/platform/unix/detect.rs.                    *)
(***************************************************************************)
EXTENDS FiniteSets

\* What stands at /etc/resolv.conf: a link or a file, by its target or its head.
Entries == {"link.resolved", "link.nm", "link.openresolv", "link.other", "dangling",
            "head.openresolv", "head.nm", "head.resolved", "head.other", "plain", "missing"}

\* classify and classify_parts.
Classify(entry) ==
    CASE entry = "missing" -> "Missing"
      [] entry \in {"link.openresolv", "head.openresolv"} -> "OpenResolv"
      [] entry = "plain" -> "Unmanaged"
      [] OTHER -> "Foreign"

\* resolv_conf_owner of Linux.
ResolvConfOwner(entry) ==
    CASE entry \in {"link.resolved", "head.resolved"} -> "SystemdResolved"
      [] entry \in {"link.nm", "head.nm"} -> "NetworkManager"
      [] entry \in {"link.openresolv", "head.openresolv"} -> "Resolvconf"
      [] OTHER -> Classify(entry)

\* A Linux host: the mode of systemd-resolved and the DNS configuration of
\* NetworkManager ("absent" without the service), whether a verified openresolv
\* is installed, and whether its configuration names /etc/resolv.conf.
LinuxHosts ==
    {h \in [os : {"linux"}, entry : Entries,
            resolved : {"absent", "stub", "foreign"},
            mode : {"absent", "default", "dnsmasq", "systemd-resolved"},
            rc : {"none", "file", "resolvconf", "unmanaged"},
            probe : BOOLEAN, blocks : BOOLEAN] :
     h.mode = "absent" <=> h.rc = "none"}

BsdHosts == [os : {"bsd"}, entry : Entries, probe : BOOLEAN, blocks : BOOLEAN]

Probed(host) == IF host.probe THEN "openresolv" ELSE "unavailable"

Direct(host, kind) == IF host.blocks THEN "unavailable" ELSE kind

\* select of Linux asks the managers in this order.
ViaResolved(host) ==
    /\ host.resolved # "absent"
    /\ \/ host.resolved = "stub" \/ host.mode = "systemd-resolved"
       \/ ResolvConfOwner(host.entry) = "SystemdResolved"

Delegated(host) == ~ViaResolved(host) /\ host.rc = "resolvconf"

\* Mutant: NetworkManager owns the file only if the file says so.
NmOwnsByFile(host) ==
    /\ ~ViaResolved(host) /\ ~Delegated(host) /\ host.mode # "absent"
    /\ ResolvConfOwner(host.entry) = "NetworkManager" \/ host.mode = "dnsmasq"

NmOwnsDirectly(host) ==
    /\ ~ViaResolved(host) /\ ~Delegated(host) /\ host.mode # "absent"
    /\ \/ ResolvConfOwner(host.entry) = "NetworkManager"
       \/ host.mode = "dnsmasq" \/ host.rc = "file"

ByOwner(host) ==
    CASE ResolvConfOwner(host.entry) = "Resolvconf" -> Probed(host)
      [] ResolvConfOwner(host.entry) \in {"Unmanaged", "Missing"} -> Direct(host, "direct")
      [] OTHER -> "unavailable"

SelectLinux(host) ==
    CASE ViaResolved(host) -> "resolved"
      [] Delegated(host) -> Probed(host)
      [] NmOwnsDirectly(host) -> "nm"
      [] OTHER -> ByOwner(host)

SelectBsd(host) ==
    CASE Classify(host.entry) = "OpenResolv" -> Probed(host)
      [] Classify(host.entry) \in {"Unmanaged", "Missing"} -> Direct(host, "bsd")
      [] OTHER -> "unavailable"
=============================================================================
