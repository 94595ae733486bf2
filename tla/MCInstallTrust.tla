---------------------------- MODULE MCInstallTrust ----------------------------
(***************************************************************************)
(* An instance of InstallTrust for TLC: one bundle directory, one place    *)
(* with a locally built Tethers, one of each caller.                       *)
(***************************************************************************)
EXTENDS InstallTrust, TLC

CONSTANTS p1, p2

\* 0.8.1 is supported, 0.9.0 is not; the local build has no `describe --json` and
\* gives the supported version elsewhere.
Version(b) == CASE b = "r81" -> "0.8.1" [] b = "r90" -> "0.9.0" [] b = "local" -> "0.8.1"
MCSpoken == [b \in Builds |-> Version(b)]
MCPrinted == [b \in Builds |-> Version(b)]
MCDescribed == [b \in Builds |-> IF b = "local" THEN None ELSE Version(b)]

Plain == [gate |-> None, root |-> None, dev |-> None, engine |-> None,
          path |-> None, installed |-> None, override |-> FALSE]

OnPath == [Plain EXCEPT !.path = "bundle", !.installed = "local"]
Split == [Plain EXCEPT !.gate = "bundle", !.engine = "local"]
Checkout == [Plain EXCEPT !.dev = "local", !.path = "bundle"]
Override == [Plain EXCEPT !.installed = "bundle", !.override = TRUE]

Of(r) == [gate |-> r, engine |-> r, sums |-> r]
Built == [gate |-> "local", engine |-> "local", sums |-> None]
MCDisks == {[d \in Places |-> IF d = "bundle" THEN Of(r) ELSE Built] : r \in Releases}

Starts(first, environments, hosts) ==
    [role: {(p1 :> first) @@ (p2 :> "doctor")}, env: environments, disk: MCDisks, host: hosts]

MCSituations ==
    Starts("session", {OnPath, Split, Checkout, Override}, {"provisioned"})
        \cup Starts("setup", {OnPath}, {"absent"})
=============================================================================
