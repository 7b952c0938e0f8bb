----------------------------- MODULE MCStartup -----------------------------
(* A host with security, a lane of each kind, and two files, one of them    *)
(* also behind a link that the environment may name.                        *)
EXTENDS Startup, TLC

CONSTANTS lib, other, link

MCResolve == (lib :> lib) @@ (other :> other) @@ (link :> lib)
MCFallbacks == {<<None, None, None, None>>, <<None, link, other, None>>}
=============================================================================
