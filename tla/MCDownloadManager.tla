-------------------------- MODULE MCDownloadManager --------------------------
(* One slot is enough for every conflict between two downloads, of one     *)
(* domain or of one with a domain and one without.                         *)
EXTENDS DownloadManager, TLC

CONSTANTS d1, d2, site, noscheme, w, b, h1, h2

MCDomainOf == [d \in Downloads |-> site]

MCMixedDomainOf == [d \in Downloads |-> IF d = d1 THEN site ELSE noscheme]

HandlerSymmetry == Permutations(Handlers)
==============================================================================
