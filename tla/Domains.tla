------------------------------ MODULE Domains -------------------------------
(***************************************************************************)
(* The two checks of the names of a certificate: the one of the form       *)
(* (web/src/validation.ts) and the one of the service                      *)
(* (internal/certificate/validation.go).  A name is the sequence of its    *)
(* labels and whether it was typed in capitals; names without spaces only. *)
(***************************************************************************)
EXTENDS Naturals, SequencesExt

Name == [labels: Seq(STRING), upper: BOOLEAN]

Empty == [labels |-> <<>>, upper |-> FALSE]

ToLower(name) == [name EXCEPT !.upper = FALSE]

\* domain.startsWith('*.'), which a name in capitals satisfies as well.
IsWildcard(name) == Len(name.labels) > 1 /\ Head(name.labels) = "*"

-----------------------------------------------------------------------------
(* validation.ts *)

\* parseSANDomains, of the names between the separators.  Neither their order nor their
\* number matters to the checks.
ParseSANDomains(typed) == Range(typed) \ {Empty}

\* Mutant: a wildcard covers names at any depth below it.
CoversAnyDepth(wildcard, domain) ==
    /\ wildcard.upper = domain.upper
    /\ IsStrictSuffix(Tail(wildcard.labels), domain.labels)

\* What is left of the suffix is one label that is not empty.
WildcardCoversDomain(wildcard, domain) ==
    /\ wildcard.upper = domain.upper
    /\ IsStrictSuffix(Tail(wildcard.labels), domain.labels)
    /\ Len(domain.labels) = Len(wildcard.labels)
    /\ Head(domain.labels) # ""

Covered(domain, names) ==
    \E w \in {n \in names : IsWildcard(n)} : WildcardCoversDomain(w, domain)

\* findRedundantACMEDomain: the field its message is shown at.
FindRedundantACMEDomain(primary, sans) ==
    LET names == {ToLower(n) : n \in {primary} \cup sans}
        redundant == {n \in names : ~IsWildcard(n) /\ Covered(n, names)}
    IN  IF redundant = {} THEN {}
        ELSE IF ToLower(primary) \in redundant THEN {"primary_domain"} ELSE {"sans"}

-----------------------------------------------------------------------------
(* validation.go *)

ValidateDomain(name, allowWildcard) ==
    /\ Len(name.labels) > 1
    /\ IsWildcard(name) => allowWildcard /\ Len(name.labels) > 2
    /\ "" \notin Range(name.labels)
    /\ "*" \notin Range(IF IsWildcard(name) THEN Tail(name.labels) ELSE name.labels)

\* NormalizeDomains accepts them; it drops duplicates and sorts, which sets do not show.
Normalizes(primary, sans) ==
    /\ ValidateDomain(ToLower(primary), FALSE)
    /\ \A n \in Range(sans) : n # Empty => ValidateDomain(ToLower(n), TRUE)

\* wildcardCoversDomain of the service: it trims the suffix and looks for a dot.
ServiceCovers(wildcard, domain) ==
    \E label \in Range(domain.labels) :
        label # "" /\ domain.labels = <<label>> \o Tail(wildcard.labels)

\* ValidateACMEDomains on normalized names.
ValidateACMEDomains(primary, sans) ==
    LET domains == {ToLower(n) : n \in {primary} \cup Range(sans)} \ {Empty}
    IN  \A d, w \in domains : IsWildcard(w) /\ ~IsWildcard(d) => ~ServiceCovers(w, d)
=============================================================================
