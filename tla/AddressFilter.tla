--------------------------- MODULE AddressFilter ---------------------------
(***************************************************************************)
(* Which peers a server accepts (rodbus/src/server/address_filter.rs) and    *)
(* how the bindings build a filter from text (parse_address_filter,          *)
(* address_filter_add in ffi/rodbus-ffi/src/server.rs).                      *)
(*                                                                          *)
(* A text is the sequence of its parts between the dots, or the groups of an  *)
(* IPv6 address; an address is an IP version and its octets or groups.       *)
(***************************************************************************)
EXTENDS Integers, Sequences

Star == -1    \* the part "*"

AnyAddress == [type |-> "any", set |-> {}, parts |-> <<>>]
\* An Exact(x), which the bindings do not make, is AnyOf({x}).
AnyOf(set) == [type |-> "any_of", set |-> set, parts |-> <<>>]
WildcardIpv4(parts) == [type |-> "wildcard", set |-> {}, parts |-> parts]

\* get_byte: "*", or the text of a u8
IsByte(part) == part \in 0..255

\* Does the text parse as an IpAddr, and as a WildcardIPv4 (exactly four parts)?
IsIpAddr(text) == text.version = 6 \/ (Len(text.parts) = 4 /\ \A i \in 1..4 : IsByte(text.parts[i]))
IsWildcard(text) ==
    /\ text.version = 4
    /\ Len(text.parts) = 4
    /\ \A i \in 1..4 : text.parts[i] = Star \/ IsByte(text.parts[i])

\* parse_address_filter: a plain address comes first; the filter that is made, or none
address_filter_create(text) ==
    IF IsIpAddr(text) THEN {AnyOf({text})}
    ELSE IF IsWildcard(text) THEN {WildcardIpv4(text.parts)}
    ELSE {}

\* Only a filter that was made from a plain address takes another one; what the
\* filter is afterwards, if it changes.
address_filter_add(filter, text) ==
    IF IsIpAddr(text) /\ filter.type = "any_of" THEN {AnyOf(filter.set \cup {text})} ELSE {}

\* WildcardIPv4::matches: no IPv6 address does
WildcardMatches(parts, addr) ==
    /\ addr.version = 4
    /\ \A i \in 1..4 : parts[i] \in {Star, addr.parts[i]}

\* AddressFilter::matches
matches(filter, addr) ==
    \/ filter.type = "any"
    \/ filter.type = "any_of" /\ addr \in filter.set
    \/ filter.type = "wildcard" /\ WildcardMatches(filter.parts, addr)
=============================================================================
