------------------------------- MODULE IpText -------------------------------
(***************************************************************************)
(* The text of an address as the store keeps it in last_reserved_ip_<n>,   *)
(* to the detail that matters there: how many characters a numeral has.    *)
(* An address stands for the last octet of an IPv4 address whose first     *)
(* three octets are fixed, so its text is its numeral in base Base (10 in  *)
(* the program; a smaller base gives two-character numerals early).        *)
(***************************************************************************)
EXTENDS IpRange

LOCAL INSTANCE FiniteSets
LOCAL INSTANCE SequencesExt

CONSTANT Base

ASSUME BaseAssumption == Base \in Nat \ {0, 1}

Width(n) == Cardinality({i \in 0 .. n : i = 0 \/ Base ^ i <= n})

\* IpAddr::to_string
Text(ip) == [i \in 1 .. Width(ip) |-> (ip \div Base ^ (Width(ip) - i)) % Base]

\* str::parse::<IpAddr>().ok(): None for the empty text, for a leading zero
\* and for a number no octet holds.
Parse(text) ==
  LET value == FoldLeft(LAMBDA v, digit : v * Base + digit, 0, text)
  IN  IF \/ text = <<>>
         \/ Len(text) > 1 /\ Head(text) = 0
         \/ value \notin Addr
      THEN NoIp
      ELSE value

\* write_all at offset 0 into a file that is not truncated: what the old
\* text had past the length of the new one stays.
Overwrite(old, new) == new \o SubSeq(old, Len(new) + 1, Len(old))

=============================================================================
