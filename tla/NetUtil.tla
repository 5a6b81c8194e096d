------------------------------ MODULE NetUtil ------------------------------
(***************************************************************************)
(* Addresses, ranges and e-mail identities: net-util.ts.  An address is    *)
(* what its text says, the form it is written in and the number; the       *)
(* widths are constants, so that a small address space has every prefix    *)
(* length from none to all bits.  JavaScript's integers show where they    *)
(* matter: a shift count is taken modulo the width of the left operand.    *)
(***************************************************************************)
EXTENDS Integers

CONSTANTS V4Bits,     \* width of an IPv4 address (32), and of JavaScript's integers
          OctetBits,  \* width of what stands before its first dot (8)
          V6Bits,     \* width of an IPv6 address (128)
          MappedHigh, \* what stands before an IPv4 address mapped into IPv6 (0xffff)
          DotInsensitive \* domains that ignore dots (gmail.com, googlemail.com)

\* Powers of two, as a function that can be reasoned about.
Power[k \in Nat] == IF k = 0 THEN 1 ELSE 2 * Power[k - 1]

ASSUME WidthAssumption ==
    /\ V4Bits \in Nat /\ OctetBits \in 1..V4Bits
    /\ V6Bits \in Nat /\ V6Bits > V4Bits
    /\ MappedHigh \in 1..(Power[V6Bits - V4Bits] - 1)

Null == -1
Bare == -1    \* the prefix length of an address without one

\* "1.2.3.4", "::ffff:1.2.3.4", an address in groups of hex digits with the first zeros
\* left out ("::ffff:102:304"), one with all groups or in brackets, anything else.
Address ==
    [form : {"v4", "dotted"}, n : 0..(Power[V4Bits] - 1)]
        \cup [form : {"v6", "spelled"}, n : 0..(Power[V6Bits] - 1)]
        \cup {[form |-> "bad", n |-> 0]}

Cidr == [base : Address, bits : {Bare} \cup 0..(V6Bits + 1)]

-----------------------------------------------------------------------------
NormaliseIp(ip) == IF ip.form = "dotted" THEN [ip EXCEPT !.form = "v4"] ELSE ip

Ipv4ToInt(ip) == IF ip.form = "v4" THEN ip.n ELSE Null

Mapped(n) == MappedHigh * Power[V4Bits] + n

Ipv6ToBigInt(ip) ==
    CASE ip.form \in {"v6", "spelled"} -> ip.n
      [] ip.form = "dotted"            -> Mapped(ip.n)
      [] OTHER                         -> Null

Family(ip) == IF Ipv4ToInt(ip) # Null THEN 4 ELSE IF Ipv6ToBigInt(ip) # Null THEN 6 ELSE Null

Width(family) == IF family = 4 THEN V4Bits ELSE V6Bits

ParsedBits(cidr) ==
    IF cidr.bits = Bare THEN Width(Family(cidr.base)) ELSE cidr.bits

IsCidr(cidr) ==
    /\ Family(cidr.base) # Null
    /\ ParsedBits(cidr) <= Width(Family(cidr.base))

\* n with all but its first bits cleared, by a shift that wraps at the given width.
Masked(n, bits, width, wrap) == n - (n % Power[(width - bits) % wrap])

\* Mutant: no case of its own for a prefix of no bits.
SamePrefixMasked(n, base, bits, width, wrap) ==
    Masked(n, bits, width, wrap) = Masked(base, bits, width, wrap)

(* The IPv4 path shifts a 32-bit integer, so a prefix of no bits would     *)
(* shift by 32, which is by nothing.  The IPv6 path shifts a BigInt.       *)
SamePrefix(n, base, bits, width, wrap) ==
    bits = 0 \/ Masked(n, bits, width, wrap) = Masked(base, bits, width, wrap)

IpInCidr(ip, cidr) ==
    LET client == NormaliseIp(ip)
        v4     == Ipv4ToInt(client)
        n      == IF v4 # Null THEN Mapped(v4) ELSE Ipv6ToBigInt(client)
        bits   == ParsedBits(cidr) IN
    /\ IsCidr(cidr)
    /\ \/ /\ Family(cidr.base) = 4
          /\ v4 # Null
          /\ SamePrefix(v4, Ipv4ToInt(cidr.base), bits, V4Bits, V4Bits)
       \/ /\ Family(cidr.base) = 6
          /\ n # Null
          /\ SamePrefix(n, Ipv6ToBigInt(cidr.base), bits, V6Bits, V6Bits + 1)

-----------------------------------------------------------------------------
(* The candidates of the scoring's query, before it looks closely: by how  *)
(* the text of a range begins.  A mapped range is one for an IPv4 client   *)
(* if its text begins with "::ffff:", and not if it is spelled out.        *)

FirstOctet(n) == n \div Power[V4Bits - OctetBits]

InMappedBlock(n) == n \div Power[V4Bits] = MappedHigh

Prefilter(ip, cidr) ==
    IF ip.form = "v4"
    THEN \/ cidr.base.form = "v4" /\ FirstOctet(cidr.base.n) \in {FirstOctet(ip.n), 0}
         \/ cidr.base.form = "dotted"
         \/ cidr.base.form = "v6" /\ InMappedBlock(cidr.base.n)
    ELSE cidr.base.form \in {"dotted", "v6", "spelled"}

-----------------------------------------------------------------------------
(* An e-mail address is a mailbox, whether it is written with dots, a tag  *)
(* after a plus sign (0 for none) and a domain.                            *)

\* Mutant: the dots stay.
CanonicalWithDots(email) == [email EXCEPT !.tag = 0]

Canonical(email) ==
    [email EXCEPT !.tag = 0,
                  !.dots = @ /\ email.domain \notin DotInsensitive]

=============================================================================
