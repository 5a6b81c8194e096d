--------------------------- MODULE IdentityLists ---------------------------
(***************************************************************************)
(* The block and allow lists as administrators edit them and as the        *)
(* scoring reads them: fraud_blocklist and fraud_whitelist, the endpoints  *)
(* that add and remove a row, and the rejection of a case that lists the   *)
(* identity behind it, value by value and statement by statement.          *)
(***************************************************************************)
EXTENDS NetUtil, FiniteSetsExt, Sequences

CONSTANTS Emails,     \* addresses of customers
          Clients,    \* network addresses of customers
          Ranges,     \* what an administrator may type as a range
          Rejections, \* requests that reject a case and list its identity
          EmailOf, ClientOf, \* the identity on the case of each
          FeedRows,   \* rows of the feeds that may be there already
          RangeLimit, \* 2000: rows that a query of ranges answers
          MaxRows,    \* bound: rows at a time
          MaxListFaults \* bound: statements that fail

ASSUME ListsAssumption ==
    /\ Clients \subseteq Address /\ Ranges \subseteq Cidr
    /\ EmailOf \in [Rejections -> Emails] /\ ClientOf \in [Rejections -> Clients]
    /\ MaxRows \in Nat /\ MaxListFaults \in Nat /\ RangeLimit \in Nat \ {0}
    /\ IsFiniteSet(FeedRows)
    /\ \A row \in FeedRows :
          row.source # "manual" /\ (row.type = "ip_range" => row.value \in Cidr)
    /\ \A e \in Emails :
          /\ e = [mailbox |-> e.mailbox, dots |-> e.dots, tag |-> e.tag, domain |-> e.domain]
          /\ e.dots \in BOOLEAN

VARIABLES rows,       \* the rows of both tables
          rejection,  \* where each request is in blocklistCaseIdentity
          listFaults  \* failing statements still to come

listVars == <<rows, rejection, listFaults>>

Lists == {"blocklist", "whitelist"}

Idle == [at |-> "idle", todo |-> <<>>, undone |-> FALSE]

ListsInit ==
    /\ rows \in {{}, FeedRows}
    /\ rejection = [r \in Rejections |-> Idle]
    /\ listFaults = MaxListFaults

-----------------------------------------------------------------------------
(* What the scoring finds.                                                 *)

Values(list, type) == {r.value : r \in {q \in rows : q.list = list /\ q.type = type}}

\* The rows for the address as written, or in its canonical form; there may be several.
EmailRows(e) ==
    {r \in rows : r.list = "blocklist" /\ r.type = "email" /\ r.value \in {e, Canonical(e)}}

DomainRows(e) ==
    {r \in rows : r.list = "blocklist" /\ r.type = "email_domain" /\ r.value = e.domain}

\* What a query with a limit and no order may answer: any rows, as many as there are or so many.
UpTo(limit, found) ==
    kSubset(IF Cardinality(found) > limit THEN limit ELSE Cardinality(found), found)

\* One query for both, which answers three of the rows at most.
Hits(e) == UpTo(3, EmailRows(e) \cup DomainRows(e))

Candidates(list, ip) ==
    {r \in rows : r.list = list /\ r.type = "ip_range" /\ Prefilter(ip, r.value)}

\* What the query of a list's ranges may answer for an address.
Fetched(list, ip) == UpTo(RangeLimit, Candidates(list, NormaliseIp(ip)))

InListedRange(ip, fetched) == \E r \in fetched : IpInCidr(NormaliseIp(ip), r.value)

\* The address itself, or else one of the fetched ranges.
IpListed(ip, fetched) ==
    CASE NormaliseIp(ip) \in Values("blocklist", "ip") -> "exact"
      [] OTHER -> IF InListedRange(ip, fetched) THEN "range" ELSE "no"

\* isAllowlisted is asked for the address as written only.
Allowlisted(e, ip, fetched) ==
    \/ e \in Values("whitelist", "email")
    \/ e.domain \in Values("whitelist", "email_domain")
    \/ NormaliseIp(ip) \in Values("whitelist", "ip")
    \/ InListedRange(ip, fetched)

-----------------------------------------------------------------------------
(* The statements that write.                                              *)

StoredAs(type, value) ==
    CASE type = "ip"    -> NormaliseIp(value)
      [] type = "email" -> Canonical(value)
      [] OTHER          -> value

Accepted(type, value) == type = "ip_range" => IsCidr(value)

\* Ids tell apart rows that say the same, and nothing else.
Insert(list, type, value) ==
    LET new(n) == [id |-> n, list |-> list, type |-> type, value |-> StoredAs(type, value),
                   source |-> "manual"] IN
    /\ Cardinality(rows) < MaxRows
    /\ rows' = rows \cup {new(CHOOSE n \in 1..MaxRows : new(n) \notin rows)}

AddEntry(list, type, value) ==
    /\ Accepted(type, value)
    /\ Insert(list, type, value)
    /\ UNCHANGED <<rejection, listFaults>>

(* Rows of a feed are not an administrator's to remove from the blocklist. *)
RemoveEntry(list) ==
    /\ \E r \in rows : /\ r.list = list /\ r.source = "manual"
                      /\ rows' = rows \ {r}
    /\ rejection' = [r \in Rejections |-> [rejection[r] EXCEPT !.undone = @ \/ rejection[r].at # "idle"]]
    /\ UNCHANGED listFaults

(* The address as written, its canonical form if that is another, and the  *)
(* network address.                                                        *)
Identity(r) ==
    LET e  == EmailOf[r]
        email(value) == [type |-> "email", value |-> value]
        ip == [type |-> "ip", value |-> NormaliseIp(ClientOf[r])] IN
    IF Canonical(e) = e THEN <<email(e), ip>> ELSE <<email(e), email(Canonical(e)), ip>>

Goto(r, place) == rejection' = [rejection EXCEPT ![r].at = place]

OnToNext(r) ==
    LET rest == Tail(rejection[r].todo) IN
    rejection' = [rejection EXCEPT ![r].todo = rest,
                                   ![r].at = IF rest = <<>> THEN "done" ELSE "selecting"]

StartListing(r) ==
    /\ rejection[r].at = "idle"
    /\ rejection' = [rejection EXCEPT ![r].at = "selecting", ![r].todo = Identity(r)]
    /\ UNCHANGED <<rows, listFaults>>

Known(entry) == entry.value \in Values("blocklist", entry.type)

\* Mutant: the first value that is listed already ends the loop.
SelectEntryOrLeave(r) ==
    /\ rejection[r].at = "selecting"
    /\ Goto(r, IF Known(Head(rejection[r].todo)) THEN "done" ELSE "inserting")
    /\ UNCHANGED <<rows, listFaults>>

(* Is it listed already?  A query that fails counts as no.                 *)
SelectEntry(r) ==
    /\ rejection[r].at = "selecting"
    /\ \/ /\ Known(Head(rejection[r].todo))
          /\ OnToNext(r)
          /\ UNCHANGED listFaults
       \/ /\ ~Known(Head(rejection[r].todo))
          /\ Goto(r, "inserting")
          /\ UNCHANGED listFaults
       \/ /\ listFaults > 0
          /\ listFaults' = listFaults - 1
          /\ Goto(r, "inserting")
    /\ UNCHANGED rows

(* addEntry, which throws out of the request when its statement does.      *)
InsertEntry(r) ==
    /\ rejection[r].at = "inserting"
    /\ \/ /\ Insert("blocklist", Head(rejection[r].todo).type, Head(rejection[r].todo).value)
          /\ OnToNext(r)
          /\ UNCHANGED listFaults
       \/ /\ listFaults > 0
          /\ listFaults' = listFaults - 1
          /\ Goto(r, "failed")
          /\ UNCHANGED rows

ListsNext(emails, clients, cidrs) ==
    \/ \E list \in Lists :
          \/ \E e \in emails : AddEntry(list, "email", e) \/ AddEntry(list, "email_domain", e.domain)
          \/ \E ip \in clients : AddEntry(list, "ip", ip)
          \/ \E cidr \in cidrs : AddEntry(list, "ip_range", cidr)
          \/ RemoveEntry(list)
    \/ \E r \in Rejections :
          emails # {} /\ (StartListing(r) \/ SelectEntry(r) \/ InsertEntry(r))

-----------------------------------------------------------------------------
(* One space for all addresses: IPv4 is the block of mapped addresses.     *)

Point(ip) == IF ip.form \in {"v4", "dotted"} THEN Mapped(ip.n) ELSE ip.n

\* The addresses a range stands for.
Extent(cidr) ==
    LET bits == ParsedBits(cidr) + (V6Bits - Width(Family(cidr.base)))
        size == Power[V6Bits - bits]
        low  == (Point(cidr.base) \div size) * size IN
    low..(low + size - 1)

\* Addresses as sockets report them: a mapped one never comes as hex digits.
IsMappedHex(ip) == ip.form \in {"v6", "spelled"} /\ InMappedBlock(ip.n)

Reported == {ip \in Clients : ip.form # "bad" /\ ~IsMappedHex(ip)}

\* Ranges that are no candidates for an IPv4 client: wider than what is before the first
\* dot, of IPv6 addresses that are not mapped, or spelled out.
PassedOver(cidr) ==
    \/ cidr.base.form = "v4" /\ ParsedBits(cidr) < OctetBits /\ FirstOctet(cidr.base.n) # 0
    \/ cidr.base.form = "v6" /\ ~InMappedBlock(cidr.base.n)
    \/ cidr.base.form = "spelled"

(* "a list entry matches however the socket happened to report the client" *)
(* (net-util.ts:102): a client lies in a range of a list exactly if its    *)
(* first bits are the range's, at every prefix length from none to all,    *)
(* for IPv4 written either way and for IPv6.  And although the candidates  *)
(* are narrowed down, and so many fetched at most, in no order             *)
(* (fraud-prevention.service.ts:713-729, 1045-1050), the client is found   *)
(* if it is in a range at all, whichever are fetched, as long as fewer     *)
(* candidates than the limit are ranges that it is not in; but for an      *)
(* IPv4 client in nothing but ranges that are passed over.                 *)
ListedRangesFound ==
    \A list \in Lists, ip \in Reported :
        LET ranges == {r \in rows : r.list = list /\ r.type = "ip_range"}
            around == {r \in ranges : IsCidr(r.value) /\ Point(ip) \in Extent(r.value)}
        IN /\ \A r \in ranges : IpInCidr(ip, r.value) <=> r \in around
           /\ /\ \E r \in around : Family(NormaliseIp(ip)) = 4 => ~PassedOver(r.value)
              /\ Cardinality(Candidates(list, NormaliseIp(ip)) \ around) < RangeLimit
              => \A fetched \in Fetched(list, ip) : InListedRange(ip, fetched)

\* Who reads the mail: dots tell mailboxes apart except where they are ignored.
Inbox(e) == <<e.mailbox, e.domain, e.dots /\ e.domain \notin DotInsensitive>>

(* A row an administrator adds, or a rejection, stops every way to write   *)
(* the address: other tags, and other dots where they do not count.        *)
AliasesShareFate ==
    \A r \in rows : r.list = "blocklist" /\ r.type = "email" /\ r.source = "manual" =>
        \A e \in Emails : Inbox(e) = Inbox(r.value) => EmailRows(e) # {}

=============================================================================
