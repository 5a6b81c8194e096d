----------------------------- MODULE ListsProofs -----------------------------
(***************************************************************************)
(* Proofs about the lists, for any addresses, lists and ranges, any number *)
(* of requests that list an identity at a time, and administrators who     *)
(* edit the lists meanwhile.                                               *)
(***************************************************************************)
EXTENDS Assessment, NumberLemmas

(* The inductive invariant behind AliasesShareFate: what is written into   *)
(* the blocklist by hand is the canonical form of an address.              *)
RowsInv ==
    \A row \in rows : row.list = "blocklist" /\ row.type = "email" /\ row.source = "manual" =>
        \E e \in Emails : row.value = Canonical(e)

(* And what a request that lists an identity has done: until it ends, what *)
(* it has not listed is still to do, unless an administrator interfered.   *)
Stored(r) ==
    {[type |-> "email", value |-> Canonical(EmailOf[r])],
     [type |-> "ip", value |-> NormaliseIp(ClientOf[r])]}

ToList(r) == Stored(r) \cup {[type |-> "email", value |-> EmailOf[r]]}

RequestInv ==
    \A r \in Rejections :
        /\ rejection[r] = [at |-> rejection[r].at, todo |-> rejection[r].todo,
                           undone |-> rejection[r].undone]
        /\ rejection[r].todo \in Seq(ToList(r))
        /\ rejection[r].at \in {"selecting", "inserting"} => rejection[r].todo # <<>>
        /\ rejection[r].at = "done" => rejection[r].todo = <<>>
        /\ rejection[r].at # "idle" /\ ~rejection[r].undone =>
              \A entry \in Stored(r) :
                  Known(entry) \/ \E i \in DOMAIN rejection[r].todo : rejection[r].todo[i] = entry

ListedInv ==
    /\ rejection = [r \in Rejections |-> rejection[r]]
    /\ RowsInv /\ RequestInv

-----------------------------------------------------------------------------
(* Only the stories about the lists touch what the lists keep.             *)
LEMMA ListsOrNothing ==
  ASSUME [Next]_vars
  PROVE  \/ ListsNext(Typed, {}, {}) \/ ListsNext({}, TypedIps, Ranges) \/ ListsNext({}, {}, Crowd)
         \/ UNCHANGED listVars
BY DEF Next, vars, ListsStory, CountsStory, NetworkStory

-----------------------------------------------------------------------------
(* What is canonical stays as it is, and is the same for every alias.      *)

LEMMA CanonicalIs ==
  ASSUME NEW e \in Emails
  PROVE  /\ Canonical(e) = [mailbox |-> e.mailbox, dots |-> e.dots /\ e.domain \notin DotInsensitive,
                            tag |-> 0, domain |-> e.domain]
         /\ (e.dots /\ e.domain \notin DotInsensitive) \in BOOLEAN
<1>1. /\ e = [mailbox |-> e.mailbox, dots |-> e.dots, tag |-> e.tag, domain |-> e.domain]
      /\ e.dots \in BOOLEAN
  BY ListsAssumption
<1>2. PICK m, d, t, w : e = [mailbox |-> m, dots |-> d, tag |-> t, domain |-> w] /\ d \in BOOLEAN
  BY <1>1
<1>3. e.mailbox = m /\ e.dots = d /\ e.tag = t /\ e.domain = w
  BY <1>2
<1> DEFINE untagged == [e EXCEPT !.tag = 0]
           kept == d /\ w \notin DotInsensitive
<1>4. untagged = [mailbox |-> m, dots |-> d, tag |-> 0, domain |-> w]
  BY <1>2
<1>5. Canonical(e) = [untagged EXCEPT !.dots = kept]
  BY <1>3, <1>4 DEF Canonical
<1> HIDE DEF untagged, kept
<1>6. Canonical(e) = [mailbox |-> m, dots |-> kept, tag |-> 0, domain |-> w]
  BY <1>4, <1>5
<1>7. QED
  BY <1>2, <1>3, <1>6 DEF kept

LEMMA OneFormForAll ==
  ASSUME NEW e \in Emails, NEW f \in Emails, Inbox(e) = Inbox(Canonical(f))
  PROVE  Canonical(e) = Canonical(f)
<1> DEFINE kept(x) == x.dots /\ x.domain \notin DotInsensitive
<1>1. /\ Canonical(e) = [mailbox |-> e.mailbox, dots |-> kept(e), tag |-> 0, domain |-> e.domain]
      /\ Canonical(f) = [mailbox |-> f.mailbox, dots |-> kept(f), tag |-> 0, domain |-> f.domain]
      /\ kept(e) \in BOOLEAN /\ kept(f) \in BOOLEAN
  BY CanonicalIs
<1>2. Inbox(e) = <<e.mailbox, e.domain, kept(e)>>
  BY DEF Inbox
<1> DEFINE c == Canonical(f)
<1>3. c.mailbox = f.mailbox /\ c.domain = f.domain /\ c.dots = kept(f)
  <2> HIDE DEF kept
  <2>1. QED
    BY <1>1
<1>4. Inbox(c) = <<c.mailbox, c.domain, kept(c)>>
  BY DEF Inbox
<1>5. kept(c) = kept(f)
  BY <1>3, Zenon
<1> HIDE DEF kept, c
<1>6. <<e.mailbox, e.domain, kept(e)>> = <<f.mailbox, f.domain, kept(f)>>
  BY <1>2, <1>3, <1>4, <1>5 DEF c
<1>7. e.mailbox = f.mailbox /\ e.domain = f.domain /\ kept(e) = kept(f)
  BY <1>6
<1>8. QED
  BY <1>1, <1>7

\* An alias of an address has the inbox of its canonical form.
LEMMA InboxOfCanonical ==
  ASSUME NEW f \in Emails
  PROVE  Inbox(Canonical(f)) = Inbox(f)
<1> DEFINE kept(x) == x.dots /\ x.domain \notin DotInsensitive
           c == Canonical(f)
<1>1. c = [mailbox |-> f.mailbox, dots |-> kept(f), tag |-> 0, domain |-> f.domain]
  BY CanonicalIs
<1>3. c.mailbox = f.mailbox /\ c.domain = f.domain /\ c.dots = kept(f)
  <2> HIDE DEF kept, c
  <2>1. QED
    BY <1>1
<1>5. kept(c) = kept(f)
  <2> HIDE DEF c
  <2>1. QED
    BY <1>3, Zenon
<1>6. Inbox(c) = <<c.mailbox, c.domain, kept(c)>> /\ Inbox(f) = <<f.mailbox, f.domain, kept(f)>>
  BY DEF Inbox
<1> HIDE DEF kept, c
<1>7. Inbox(c) = Inbox(f)
  BY <1>3, <1>5, <1>6
<1>8. QED
  BY <1>7 DEF c

\* What was canonical is stored as it is.
LEMMA CanonicalTwice ==
  ASSUME NEW f \in Emails
  PROVE  Canonical(Canonical(f)) = Canonical(f)
<1> DEFINE kept(x) == x.dots /\ x.domain \notin DotInsensitive
           c == Canonical(f)
<1>1. c = [mailbox |-> f.mailbox, dots |-> kept(f), tag |-> 0, domain |-> f.domain]
  BY CanonicalIs
<1>2. c.mailbox = f.mailbox /\ c.domain = f.domain /\ c.dots = kept(f)
  <2> HIDE DEF kept, c
  <2>1. QED
    BY <1>1
<1>3. kept(c) = kept(f)
  <2> HIDE DEF c
  <2>1. QED
    BY <1>2, Zenon
<1> DEFINE untagged == [c EXCEPT !.tag = 0]
           k == kept(f)
<1>4. Canonical(c) = [untagged EXCEPT !.dots = untagged.dots /\ c.domain \notin DotInsensitive]
  BY DEF Canonical
<1> HIDE DEF kept, c, k
<1>5. untagged = [mailbox |-> f.mailbox, dots |-> k, tag |-> 0, domain |-> f.domain]
  BY <1>1 DEF k
<1> HIDE DEF untagged
<1>6. untagged.dots = c.dots
  BY <1>1, <1>5 DEF k
<1>7. (untagged.dots /\ c.domain \notin DotInsensitive) = k
  BY <1>3, <1>6 DEF kept, k
<1>8. Canonical(c) = [untagged EXCEPT !.dots = k]
  BY <1>4, <1>7
<1>9. Canonical(c) = c
  BY <1>1, <1>5, <1>8 DEF k
<1>10. QED
  BY <1>9 DEF c

LEMMA NormaliseTwice ==
  ASSUME NEW ip \in Clients
  PROVE  NormaliseIp(NormaliseIp(ip)) = NormaliseIp(ip)
<1>1. PICK f, n : ip = [form |-> f, n |-> n]
  BY ListsAssumption DEF Address
<1>2. CASE f = "dotted"
  <2>1. NormaliseIp(ip) = [form |-> "v4", n |-> n]
    BY <1>1, <1>2 DEF NormaliseIp
  <2>2. QED
    BY <2>1 DEF NormaliseIp
<1>3. CASE f # "dotted"
  BY <1>1, <1>3 DEF NormaliseIp
<1>4. QED
  BY <1>2, <1>3

-----------------------------------------------------------------------------
(* One request of its own.                                                 *)

Turns(r, place, todo, undone) ==
    rejection' = [rejection EXCEPT ![r] = [at |-> place, todo |-> todo, undone |-> undone]]

\* No row is lost in this step.
RowsStay == \A entry : Known(entry) => Known(entry)'

LEMMA RowsThatGrow ==
  ASSUME rows \subseteq rows'
  PROVE  RowsStay
BY DEF RowsStay, Known, Values

LEMMA OneRequest ==
  ASSUME ListedInv, RowsStay, RowsInv',
         NEW r \in Rejections, NEW place, NEW todo, NEW undone,
         Turns(r, place, todo, undone),
         todo \in Seq(ToList(r)),
         place \in {"selecting", "inserting"} => todo # <<>>,
         place = "done" => todo = <<>>,
         place # "idle" /\ ~undone =>
            \A entry \in Stored(r) : Known(entry)' \/ \E i \in DOMAIN todo : todo[i] = entry
  PROVE  ListedInv'
<1> DEFINE q == [at |-> place, todo |-> todo, undone |-> undone]
<1>1. /\ rejection' = [b \in Rejections |-> rejection'[b]]
      /\ rejection'[r] = q
      /\ \A b \in Rejections : b # r => rejection'[b] = rejection[b]
  BY DEF ListedInv, Turns
<1>2. /\ q.at = place /\ q.todo = todo /\ q.undone = undone
      /\ q = [at |-> q.at, todo |-> q.todo, undone |-> q.undone]
  OBVIOUS
<1> HIDE DEF q
<1>3. ASSUME NEW b \in Rejections
      PROVE  /\ rejection'[b] = [at |-> rejection'[b].at, todo |-> rejection'[b].todo,
                                 undone |-> rejection'[b].undone]
             /\ rejection'[b].todo \in Seq(ToList(b))
             /\ rejection'[b].at \in {"selecting", "inserting"} => rejection'[b].todo # <<>>
             /\ rejection'[b].at = "done" => rejection'[b].todo = <<>>
             /\ rejection'[b].at # "idle" /\ ~rejection'[b].undone =>
                   \A entry \in Stored(b) :
                      \/ Known(entry)'
                      \/ \E i \in DOMAIN rejection'[b].todo : rejection'[b].todo[i] = entry
  <2>1. CASE b = r
    BY <1>1, <1>2, <2>1
  <2>2. CASE b # r
    <3>1. rejection'[b] = rejection[b]
      BY <1>1, <2>2
    <3>2. QED
      BY <3>1 DEF ListedInv, RequestInv, RowsStay
  <2>3. QED
    BY <2>1, <2>2
<1>4. RequestInv'
  BY <1>3 DEF RequestInv
<1>5. QED
  BY <1>1, <1>4 DEF ListedInv

LEMMA GotoIs ==
  ASSUME ListedInv, NEW r \in Rejections, NEW place, Goto(r, place)
  PROVE  Turns(r, place, rejection[r].todo, rejection[r].undone)
<1>1. PICK p, t, u : rejection[r] = [at |-> p, todo |-> t, undone |-> u]
  BY DEF ListedInv, RequestInv
<1>2. [rejection[r] EXCEPT !.at = place] = [at |-> place, todo |-> t, undone |-> u]
  BY <1>1
<1>3. rejection[r].todo = t /\ rejection[r].undone = u
  BY <1>1
<1>4. QED
  BY <1>2, <1>3 DEF Goto, Turns

LEMMA TurnedBoth ==
  ASSUME ListedInv, NEW r \in Rejections, NEW place, NEW todo,
         \/ rejection' = [rejection EXCEPT ![r].todo = todo, ![r].at = place]
         \/ rejection' = [rejection EXCEPT ![r].at = place, ![r].todo = todo]
  PROVE  Turns(r, place, todo, rejection[r].undone)
<1>1. PICK p, t, u : rejection[r] = [at |-> p, todo |-> t, undone |-> u]
  BY DEF ListedInv, RequestInv
<1>2. rejection[r].undone = u
  BY <1>1
<1>3. CASE rejection' = [rejection EXCEPT ![r].todo = todo, ![r].at = place]
  <2> DEFINE moved == [rejection EXCEPT ![r].todo = todo]
  <2>1. rejection' = [moved EXCEPT ![r].at = place]
    BY <1>3
  <2>2. [rejection[r] EXCEPT !.todo = todo] = [at |-> p, todo |-> todo, undone |-> u]
    BY <1>1
  <2>3. moved = [rejection EXCEPT ![r] = [at |-> p, todo |-> todo, undone |-> u]]
    BY <2>2
  <2> HIDE DEF moved
  <2>4. moved[r] = [at |-> p, todo |-> todo, undone |-> u]
    BY <2>3 DEF ListedInv
  <2>5. [moved[r] EXCEPT !.at = place] = [at |-> place, todo |-> todo, undone |-> u]
    BY <2>4
  <2>6. QED
    BY <1>2, <2>1, <2>3, <2>5 DEF Turns
<1>4. CASE rejection' = [rejection EXCEPT ![r].at = place, ![r].todo = todo]
  <2> DEFINE moved == [rejection EXCEPT ![r].at = place]
  <2>1. rejection' = [moved EXCEPT ![r].todo = todo]
    BY <1>4
  <2>2. [rejection[r] EXCEPT !.at = place] = [at |-> place, todo |-> t, undone |-> u]
    BY <1>1
  <2>3. moved = [rejection EXCEPT ![r] = [at |-> place, todo |-> t, undone |-> u]]
    BY <2>2
  <2> HIDE DEF moved
  <2>4. moved[r] = [at |-> place, todo |-> t, undone |-> u]
    BY <2>3 DEF ListedInv
  <2>5. [moved[r] EXCEPT !.todo = todo] = [at |-> place, todo |-> todo, undone |-> u]
    BY <2>4
  <2>6. QED
    BY <1>2, <2>1, <2>3, <2>5 DEF Turns
<1>5. QED
  BY <1>3, <1>4

-----------------------------------------------------------------------------
(* The statements.                                                         *)

LEMMA InsertIs ==
  ASSUME NEW list, NEW type, NEW value, Insert(list, type, value)
  PROVE  \E n : rows' = rows \cup {[id |-> n, list |-> list, type |-> type,
                                    value |-> StoredAs(type, value), source |-> "manual"]}
<1> DEFINE new(n) == [id |-> n, list |-> list, type |-> type, value |-> StoredAs(type, value),
                      source |-> "manual"]
           free == CHOOSE n \in 1..MaxRows : new(n) \notin rows
<1>1. rows' = rows \cup {new(free)}
  BY DEF Insert
<1> HIDE DEF free
<1>2. QED
  BY <1>1

LEMMA InsertKeepsRows ==
  ASSUME RowsInv, NEW list, NEW type, NEW value, Insert(list, type, value),
         type = "email" => \E e \in Emails : StoredAs(type, value) = Canonical(e)
  PROVE  /\ RowsInv' /\ RowsStay
         /\ list = "blocklist" =>
               \A entry : entry.type = type /\ entry.value = StoredAs(type, value) => Known(entry)'
<1>1. PICK n : rows' = rows \cup {[id |-> n, list |-> list, type |-> type,
                                   value |-> StoredAs(type, value), source |-> "manual"]}
  BY InsertIs
<1> DEFINE v == StoredAs(type, value)
           new == [id |-> n, list |-> list, type |-> type, value |-> v, source |-> "manual"]
<1>2. rows' = rows \cup {new}
  BY <1>1
<1>3. new.list = list /\ new.type = type /\ new.value = v
  OBVIOUS
<1>4. type = "email" => \E e \in Emails : v = Canonical(e)
  OBVIOUS
<1> HIDE DEF v, new
<1>5. RowsInv'
  BY <1>2, <1>3, <1>4 DEF RowsInv
<1>6. RowsStay
  BY <1>2, RowsThatGrow
<1>7. ASSUME list = "blocklist", NEW entry, entry.type = type, entry.value = v
      PROVE  Known(entry)'
  BY <1>2, <1>3, <1>7 DEF Known, Values
<1>8. QED
  BY <1>5, <1>6, <1>7 DEF v

LEMMA AddKeeps ==
  ASSUME ListedInv, NEW list, NEW type, NEW value, AddEntry(list, type, value),
         type = "email" => value \in Emails
  PROVE  ListedInv'
<1>1. Insert(list, type, value) /\ rejection' = rejection
  BY DEF AddEntry
<1>2. type = "email" => \E e \in Emails : StoredAs(type, value) = Canonical(e)
  BY DEF StoredAs
<1>3. RowsInv' /\ RowsStay
  BY <1>1, <1>2, InsertKeepsRows DEF ListedInv
<1>4. RequestInv'
  BY <1>1, <1>3 DEF ListedInv, RequestInv, RowsStay
<1>5. QED
  BY <1>1, <1>3, <1>4 DEF ListedInv

(* A row removed is lost on every request under way.                       *)
LEMMA RemoveKeeps ==
  ASSUME ListedInv, NEW list, RemoveEntry(list)
  PROVE  ListedInv'
<1>1. rows' \subseteq rows
  BY DEF RemoveEntry
<1>2. RowsInv'
  BY <1>1 DEF ListedInv, RowsInv
<1>3. ASSUME NEW r \in Rejections
      PROVE  \E p, t, u, v : /\ rejection[r] = [at |-> p, todo |-> t, undone |-> u]
                             /\ rejection'[r] = [at |-> p, todo |-> t, undone |-> v]
                             /\ p # "idle" => v = TRUE
  <2>1. PICK p, t, u : rejection[r] = [at |-> p, todo |-> t, undone |-> u]
    BY DEF ListedInv, RequestInv
  <2>2. rejection[r].at = p
    BY <2>1
  <2> DEFINE v == rejection[r].undone \/ rejection[r].at # "idle"
  <2>3. rejection'[r] = [rejection[r] EXCEPT !.undone = v]
    BY DEF RemoveEntry
  <2>4. p # "idle" => v = TRUE
    BY <2>2
  <2> HIDE DEF v
  <2>5. rejection'[r] = [at |-> p, todo |-> t, undone |-> v]
    BY <2>1, <2>3
  <2>6. QED
    BY <2>1, <2>4, <2>5
<1>4. ASSUME NEW r \in Rejections
      PROVE  /\ rejection'[r] = [at |-> rejection'[r].at, todo |-> rejection'[r].todo,
                                 undone |-> rejection'[r].undone]
             /\ rejection'[r].at = rejection[r].at /\ rejection'[r].todo = rejection[r].todo
             /\ rejection'[r].at # "idle" => rejection'[r].undone
  <2>1. PICK p, t, u, v : /\ rejection[r] = [at |-> p, todo |-> t, undone |-> u]
                          /\ rejection'[r] = [at |-> p, todo |-> t, undone |-> v]
                          /\ p # "idle" => v = TRUE
    BY <1>3
  <2>2. rejection'[r].at = p /\ rejection'[r].todo = t /\ rejection'[r].undone = v
    BY <2>1
  <2>3. rejection[r].at = p /\ rejection[r].todo = t
    BY <2>1
  <2>4. rejection'[r].at # "idle" => rejection'[r].undone
    BY <2>1, <2>2
  <2>5. QED
    BY <2>1, <2>2, <2>3, <2>4
<1>5. RequestInv'
  BY <1>4, ZenonT(60) DEF ListedInv, RequestInv
<1>6. rejection' = [r \in Rejections |-> rejection'[r]]
  BY DEF RemoveEntry
<1>7. QED
  BY <1>2, <1>5, <1>6 DEF ListedInv

(* What a request is to list is the address as written, the canonical form *)
(* and the network address, each of which there is a statement for.        *)
LEMMA IdentityIs ==
  ASSUME NEW r \in Rejections
  PROVE  /\ Identity(r) \in Seq(ToList(r)) /\ Identity(r) # <<>>
         /\ \A entry \in Stored(r) : \E i \in DOMAIN Identity(r) : Identity(r)[i] = entry
<1> DEFINE e == EmailOf[r]
           x == [type |-> "email", value |-> e]
           y == [type |-> "email", value |-> Canonical(e)]
           z == [type |-> "ip", value |-> NormaliseIp(ClientOf[r])]
<1>1. x \in ToList(r) /\ y \in ToList(r) /\ z \in ToList(r)
  BY DEF ToList, Stored
<1>2. Stored(r) = {y, z}
  BY DEF Stored
<1>4. \/ x = y /\ Identity(r) = <<x, z>>
      \/ Identity(r) = <<x, y, z>>
  BY DEF Identity
<1> HIDE DEF e, x, y, z
<1>5. CASE x = y /\ Identity(r) = <<x, z>>
  <2> DEFINE s == <<x, z>>
  <2>1. s \in Seq(ToList(r)) /\ s # <<>> /\ 1 \in DOMAIN s /\ 2 \in DOMAIN s
    BY <1>1
  <2>2. s[1] = y /\ s[2] = z
    BY <1>5
  <2> HIDE DEF s
  <2>3. QED
    BY <1>2, <1>5, <2>1, <2>2 DEF s
<1>6. CASE Identity(r) = <<x, y, z>>
  <2> DEFINE s == <<x, y, z>>
  <2>1. s \in Seq(ToList(r)) /\ s # <<>> /\ 2 \in DOMAIN s /\ 3 \in DOMAIN s
    BY <1>1
  <2>2. s[2] = y /\ s[3] = z
    OBVIOUS
  <2> HIDE DEF s
  <2>3. QED
    BY <1>2, <1>6, <2>1, <2>2 DEF s
<1>7. QED
  BY <1>4, <1>5, <1>6

LEMMA StartKeeps ==
  ASSUME ListedInv, NEW r \in Rejections, StartListing(r)
  PROVE  ListedInv'
<1>1. rows' = rows /\ rejection' = [rejection EXCEPT ![r].at = "selecting", ![r].todo = Identity(r)]
  BY DEF StartListing
<1>2. Turns(r, "selecting", Identity(r), rejection[r].undone)
  BY <1>1, TurnedBoth
<1>3. RowsInv' /\ RowsStay
  BY <1>1, RowsThatGrow DEF ListedInv, RowsInv
<1>4. QED
  BY <1>2, <1>3, IdentityIs, OneRequest

(* On to the next value: the one done with is listed.                      *)
LEMMA OnwardKeeps ==
  ASSUME ListedInv, NEW r \in Rejections, rejection[r].at \in {"selecting", "inserting"},
         OnToNext(r), RowsStay, RowsInv',
         NEW head, head = Head(rejection[r].todo),
         head \in Stored(r) => Known(head)'
  PROVE  ListedInv'
<1> DEFINE todo == rejection[r].todo
           rest == Tail(todo)
           place == IF rest = <<>> THEN "done" ELSE "selecting"
           undone == rejection[r].undone
           Entries == ToList(r)
<1>1. todo \in Seq(Entries) /\ todo # <<>>
  BY DEF ListedInv, RequestInv
<1>2. ~undone => \A entry \in Stored(r) : Known(entry) \/ \E i \in DOMAIN todo : todo[i] = entry
  BY DEF ListedInv, RequestInv
<1>3. Turns(r, place, rest, undone)
  <2>1. rejection' = [rejection EXCEPT ![r].todo = rest, ![r].at = place]
    BY DEF OnToNext
  <2> HIDE DEF place, rest
  <2>2. QED
    BY <2>1, TurnedBoth
<1>4. /\ rest \in Seq(Entries)
      /\ place \in {"selecting", "inserting"} => rest # <<>>
      /\ place = "done" => rest = <<>>
  <2>1. rest \in Seq(Entries)
    <3> HIDE DEF todo, Entries
    <3>1. QED
      BY <1>1
  <2>2. QED
    BY <2>1
<1>5. \A i \in DOMAIN todo : todo[i] = head \/ \E j \in DOMAIN rest : rest[j] = todo[i]
  <2>0. head = Head(todo)
    OBVIOUS
  <2> HIDE DEF todo, Entries
  <2>1. Len(todo) \in Nat /\ Len(todo) >= 1 /\ DOMAIN todo = 1..Len(todo) /\ head = todo[1]
    BY <1>1, <2>0
  <2>2. DOMAIN rest = 1..(Len(todo) - 1) /\ \A j \in DOMAIN rest : rest[j] = todo[j + 1]
    BY <1>1, <2>1
  <2>3. ASSUME NEW i \in DOMAIN todo, i # 1
        PROVE  \E j \in DOMAIN rest : rest[j] = todo[i]
    <3>1. i - 1 \in DOMAIN rest /\ (i - 1) + 1 = i
      BY <2>1, <2>2, <2>3
    <3> HIDE DEF rest
    <3>2. QED
      BY <2>2, <3>1
  <2>4. QED
    BY <2>1, <2>3
<1>6. ASSUME ~undone, NEW entry \in Stored(r)
      PROVE  Known(entry)' \/ \E j \in DOMAIN rest : rest[j] = entry
  <2>1. CASE Known(entry)
    BY <2>1 DEF RowsStay
  <2>2. CASE \E i \in DOMAIN todo : todo[i] = entry
    <3>1. PICK i \in DOMAIN todo : todo[i] = entry
      BY <2>2
    <3>2. entry = head \/ \E j \in DOMAIN rest : rest[j] = entry
      BY <1>5, <3>1
    <3>3. QED
      BY <3>2
  <2>3. QED
    BY <1>2, <1>6, <2>1, <2>2
<1> HIDE DEF todo, rest, place, undone, Entries
<1>7. rest \in Seq(ToList(r))
  BY <1>4 DEF Entries
<1>8. QED
  BY <1>3, <1>4, <1>6, <1>7, OneRequest

LEMMA SelectKeeps ==
  ASSUME ListedInv, NEW r \in Rejections, SelectEntry(r)
  PROVE  ListedInv'
<1> DEFINE todo == rejection[r].todo
           head == Head(todo)
<1>1. rows' = rows /\ rejection[r].at = "selecting"
  BY DEF SelectEntry
<1>2. RowsInv' /\ RowsStay
  BY <1>1, RowsThatGrow DEF ListedInv, RowsInv
<1>3. CASE Known(head) /\ OnToNext(r)
  <2>1. PICK h : h = head /\ Known(h)
    BY <1>3
  <2>2. Known(h)'
    BY <1>2, <2>1 DEF RowsStay
  <2>3. QED
    BY <1>1, <1>2, <1>3, <2>1, <2>2, OnwardKeeps
<1>4. CASE Goto(r, "inserting")
  <2>1. Turns(r, "inserting", todo, rejection[r].undone)
    BY <1>4, GotoIs
  <2>2. todo \in Seq(ToList(r)) /\ todo # <<>>
    BY <1>1 DEF ListedInv, RequestInv
  <2>3. ~rejection[r].undone =>
           \A entry \in Stored(r) : Known(entry)' \/ \E i \in DOMAIN todo : todo[i] = entry
    BY <1>1, <1>2 DEF ListedInv, RequestInv, RowsStay
  <2> HIDE DEF todo
  <2>4. QED
    BY <1>2, <2>1, <2>2, <2>3, OneRequest
<1>5. QED
  BY <1>3, <1>4 DEF SelectEntry

\* The stored form of a value is one of the identity's.
LEMMA StoredForms ==
  ASSUME NEW r \in Rejections, NEW head \in ToList(r)
  PROVE  /\ head.type = "email" => \E e \in Emails : StoredAs(head.type, head.value) = Canonical(e)
         /\ head \in Stored(r) => StoredAs(head.type, head.value) = head.value
<1>1. EmailOf[r] \in Emails /\ ClientOf[r] \in Clients
  BY ListsAssumption
<1> DEFINE e == EmailOf[r]
           c == Canonical(e)
           n == NormaliseIp(ClientOf[r])
<1>2. Canonical(c) = c /\ NormaliseIp(n) = n
  BY <1>1, CanonicalTwice, NormaliseTwice
<1>3. Canonical(e) = c /\ e \in Emails
  BY <1>1
<1>4. /\ ToList(r) = {[type |-> "email", value |-> c], [type |-> "ip", value |-> n],
                      [type |-> "email", value |-> e]}
      /\ Stored(r) = {[type |-> "email", value |-> c], [type |-> "ip", value |-> n]}
  BY DEF ToList, Stored
<1> HIDE DEF c, n, e
<1>5. CASE head = [type |-> "email", value |-> c]
  <2>1. head.type = "email" /\ head.value = c
    BY <1>5
  <2>2. StoredAs(head.type, head.value) = c
    BY <1>2, <2>1 DEF StoredAs
  <2>3. QED
    BY <1>3, <2>1, <2>2
<1>6. CASE head = [type |-> "ip", value |-> n]
  <2>1. head.type = "ip" /\ head.value = n
    BY <1>6
  <2>2. StoredAs(head.type, head.value) = n
    BY <1>2, <2>1 DEF StoredAs
  <2>3. QED
    BY <2>1, <2>2
<1>7. CASE head = [type |-> "email", value |-> e]
  <2>1. head.type = "email" /\ head.value = e
    BY <1>7
  <2>2. StoredAs(head.type, head.value) = c
    BY <1>3, <2>1 DEF StoredAs
  <2>3. head \in Stored(r) => e = c
    BY <1>4, <2>1
  <2>4. QED
    BY <1>3, <2>1, <2>2, <2>3
<1>8. QED
  BY <1>4, <1>5, <1>6, <1>7

LEMMA InsertKeeps ==
  ASSUME ListedInv, NEW r \in Rejections, InsertEntry(r)
  PROVE  ListedInv'
<1> DEFINE todo == rejection[r].todo
           head == Head(todo)
<1>1. rejection[r].at = "inserting"
  BY DEF InsertEntry
<1>2. todo \in Seq(ToList(r)) /\ todo # <<>>
  BY <1>1 DEF ListedInv, RequestInv
<1>3. head \in ToList(r)
  <2> DEFINE Entries == ToList(r)
  <2>1. todo \in Seq(Entries) /\ todo # <<>>
    BY <1>2
  <2> HIDE DEF todo, Entries
  <2>2. head \in Entries
    BY <2>1
  <2>3. QED
    BY <2>2 DEF Entries
<1>4. CASE Insert("blocklist", head.type, head.value) /\ OnToNext(r)
  <2> PICK h : h = head
    OBVIOUS
  <2>1. /\ Insert("blocklist", h.type, h.value)
        /\ h.type = "email" => \E e \in Emails : StoredAs(h.type, h.value) = Canonical(e)
        /\ h \in Stored(r) => StoredAs(h.type, h.value) = h.value
    BY <1>3, <1>4, StoredForms
  <2>2. RowsInv' /\ RowsStay
    BY <2>1, InsertKeepsRows DEF ListedInv
  <2>3. h \in Stored(r) => Known(h)'
    BY <2>1, InsertKeepsRows DEF ListedInv
  <2>4. QED
    BY <1>1, <1>4, <2>2, <2>3, OnwardKeeps
<1>5. CASE rows' = rows /\ Goto(r, "failed")
  <2>1. Turns(r, "failed", todo, rejection[r].undone)
    BY <1>5, GotoIs
  <2>2. RowsInv' /\ RowsStay
    BY <1>5, RowsThatGrow DEF ListedInv, RowsInv
  <2>3. ~rejection[r].undone =>
           \A entry \in Stored(r) : Known(entry)' \/ \E i \in DOMAIN todo : todo[i] = entry
    BY <1>1, <2>2 DEF ListedInv, RequestInv, RowsStay
  <2> HIDE DEF todo
  <2>4. QED
    BY <1>2, <2>1, <2>2, <2>3, OneRequest
<1>6. QED
  BY <1>4, <1>5 DEF InsertEntry

LEMMA InitListed == Init => ListedInv
<1> SUFFICES ASSUME Init PROVE ListedInv
  OBVIOUS
<1>1. rows \in {{}, FeedRows} /\ rejection = [r \in Rejections |-> Idle]
  BY DEF Init, ListsInit
<1>2. RowsInv
  BY <1>1, ListsAssumption DEF RowsInv
<1>3. ASSUME NEW r \in Rejections
      PROVE  /\ rejection[r] = [at |-> "idle", todo |-> <<>>, undone |-> FALSE]
             /\ <<>> \in Seq(ToList(r))
             /\ rejection[r].at = "idle" /\ rejection[r].todo = <<>> /\ rejection[r].undone = FALSE
  BY <1>1 DEF Idle
<1>4. RequestInv
  BY <1>3 DEF RequestInv
<1>5. QED
  BY <1>1, <1>2, <1>4 DEF ListedInv

LEMMA ListedStep ==
  ASSUME ListedInv, NEW emails, NEW clients, NEW cidrs, emails \subseteq Emails,
         ListsNext(emails, clients, cidrs)
  PROVE  ListedInv'
<1>1. ASSUME NEW list, NEW e \in emails, AddEntry(list, "email", e)
      PROVE  ListedInv'
  BY <1>1, AddKeeps
<1>2. ASSUME NEW list, NEW type, NEW value, type # "email", AddEntry(list, type, value)
      PROVE  ListedInv'
  BY <1>2, AddKeeps
<1>3. ASSUME NEW list, RemoveEntry(list)
      PROVE  ListedInv'
  BY <1>3, RemoveKeeps
<1>4. ASSUME NEW list \in Lists,
             \/ \E e \in emails : AddEntry(list, "email", e) \/ AddEntry(list, "email_domain", e.domain)
             \/ \E ip \in clients : AddEntry(list, "ip", ip)
             \/ \E cidr \in cidrs : AddEntry(list, "ip_range", cidr)
             \/ RemoveEntry(list)
      PROVE  ListedInv'
  <2>1. "email_domain" # "email" /\ "ip" # "email" /\ "ip_range" # "email"
    OBVIOUS
  <2>2. QED
    BY <1>1, <1>2, <1>3, <1>4, <2>1
<1>5. ASSUME NEW r \in Rejections, StartListing(r) \/ SelectEntry(r) \/ InsertEntry(r)
      PROVE  ListedInv'
  BY <1>5, StartKeeps, SelectKeeps, InsertKeeps
<1>6. QED
  BY <1>4, <1>5 DEF ListsNext

LEMMA ListedAlways == Spec => []ListedInv
<1>1. ListedInv /\ [Next]_vars => ListedInv'
  <2>1. ASSUME ListedInv, UNCHANGED listVars
        PROVE  ListedInv'
    BY <2>1 DEF ListedInv, RowsInv, RequestInv, Known, Values, listVars
  <2>2. Typed \subseteq Emails /\ {} \subseteq Emails
    BY AssessmentAssumption
  <2>3. QED
    BY <2>1, <2>2, ListedStep, ListsOrNothing
<1>2. QED
  BY <1>1, InitListed, PTL DEF Spec

(* A row that an administrator adds, or a rejection, stops every way to    *)
(* write the address: normalizeEmail (net-util.ts:137) gives all aliases   *)
(* one form, and everything that writes stores it.                         *)
THEOREM AliasesAreCaught == Spec => []AliasesShareFate
<1>1. ASSUME ListedInv
      PROVE  AliasesShareFate
  <2>1. ASSUME NEW row \in rows, row.list = "blocklist", row.type = "email", row.source = "manual",
               NEW e \in Emails, Inbox(e) = Inbox(row.value)
        PROVE  EmailRows(e) # {}
    <3>1. PICK f \in Emails : row.value = Canonical(f)
      BY <1>1, <2>1 DEF ListedInv, RowsInv
    <3>2. row.value = Canonical(e)
      BY <2>1, <3>1, OneFormForAll
    <3>3. row \in EmailRows(e)
      BY <2>1, <3>2 DEF EmailRows
    <3>4. QED
      BY <3>3
  <2>2. QED
    BY <2>1 DEF AliasesShareFate
<1>2. QED
  BY <1>1, ListedAlways, PTL

(* When a request to reject a case and list its identity has come to its   *)
(* end, and no row was removed meanwhile, the lists know every alias of    *)
(* the address and every form of the network address, whoever else was     *)
(* listing the same and whichever query failed                             *)
(* (blocklistCaseIdentity, fraud-prevention.service.ts:1848).              *)
RejectedAreListed ==
    \A r \in Rejections : rejection[r].at = "done" /\ ~rejection[r].undone =>
        /\ \A e \in Emails : Inbox(e) = Inbox(EmailOf[r]) => EmailRows(e) # {}
        /\ \A ip \in Clients : NormaliseIp(ip) = NormaliseIp(ClientOf[r]) =>
              \A fetched \in Fetched("blocklist", ip) : IpListed(ip, fetched) = "exact"

(* This is so of any number of requests that list any identities.          *)
THEOREM RejectionsAreListed == Spec => []RejectedAreListed
<1>1. ASSUME ListedInv
      PROVE  RejectedAreListed
  <2> SUFFICES ASSUME NEW r \in Rejections, rejection[r].at = "done", ~rejection[r].undone
               PROVE  /\ \A e \in Emails : Inbox(e) = Inbox(EmailOf[r]) => EmailRows(e) # {}
                      /\ \A ip \in Clients :
                            NormaliseIp(ip) = NormaliseIp(ClientOf[r]) =>
                            \A fetched \in Fetched("blocklist", ip) : IpListed(ip, fetched) = "exact"
    BY DEF RejectedAreListed
  <2>1. EmailOf[r] \in Emails
    BY ListsAssumption
  <2>2. \A entry \in Stored(r) : Known(entry)
    <3>1. rejection[r].todo = <<>> /\ DOMAIN rejection[r].todo = {}
      BY <1>1 DEF ListedInv, RequestInv
    <3>2. QED
      BY <1>1, <3>1 DEF ListedInv, RequestInv
  <2>3. /\ Canonical(EmailOf[r]) \in Values("blocklist", "email")
        /\ NormaliseIp(ClientOf[r]) \in Values("blocklist", "ip")
    BY <2>2 DEF Stored, Known
  <2>4. ASSUME NEW e \in Emails, Inbox(e) = Inbox(EmailOf[r])
        PROVE  EmailRows(e) # {}
    <3>1. Canonical(e) = Canonical(EmailOf[r])
      BY <2>1, <2>4, InboxOfCanonical, OneFormForAll
    <3>2. PICK row \in rows : /\ row.list = "blocklist" /\ row.type = "email"
                              /\ row.value = Canonical(e)
      BY <2>3, <3>1 DEF Values
    <3>3. row \in EmailRows(e)
      BY <3>2 DEF EmailRows
    <3>4. QED
      BY <3>3
  <2>5. ASSUME NEW ip \in Clients, NormaliseIp(ip) = NormaliseIp(ClientOf[r])
        PROVE  \A fetched \in Fetched("blocklist", ip) : IpListed(ip, fetched) = "exact"
    BY <2>3, <2>5 DEF IpListed
  <2>6. QED
    BY <2>4, <2>5
<1>2. QED
  BY <1>1, ListedAlways, PTL

-----------------------------------------------------------------------------
(* The tables stay finite.                                                 *)
LEMMA InsertAddsOne ==
  ASSUME NEW list, NEW type, NEW value, Insert(list, type, value)
  PROVE  \E row : rows' = rows \cup {row}
BY DEF Insert

LEMMA FiniteRows == Spec => []IsFiniteSet(rows)
<1>1. Init => IsFiniteSet(rows)
  BY ListsAssumption, FS_EmptySet DEF Init, ListsInit
<1>2. ASSUME IsFiniteSet(rows), [Next]_vars PROVE IsFiniteSet(rows)'
  <2>1. ASSUME NEW row, rows' = rows \cup {row} PROVE IsFiniteSet(rows')
    BY <1>2, <2>1, FS_AddElement
  <2>2. ASSUME NEW emails, NEW clients, NEW cidrs, ListsNext(emails, clients, cidrs)
        PROVE  IsFiniteSet(rows')
    <3>1. CASE \E list \in Lists : \E e \in emails :
                  AddEntry(list, "email", e) \/ AddEntry(list, "email_domain", e.domain)
      BY <2>1, <3>1, InsertAddsOne DEF AddEntry
    <3>2. CASE \E list \in Lists : \E ip \in clients : AddEntry(list, "ip", ip)
      BY <2>1, <3>2, InsertAddsOne DEF AddEntry
    <3>3. CASE \E list \in Lists : \E cidr \in cidrs : AddEntry(list, "ip_range", cidr)
      BY <2>1, <3>3, InsertAddsOne DEF AddEntry
    <3>4. CASE \E list \in Lists : RemoveEntry(list)
      <4>1. rows' \subseteq rows
        BY <3>4 DEF RemoveEntry
      <4>2. QED
        BY <1>2, <4>1, FS_Subset
    <3>5. CASE \E r \in Rejections : StartListing(r) \/ SelectEntry(r)
      BY <1>2, <3>5 DEF StartListing, SelectEntry
    <3>6. CASE \E r \in Rejections : InsertEntry(r)
      <4>1. rows' = rows \/ \E row : rows' = rows \cup {row}
        BY <3>6, InsertAddsOne DEF InsertEntry
      <4>2. QED
        BY <1>2, <2>1, <4>1
    <3>7. QED
      BY <2>2, <3>1, <3>2, <3>3, <3>4, <3>5, <3>6 DEF ListsNext
  <2>3. QED
    BY <1>2, <2>2, ListsOrNothing DEF listVars
<1>3. QED
  BY <1>1, <1>2, PTL DEF Spec

-----------------------------------------------------------------------------
(* Powers of two, from their definition.                                   *)

IsPowers(n, g) == g = [k \in 0..n |-> IF k = 0 THEN 1 ELSE 2 * g[k - 1]]
IsPower(f) == f = [k \in Nat |-> IF k = 0 THEN 1 ELSE 2 * f[k - 1]]

LEMMA PowersExist == ASSUME NEW n \in Nat PROVE \E g : IsPowers(n, g)
<1> DEFINE T == {k \in Nat : ~\E g : IsPowers(k, g)}
<1>1. ASSUME T # {} PROVE FALSE
  <2>1. PICK k \in T : \A m \in T : k <= m
    <3> HIDE DEF T
    <3>1. T \subseteq Nat
      BY DEF T
    <3>2. QED
      BY <1>1, <3>1, Smallest
  <2>2. k # 0
    <3>1. IsPowers(0, [j \in 0..0 |-> 1])
      BY DEF IsPowers
    <3>2. QED
      BY <3>1
  <2>3. PICK g : IsPowers(k - 1, g)
    BY <2>1, <2>2
  <2> DEFINE h == [j \in 0..k |-> IF j = k THEN 2 * g[k - 1] ELSE g[j]]
  <2>4. g[0] = 1 /\ \A j \in 1..(k - 1) : g[j] = 2 * g[j - 1]
    BY <2>2, <2>3 DEF IsPowers
  <2>5. \A j \in 0..k : h[j] = IF j = 0 THEN 1 ELSE 2 * h[j - 1]
    BY <2>2, <2>4
  <2>6. h = [j \in 0..k |-> IF j = 0 THEN 1 ELSE 2 * h[j - 1]]
    BY <2>5
  <2>7. IsPowers(k, h)
    BY <2>6 DEF IsPowers
  <2>8. QED
    BY <2>7
<1>2. QED
  BY <1>1

LEMMA PowersAgree ==
  ASSUME NEW m \in Nat, NEW n \in Nat, m <= n, NEW g, NEW h, IsPowers(m, g), IsPowers(n, h)
  PROVE  \A k \in 0..m : g[k] = h[k]
<1>1. /\ g[0] = 1 /\ \A j \in 1..m : g[j] = 2 * g[j - 1]
      /\ h[0] = 1 /\ \A j \in 1..n : h[j] = 2 * h[j - 1]
  BY DEF IsPowers
<1> DEFINE T == {k \in 0..m : g[k] # h[k]}
<1>2. ASSUME T # {} PROVE FALSE
  <2>1. PICK k \in T : \A j \in T : k <= j
    <3> HIDE DEF T
    <3>1. T \subseteq Nat
      BY DEF T
    <3>2. QED
      BY <1>2, <3>1, Smallest
  <2>2. k # 0 /\ k - 1 \in 0..m /\ k \in 1..m /\ k \in 1..n
    BY <1>1, <2>1
  <2>3. g[k - 1] = h[k - 1]
    BY <2>1, <2>2
  <2>4. QED
    BY <1>1, <2>1, <2>2, <2>3
<1>3. QED
  BY <1>2

LEMMA PowerExists == \E f : IsPower(f)
<1> DEFINE G == [n \in Nat |-> CHOOSE g : IsPowers(n, g)]
           f == [n \in Nat |-> G[n][n]]
<1>1. \A n \in Nat : IsPowers(n, G[n])
  BY PowersExist
<1> HIDE DEF G
<1>2. ASSUME NEW n \in Nat PROVE f[n] = IF n = 0 THEN 1 ELSE 2 * f[n - 1]
  <2>1. CASE n = 0
    <3> DEFINE g == G[0]
    <3>1. IsPowers(0, g)
      BY <1>1
    <3> HIDE DEF g
    <3>3. g[0] = 1
      BY <3>1 DEF IsPowers
    <3>2. QED
      BY <2>1, <3>3 DEF g
  <2>2. CASE n # 0
    <3>1. n - 1 \in Nat /\ n - 1 \in 0..(n - 1) /\ n \in 0..n
      BY <2>2
    <3>2. G[n][n] = 2 * G[n][n - 1]
      BY <1>1, <2>2, <3>1 DEF IsPowers
    <3>3. G[n - 1][n - 1] = G[n][n - 1]
      BY <1>1, <3>1, PowersAgree
    <3>4. QED
      BY <2>2, <3>1, <3>2, <3>3
  <2>3. QED
    BY <2>1, <2>2
<1>3. f = [n \in Nat |-> IF n = 0 THEN 1 ELSE 2 * f[n - 1]]
  BY <1>2
<1>4. IsPower(f)
  BY <1>3 DEF IsPower
<1>5. QED
  BY <1>4

LEMMA PowerIs == Power[0] = 1 /\ \A n \in Nat : Power[n + 1] = 2 * Power[n]
<1>1. Power = CHOOSE f : IsPower(f)
  BY DEF Power, IsPower
<1>2. IsPower(Power)
  BY <1>1, PowerExists
<1>3. QED
  BY <1>2 DEF IsPower

LEMMA PowerIsPositive == \A n \in Nat : Power[n] \in Nat /\ Power[n] >= 1
<1> DEFINE T == {n \in Nat : ~(Power[n] \in Nat /\ Power[n] >= 1)}
<1>1. ASSUME T # {} PROVE FALSE
  <2>1. PICK n \in T : \A j \in T : n <= j
    <3> HIDE DEF T
    <3>1. T \subseteq Nat
      BY DEF T
    <3>2. QED
      BY <1>1, <3>1, Smallest
  <2>2. n # 0 /\ n - 1 \in Nat
    BY <2>1, PowerIs
  <2>3. Power[n - 1] \in Nat /\ Power[n - 1] >= 1
    BY <2>1, <2>2
  <2>4. Power[n] = 2 * Power[n - 1]
    BY <2>2, PowerIs
  <2>5. QED
    BY <2>1, <2>3, <2>4
<1>2. QED
  BY <1>1

LEMMA PowerOfSum == \A a, b \in Nat : Power[a + b] = Power[a] * Power[b]
<1> SUFFICES ASSUME NEW a \in Nat PROVE \A b \in Nat : Power[a + b] = Power[a] * Power[b]
  OBVIOUS
<1> DEFINE T == {n \in Nat : Power[a + n] # Power[a] * Power[n]}
<1>1. ASSUME T # {} PROVE FALSE
  <2>1. PICK n \in T : \A j \in T : n <= j
    <3> HIDE DEF T
    <3>1. T \subseteq Nat
      BY DEF T
    <3>2. QED
      BY <1>1, <3>1, Smallest
  <2>2. n # 0 /\ n - 1 \in Nat
    <3>1. Power[a] \in Nat /\ Power[0] = 1 /\ a + 0 = a
      BY PowerIs, PowerIsPositive
    <3>2. Power[a + 0] = Power[a] * Power[0]
      BY <3>1
    <3>3. QED
      BY <2>1, <3>2
  <2>3. Power[a + (n - 1)] = Power[a] * Power[n - 1]
    BY <2>1, <2>2
  <2>4. Power[n] = 2 * Power[n - 1] /\ Power[a + n] = 2 * Power[a + (n - 1)]
    <3>1. (n - 1) + 1 = n /\ (a + (n - 1)) + 1 = a + n /\ a + (n - 1) \in Nat
      BY <2>2
    <3>2. QED
      BY <2>2, <3>1, PowerIs
  <2>5. Power[a] \in Nat /\ Power[n - 1] \in Nat
    BY <2>2, PowerIsPositive
  <2>6. Power[a] * (2 * Power[n - 1]) = 2 * (Power[a] * Power[n - 1])
    BY <2>5
  <2>7. QED
    BY <2>1, <2>3, <2>4, <2>6
<1>2. QED
  BY <1>1

-----------------------------------------------------------------------------
(* Addresses, and the ranges they are in.                                  *)

LEMMA WidthsAre ==
  /\ V4Bits \in Nat /\ V6Bits \in Nat /\ OctetBits \in Nat
  /\ V4Bits >= 1 /\ OctetBits >= 1 /\ OctetBits <= V4Bits /\ V4Bits < V6Bits
  /\ V6Bits - V4Bits \in Nat /\ V4Bits - OctetBits \in Nat
  /\ MappedHigh \in Nat /\ MappedHigh + 1 <= Power[V6Bits - V4Bits]
<1>1. V6Bits - V4Bits \in Nat
  BY WidthAssumption
<1>2. Power[V6Bits - V4Bits] \in Nat
  BY <1>1, PowerIsPositive
<1>3. QED
  BY <1>1, <1>2, WidthAssumption

LEMMA MappedIs ==
  ASSUME NEW n \in 0..(Power[V4Bits] - 1)
  PROVE  /\ n \in Nat /\ n < Power[V4Bits]
         /\ Mapped(n) \in Nat /\ Mapped(n) < Power[V6Bits]
<1> DEFINE P == Power[V4Bits]
           W == Power[V6Bits - V4Bits]
<1>1. P \in Nat /\ W \in Nat /\ P >= 1
  BY WidthsAre, PowerIsPositive
<1>2. Power[V6Bits] = W * P
  <2>1. (V6Bits - V4Bits) + V4Bits = V6Bits
    BY WidthsAre
  <2>2. Power[(V6Bits - V4Bits) + V4Bits] = W * P
    BY WidthsAre, PowerOfSum
  <2>3. QED
    BY <2>1, <2>2
<1>3. MappedHigh \in Nat /\ MappedHigh + 1 <= W
  BY WidthsAre
<1>4. n \in Nat /\ n < P
  BY <1>1
<1>5. Mapped(n) = MappedHigh * P + n
  BY DEF Mapped
<1> HIDE DEF P, W
<1>6. (MappedHigh + 1) * P <= W * P
  BY <1>1, <1>3
<1>7. (MappedHigh + 1) * P = MappedHigh * P + P /\ MappedHigh * P \in Nat /\ W * P \in Nat
  BY <1>1, <1>3
<1>8. Mapped(n) \in Nat /\ Mapped(n) < W * P
  BY <1>4, <1>5, <1>6, <1>7, <1>1
<1>9. QED
  BY <1>2, <1>4, <1>8 DEF P

\* What an address is, and what the helpers make of it.
LEMMA AddressIs ==
  ASSUME NEW ip \in Address
  PROVE  \/ /\ ip.form = "v4" /\ ip.n \in 0..(Power[V4Bits] - 1)
            /\ NormaliseIp(ip) = ip
         \/ /\ ip.form = "dotted" /\ ip.n \in 0..(Power[V4Bits] - 1)
            /\ NormaliseIp(ip).form = "v4" /\ NormaliseIp(ip).n = ip.n
         \/ /\ ip.form \in {"v6", "spelled"} /\ ip.n \in Nat /\ ip.n < Power[V6Bits]
            /\ NormaliseIp(ip) = ip
         \/ /\ ip.form = "bad"
            /\ NormaliseIp(ip) = ip
<1>1. Power[V6Bits] \in Nat
  BY WidthsAre, PowerIsPositive
<1>2. CASE ip \in [form : {"v4", "dotted"}, n : 0..(Power[V4Bits] - 1)]
  <2>1. PICK f \in {"v4", "dotted"}, n \in 0..(Power[V4Bits] - 1) : ip = [form |-> f, n |-> n]
    BY <1>2
  <2>2. ip.form = f /\ ip.n = n
    BY <2>1
  <2>3. CASE f = "v4"
    BY <2>1, <2>2, <2>3 DEF NormaliseIp
  <2>4. CASE f = "dotted"
    <3>1. NormaliseIp(ip) = [form |-> "v4", n |-> n]
      BY <2>1, <2>2, <2>4 DEF NormaliseIp
    <3>2. QED
      BY <2>2, <2>4, <3>1
  <2>5. QED
    BY <2>3, <2>4
<1>3. CASE ip \in [form : {"v6", "spelled"}, n : 0..(Power[V6Bits] - 1)]
  BY <1>1, <1>3 DEF NormaliseIp
<1>4. CASE ip = [form |-> "bad", n |-> 0]
  BY <1>4 DEF NormaliseIp
<1>5. QED
  BY <1>2, <1>3, <1>4 DEF Address

LEMMA ReadAs ==
  ASSUME NEW ip \in Address
  PROVE  /\ ip.form = "v4" => Ipv4ToInt(ip) = ip.n /\ Ipv4ToInt(ip) # Null
         /\ ip.form # "v4" => Ipv4ToInt(ip) = Null
         /\ ip.form \in {"v6", "spelled", "dotted"} => Ipv6ToBigInt(ip) = Point(ip)
         /\ ip.form # "bad" => Point(ip) \in Nat /\ Point(ip) < Power[V6Bits]
         /\ ip.form = "v4" => Family(ip) = 4
         /\ ip.form \in {"v6", "spelled", "dotted"} => Family(ip) = 6
         /\ ip.form = "bad" => Family(ip) = Null
<1>1. Null = -1
  BY DEF Null
<1>2. CASE ip.form = "v4"
  <2>1. ip.n \in 0..(Power[V4Bits] - 1)
    BY <1>2, AddressIs
  <2>2. ip.n \in Nat /\ Mapped(ip.n) \in Nat /\ Mapped(ip.n) < Power[V6Bits]
    BY <2>1, MappedIs
  <2>3. QED
    BY <1>1, <1>2, <2>2 DEF Ipv4ToInt, Family, Point
<1>3. CASE ip.form = "dotted"
  <2>1. ip.n \in 0..(Power[V4Bits] - 1)
    BY <1>3, AddressIs
  <2>2. ip.n \in Nat /\ Mapped(ip.n) \in Nat /\ Mapped(ip.n) < Power[V6Bits]
    BY <2>1, MappedIs
  <2>3. Ipv6ToBigInt(ip) = Mapped(ip.n) /\ Ipv4ToInt(ip) = Null /\ Point(ip) = Mapped(ip.n)
    BY <1>3 DEF Ipv6ToBigInt, Ipv4ToInt, Point
  <2>4. Mapped(ip.n) # Null
    BY <1>1, <2>2
  <2>5. QED
    BY <1>3, <2>2, <2>3, <2>4 DEF Family
<1>4. CASE ip.form \in {"v6", "spelled"}
  <2>1. ip.n \in Nat /\ ip.n < Power[V6Bits]
    BY <1>4, AddressIs
  <2>2. Ipv6ToBigInt(ip) = ip.n /\ Ipv4ToInt(ip) = Null /\ Point(ip) = ip.n
    BY <1>4 DEF Ipv6ToBigInt, Ipv4ToInt, Point
  <2>3. ip.n # Null
    BY <1>1, <2>1
  <2>5. QED
    BY <1>4, <2>1, <2>2, <2>3 DEF Family
<1>5. CASE ip.form = "bad"
  BY <1>5 DEF Ipv6ToBigInt, Ipv4ToInt, Family
<1>6. QED
  BY <1>2, <1>3, <1>4, <1>5, AddressIs

\* What a well-formed range is.
LEMMA RangeIs ==
  ASSUME NEW cidr \in Cidr, IsCidr(cidr)
  PROVE  /\ cidr.base \in Address
         /\ \/ /\ cidr.base.form = "v4" /\ Family(cidr.base) = 4 /\ Width(Family(cidr.base)) = V4Bits
               /\ ParsedBits(cidr) \in 0..V4Bits
            \/ /\ cidr.base.form \in {"v6", "spelled", "dotted"} /\ Family(cidr.base) = 6
               /\ Width(Family(cidr.base)) = V6Bits
               /\ ParsedBits(cidr) \in 0..V6Bits
<1>1. cidr.base \in Address /\ cidr.bits \in {Bare} \cup 0..(V6Bits + 1)
  BY DEF Cidr
<1>2. Family(cidr.base) # Null /\ ParsedBits(cidr) <= Width(Family(cidr.base))
  BY DEF IsCidr
<1>3. \/ cidr.base.form = "v4" /\ Family(cidr.base) = 4
      \/ cidr.base.form \in {"v6", "spelled", "dotted"} /\ Family(cidr.base) = 6
  BY <1>1, <1>2, ReadAs, AddressIs
<1>4. ParsedBits(cidr) \in Int /\ ParsedBits(cidr) >= 0
  <2>1. CASE cidr.bits = Bare
    BY <1>3, <2>1, WidthsAre DEF ParsedBits, Width
  <2>2. CASE cidr.bits # Bare
    BY <1>1, <2>2, WidthsAre DEF ParsedBits
  <2>3. QED
    BY <2>1, <2>2
<1>5. QED
  BY <1>1, <1>2, <1>3, <1>4, WidthsAre DEF Width

\* The shift that wraps at 32 is right all the same: no bits are a case of their own.
LEMMA SamePrefixIs ==
  ASSUME NEW width \in Nat, width >= 1, NEW wrap \in {width, width + 1}, NEW bits \in 0..width,
         NEW n \in Nat, n < Power[width], NEW b \in Nat, b < Power[width]
  PROVE  SamePrefix(n, b, bits, width, wrap)
            <=> n \div Power[width - bits] = b \div Power[width - bits]
<1>1. width - bits \in Nat
  OBVIOUS
<1> DEFINE m == Power[width - bits]
<1>2. m \in Nat /\ m >= 1
  BY <1>1, PowerIsPositive
<1>3. CASE bits = 0
  <2>1. m = Power[width]
    BY <1>3
  <2> HIDE DEF m
  <2>2. n \div m = 0
    <3>1. 0 * m <= n /\ n < 0 * m + m
      BY <1>2, <2>1
    <3>2. QED
      BY <1>2, <3>1, Quotient
  <2>3. b \div m = 0
    <3>1. 0 * m <= b /\ b < 0 * m + m
      BY <1>2, <2>1
    <3>2. QED
      BY <1>2, <3>1, Quotient
  <2>4. QED
    BY <1>3, <2>2, <2>3 DEF SamePrefix, m
<1>4. CASE bits # 0
  <2>1. (width - bits) % wrap = width - bits
    <3>1. width - bits >= 0 /\ width - bits < wrap /\ wrap \in Nat /\ wrap >= 1
      BY <1>4
    <3>2. (width - bits) \div wrap = 0
      <4>1. 0 * wrap <= width - bits /\ width - bits < 0 * wrap + wrap
        BY <3>1
      <4>2. QED
        BY <1>1, <3>1, <4>1, Quotient
    <3>3. width - bits = wrap * ((width - bits) \div wrap) + ((width - bits) % wrap)
      BY <1>1, <3>1, Remainder
    <3>4. (width - bits) % wrap \in 0..(wrap - 1)
      BY <1>1, <3>1, Remainder
    <3>5. wrap * 0 = 0
      BY <3>1
    <3>6. QED
      BY <3>2, <3>3, <3>4, <3>5
  <2>2. Masked(n, bits, width, wrap) = n - (n % m) /\ Masked(b, bits, width, wrap) = b - (b % m)
    BY <2>1 DEF Masked
  <2>3. (n - (n % m) = b - (b % m)) <=> (n \div m = b \div m)
    BY <1>2, Cleared
  <2>4. QED
    BY <1>4, <2>2, <2>3 DEF SamePrefix
<1>5. QED
  BY <1>3, <1>4

\* How a position among the mapped addresses divides.
LEMMA MappedBlock ==
  ASSUME NEW n \in 0..(Power[V4Bits] - 1), NEW bits \in 0..V4Bits
  PROVE  Mapped(n) \div Power[V4Bits - bits]
            = MappedHigh * Power[bits] + n \div Power[V4Bits - bits]
<1>1. V4Bits - bits \in Nat /\ bits \in Nat /\ bits + (V4Bits - bits) = V4Bits
  BY WidthsAre
<1> DEFINE m == Power[V4Bits - bits]
           k == Power[bits]
<1>2. m \in Nat /\ m >= 1 /\ k \in Nat /\ MappedHigh \in Nat /\ n \in Nat
  BY <1>1, PowerIsPositive, WidthsAre, MappedIs
<1>3. Power[V4Bits] = k * m
  <2>1. Power[bits + (V4Bits - bits)] = k * m
    BY <1>1, PowerOfSum
  <2>2. QED
    BY <1>1, <2>1
<1>4. Mapped(n) = MappedHigh * (k * m) + n
  BY <1>3 DEF Mapped
<1> HIDE DEF m, k
<1>5. MappedHigh * (k * m) = (MappedHigh * k) * m /\ MappedHigh * k \in Nat
  BY <1>2
<1>6. ((MappedHigh * k) * m + n) \div m = MappedHigh * k + n \div m
  BY <1>2, <1>5, Shifted
<1>7. QED
  BY <1>4, <1>5, <1>6 DEF m, k

\* The addresses of a range, by what its first bits are.
LEMMA ExtentIs ==
  ASSUME NEW cidr \in Cidr, IsCidr(cidr), NEW p \in Nat
  PROVE  /\ cidr.base.form = "v4" =>
              (p \in Extent(cidr) <=> p \div Power[V4Bits - ParsedBits(cidr)]
                                        = Point(cidr.base) \div Power[V4Bits - ParsedBits(cidr)])
         /\ cidr.base.form # "v4" =>
              (p \in Extent(cidr) <=> p \div Power[V6Bits - ParsedBits(cidr)]
                                        = Point(cidr.base) \div Power[V6Bits - ParsedBits(cidr)])
<1> DEFINE w == Width(Family(cidr.base))
           bits == ParsedBits(cidr)
           b == Point(cidr.base)
<1>1. /\ cidr.base \in Address /\ cidr.base.form # "bad" /\ w \in Nat /\ bits \in 0..w
      /\ cidr.base.form = "v4" => w = V4Bits
      /\ cidr.base.form # "v4" => w = V6Bits
  BY RangeIs, WidthsAre
<1>2. b \in Nat
  BY <1>1, ReadAs
<1> DEFINE m == Power[w - bits]
<1>3. w - bits \in Nat /\ V6Bits - (bits + (V6Bits - w)) = w - bits
  BY <1>1, WidthsAre
<1>4. m \in Nat /\ m >= 1
  BY <1>3, PowerIsPositive
<1>5. Extent(cidr) = ((b \div m) * m)..((b \div m) * m + m - 1)
  <2>1. Power[V6Bits - (bits + (V6Bits - w))] = m
    BY <1>3
  <2> HIDE DEF m
  <2>2. QED
    BY <2>1 DEF Extent
<1>6. p \in Extent(cidr) <=> p \div m = b \div m
  <2> HIDE DEF m, b
  <2>1. QED
    BY <1>2, <1>4, <1>5, InBlock
<1>7. QED
  BY <1>1, <1>6

\* A client as a socket reports it.
ReportedAs(ip) == ip \in Address /\ ip.form # "bad" /\ ~IsMappedHex(ip)

\* An IPv4 range among the mapped addresses: its clients are IPv4 ones.
LEMMA NoneOutside ==
  ASSUME NEW ip, ReportedAs(ip), ip.form \in {"v6", "spelled"},
         NEW b \in 0..(Power[V4Bits] - 1), NEW bits \in 0..V4Bits
  PROVE  ip.n \div Power[V4Bits - bits] # Mapped(b) \div Power[V4Bits - bits]
<1>1. V4Bits - bits \in Nat /\ bits \in Nat /\ (V4Bits - bits) + bits = V4Bits
  BY WidthsAre
<1> DEFINE m == Power[V4Bits - bits]
           k == Power[bits]
<1>2. m \in Nat /\ m >= 1 /\ k \in Nat /\ k >= 1 /\ ip.n \in Nat /\ Mapped(b) \in Nat
  BY <1>1, PowerIsPositive, AddressIs, MappedIs DEF ReportedAs
<1>3. Power[V4Bits] = m * k
  <2>1. Power[(V4Bits - bits) + bits] = m * k
    BY <1>1, PowerOfSum
  <2>2. QED
    BY <1>1, <2>1
<1>4. Mapped(b) \div Power[V4Bits] = MappedHigh
  <2>1. Power[V4Bits] \in Nat /\ Power[V4Bits] >= 1 /\ MappedHigh \in Nat /\ b \in Nat /\ b < Power[V4Bits]
    BY WidthsAre, PowerIsPositive
  <2> DEFINE P == Power[V4Bits]
  <2>2. Mapped(b) = MappedHigh * P + b
    BY DEF Mapped
  <2> HIDE DEF P
  <2>3. P \in Nat /\ P >= 1 /\ b < P
    BY <2>1 DEF P
  <2>4. MappedHigh * P <= Mapped(b) /\ Mapped(b) < MappedHigh * P + P
    BY <2>1, <2>2, <2>3
  <2>5. Mapped(b) \div P = MappedHigh
    BY <1>2, <2>1, <2>3, <2>4, Quotient
  <2>6. QED
    BY <2>5 DEF P
<1>5. ip.n \div Power[V4Bits] # MappedHigh
  BY DEF ReportedAs, IsMappedHex, InMappedBlock
<1> HIDE DEF m, k
<1>6. ASSUME ip.n \div m = Mapped(b) \div m PROVE FALSE
  <2>1. ip.n \div (m * k) = Mapped(b) \div (m * k)
    BY <1>2, <1>6, Coarser
  <2>2. QED
    BY <1>3, <1>4, <1>5, <2>1
<1>7. QED
  BY <1>6 DEF m

\* A client is found in a range exactly if it is one of the addresses the range stands for.
LEMMA InRange ==
  ASSUME NEW ip, ReportedAs(ip), NEW cidr \in Cidr, IsCidr(cidr)
  PROVE  IpInCidr(ip, cidr) <=> Point(ip) \in Extent(cidr)
<1> DEFINE client == NormaliseIp(ip)
           v4 == Ipv4ToInt(client)
           n == IF v4 # Null THEN Mapped(v4) ELSE Ipv6ToBigInt(client)
           bits == ParsedBits(cidr)
           b == cidr.base
<1>1. IpInCidr(ip, cidr) <=>
         \/ /\ Family(b) = 4 /\ v4 # Null
            /\ SamePrefix(v4, Ipv4ToInt(b), bits, V4Bits, V4Bits)
         \/ /\ Family(b) = 6 /\ n # Null
            /\ SamePrefix(n, Ipv6ToBigInt(b), bits, V6Bits, V6Bits + 1)
  BY DEF IpInCidr
<1>2. ip \in Address /\ ip.form # "bad" /\ Point(ip) \in Nat /\ Point(ip) < Power[V6Bits]
  BY ReadAs DEF ReportedAs
<1>3. CASE ip.form \in {"v4", "dotted"}
  <2>1. ip.n \in 0..(Power[V4Bits] - 1) /\ client.form = "v4" /\ client.n = ip.n
    BY <1>2, <1>3, AddressIs
  <2>2. ip.n \in Nat /\ ip.n < Power[V4Bits] /\ Mapped(ip.n) \in Nat /\ Mapped(ip.n) < Power[V6Bits]
    BY <2>1, MappedIs
  <2>3. v4 = ip.n /\ v4 # Null
    BY <2>1, <2>2 DEF Ipv4ToInt, Null
  <2>4. n = Mapped(ip.n) /\ n # Null /\ Point(ip) = Mapped(ip.n)
    BY <1>3, <2>2, <2>3 DEF Null, Point
  <2> HIDE DEF v4, n, client
  <2>5. CASE b.form = "v4"
    <3>1. /\ b \in Address /\ Family(b) = 4 /\ bits \in 0..V4Bits /\ b.n \in 0..(Power[V4Bits] - 1)
          /\ Ipv4ToInt(b) = b.n /\ Point(b) = Mapped(b.n)
      BY <2>5, RangeIs, AddressIs, ReadAs DEF Point
    <3>2. b.n \in Nat /\ b.n < Power[V4Bits]
      BY <3>1, MappedIs
    <3> DEFINE m == Power[V4Bits - bits]
    <3>3. IpInCidr(ip, cidr) <=> SamePrefix(ip.n, b.n, bits, V4Bits, V4Bits)
      BY <1>1, <2>3, <3>1
    <3>4. SamePrefix(ip.n, b.n, bits, V4Bits, V4Bits) <=> ip.n \div m = b.n \div m
      BY <2>2, <3>1, <3>2, SamePrefixIs, WidthsAre
    <3>5. Point(ip) \in Extent(cidr) <=> Mapped(ip.n) \div m = Mapped(b.n) \div m
      BY <1>2, <2>4, <2>5, <3>1, ExtentIs
    <3>6. /\ Mapped(ip.n) \div m = MappedHigh * Power[bits] + ip.n \div m
          /\ Mapped(b.n) \div m = MappedHigh * Power[bits] + b.n \div m
      BY <2>1, <3>1, MappedBlock
    <3>7. MappedHigh * Power[bits] \in Nat /\ ip.n \div m \in Nat /\ b.n \div m \in Nat
      <4>1. V4Bits - bits \in Nat /\ bits \in Nat
        BY <3>1, WidthsAre
      <4>2. m \in Nat /\ m >= 1 /\ Power[bits] \in Nat /\ MappedHigh \in Nat
        BY <4>1, PowerIsPositive, WidthsAre
      <4> HIDE DEF m
      <4>3. \A x \in Nat : x \div m \in Nat
        BY <4>2, Remainder
      <4>4. QED
        BY <2>2, <3>2, <4>2, <4>3
    <3> HIDE DEF m, b, bits
    <3>8. QED
      BY <3>3, <3>4, <3>5, <3>6, <3>7
  <2>6. CASE b.form # "v4"
    <3>1. /\ b \in Address /\ Family(b) = 6 /\ bits \in 0..V6Bits /\ Ipv6ToBigInt(b) = Point(b)
          /\ Point(b) \in Nat /\ Point(b) < Power[V6Bits]
      BY <2>6, RangeIs, ReadAs
    <3>2. IpInCidr(ip, cidr) <=> SamePrefix(Point(ip), Point(b), bits, V6Bits, V6Bits + 1)
      BY <1>1, <2>4, <3>1
    <3>3. SamePrefix(Point(ip), Point(b), bits, V6Bits, V6Bits + 1)
             <=> Point(ip) \div Power[V6Bits - bits] = Point(b) \div Power[V6Bits - bits]
      BY <1>2, <3>1, SamePrefixIs, WidthsAre
    <3>4. Point(ip) \in Extent(cidr)
             <=> Point(ip) \div Power[V6Bits - bits] = Point(b) \div Power[V6Bits - bits]
      BY <1>2, <2>6, ExtentIs
    <3>5. QED
      BY <3>2, <3>3, <3>4
  <2>7. QED
    BY <2>5, <2>6
<1>4. CASE ip.form \in {"v6", "spelled"}
  <2>1. client = ip
    BY <1>2, <1>4, AddressIs
  <2>2. v4 = Null /\ n = Point(ip) /\ n # Null /\ Point(ip) = ip.n
    BY <1>2, <1>4, <2>1, ReadAs DEF Point, Null
  <2> HIDE DEF v4, n, client
  <2>5. CASE b.form = "v4"
    <3>1. /\ b \in Address /\ Family(b) = 4 /\ bits \in 0..V4Bits /\ b.n \in 0..(Power[V4Bits] - 1)
          /\ Point(b) = Mapped(b.n)
      BY <2>5, RangeIs, AddressIs DEF Point
    <3>2. ~IpInCidr(ip, cidr)
      BY <1>1, <2>2, <3>1
    <3>3. Point(ip) \in Extent(cidr)
             <=> ip.n \div Power[V4Bits - bits] = Mapped(b.n) \div Power[V4Bits - bits]
      BY <1>2, <2>2, <2>5, <3>1, ExtentIs
    <3>4. ip.n \div Power[V4Bits - bits] # Mapped(b.n) \div Power[V4Bits - bits]
      BY <1>4, <3>1, NoneOutside
    <3>5. QED
      BY <3>2, <3>3, <3>4
  <2>6. CASE b.form # "v4"
    <3>1. /\ b \in Address /\ Family(b) = 6 /\ bits \in 0..V6Bits /\ Ipv6ToBigInt(b) = Point(b)
          /\ Point(b) \in Nat /\ Point(b) < Power[V6Bits]
      BY <2>6, RangeIs, ReadAs
    <3>2. IpInCidr(ip, cidr) <=> SamePrefix(Point(ip), Point(b), bits, V6Bits, V6Bits + 1)
      BY <1>1, <2>2, <3>1
    <3>3. SamePrefix(Point(ip), Point(b), bits, V6Bits, V6Bits + 1)
             <=> Point(ip) \div Power[V6Bits - bits] = Point(b) \div Power[V6Bits - bits]
      BY <1>2, <3>1, SamePrefixIs, WidthsAre
    <3>4. Point(ip) \in Extent(cidr)
             <=> Point(ip) \div Power[V6Bits - bits] = Point(b) \div Power[V6Bits - bits]
      BY <1>2, <2>6, ExtentIs
    <3>5. QED
      BY <3>2, <3>3, <3>4
  <2>7. QED
    BY <2>5, <2>6
<1>5. QED
  BY <1>2, <1>3, <1>4, AddressIs

-----------------------------------------------------------------------------
\* What is listed as a range is the text of one, well-formed or not.
RangesInv == \A row \in rows : row.type = "ip_range" => row.value \in Cidr

LEMMA InsertKeepsRanges ==
  ASSUME RangesInv, NEW list, NEW type, NEW value, Insert(list, type, value),
         type = "ip_range" => value \in Cidr
  PROVE  RangesInv'
<1>1. PICK n : rows' = rows \cup {[id |-> n, list |-> list, type |-> type,
                                   value |-> StoredAs(type, value), source |-> "manual"]}
  BY InsertIs
<1> DEFINE v == StoredAs(type, value)
           new == [id |-> n, list |-> list, type |-> type, value |-> v, source |-> "manual"]
<1>2. new.type = type /\ new.value = v
  OBVIOUS
<1>3. type = "ip_range" => v \in Cidr
  BY DEF StoredAs
<1>4. rows' = rows \cup {new}
  BY <1>1
<1> HIDE DEF new, v
<1>5. QED
  BY <1>2, <1>3, <1>4 DEF RangesInv

\* A request lists addresses, no ranges.
LEMMA NoRangeToDo ==
  ASSUME ListedInv, NEW r \in Rejections, rejection[r].at = "inserting"
  PROVE  Head(rejection[r].todo).type # "ip_range"
<1>1. rejection[r].todo \in Seq(ToList(r)) /\ rejection[r].todo # <<>>
  BY DEF ListedInv, RequestInv
<1>2. Head(rejection[r].todo) \in ToList(r)
  BY <1>1
<1>3. \A entry \in ToList(r) : entry.type # "ip_range"
  BY DEF ToList, Stored
<1>4. QED
  BY <1>2, <1>3

LEMMA RangesAlways == Spec => []RangesInv
<1>1. Init => RangesInv
  BY ListsAssumption DEF Init, ListsInit, RangesInv
<1>2. ASSUME ListedInv, RangesInv, [Next]_vars PROVE RangesInv'
  <2>1. ASSUME NEW list, NEW type, NEW value, type # "ip_range", Insert(list, type, value)
        PROVE  RangesInv'
    BY <1>2, <2>1, InsertKeepsRanges
  <2>2. ASSUME rows' \subseteq rows PROVE RangesInv'
    BY <1>2, <2>2 DEF RangesInv
  <2>3. ASSUME NEW emails, NEW clients, NEW cidrs, cidrs \subseteq Ranges,
               ListsNext(emails, clients, cidrs)
        PROVE  RangesInv'
    <3>1. CASE \E list \in Lists : \E e \in emails :
                  AddEntry(list, "email", e) \/ AddEntry(list, "email_domain", e.domain)
      BY <2>1, <3>1 DEF AddEntry
    <3>2. CASE \E list \in Lists : \E ip \in clients : AddEntry(list, "ip", ip)
      BY <2>1, <3>2 DEF AddEntry
    <3>3. CASE \E list \in Lists : \E cidr \in cidrs : AddEntry(list, "ip_range", cidr)
      BY <1>2, <2>3, <3>3, InsertKeepsRanges, ListsAssumption DEF AddEntry
    <3>4. CASE \E list \in Lists : RemoveEntry(list)
      BY <2>2, <3>4 DEF RemoveEntry
    <3>5. CASE \E r \in Rejections : StartListing(r) \/ SelectEntry(r)
      BY <2>2, <3>5 DEF StartListing, SelectEntry
    <3>6. ASSUME NEW r \in Rejections, InsertEntry(r) PROVE RangesInv'
      <4>1. Head(rejection[r].todo).type # "ip_range"
        BY <1>2, <3>6, NoRangeToDo DEF InsertEntry
      <4>2. QED
        BY <2>1, <2>2, <3>6, <4>1 DEF InsertEntry
    <3>7. QED
      BY <2>3, <3>1, <3>2, <3>3, <3>4, <3>5, <3>6 DEF ListsNext
  <2>4. ASSUME ListsNext(Typed, {}, {}) PROVE RangesInv'
    BY <2>3, <2>4
  <2>5. ASSUME ListsNext({}, TypedIps, Ranges) PROVE RangesInv'
    BY <2>3, <2>5
  <2>6. ASSUME ListsNext({}, {}, Crowd) PROVE RangesInv'
    BY <2>3, <2>6, AssessmentAssumption
  <2>7. ASSUME UNCHANGED listVars PROVE RangesInv'
    BY <2>2, <2>7 DEF listVars
  <2>8. QED
    BY <1>2, <2>4, <2>5, <2>6, <2>7, ListsOrNothing
<1>3. QED
  BY <1>1, <1>2, ListedAlways, PTL DEF Spec

\* The narrowing query loses no range but those that are passed over.
LEMMA IsCandidate ==
  ASSUME NEW ip, ReportedAs(ip), NEW cidr \in Cidr, IsCidr(cidr), IpInCidr(ip, cidr),
         Family(NormaliseIp(ip)) = 4 => ~PassedOver(cidr)
  PROVE  Prefilter(NormaliseIp(ip), cidr)
<1> DEFINE client == NormaliseIp(ip)
           b == cidr.base
           bits == ParsedBits(cidr)
<1>1. ip \in Address /\ ip.form # "bad"
  BY DEF ReportedAs
<1>2. CASE ip.form \in {"v4", "dotted"}
  <2>1. client.form = "v4" /\ client.n = ip.n /\ ip.n \in 0..(Power[V4Bits] - 1)
    BY <1>1, <1>2, AddressIs
  <2>0. ~PassedOver(cidr)
    <3>1. Ipv4ToInt(client) # Null
      BY <2>1, MappedIs DEF Ipv4ToInt, Null
    <3>2. QED
      BY <3>1 DEF Family
  <2>2. CASE b.form = "v4" /\ bits < OctetBits
    <3>1. FirstOctet(b.n) = 0
      BY <2>0, <2>2 DEF PassedOver
    <3>2. QED
      BY <2>1, <2>2, <3>1 DEF Prefilter
  <2>3. CASE b.form = "v4" /\ ~(bits < OctetBits)
    <3>1. /\ b \in Address /\ Family(b) = 4 /\ bits \in 0..V4Bits /\ b.n \in 0..(Power[V4Bits] - 1)
          /\ Ipv4ToInt(b) = b.n
      BY <2>3, RangeIs, AddressIs, ReadAs
    <3>2. b.n \in Nat /\ b.n < Power[V4Bits] /\ ip.n \in Nat /\ ip.n < Power[V4Bits]
      BY <2>1, <3>1, MappedIs
    <3>3. V4Bits - bits \in Nat /\ bits - OctetBits \in Nat
          /\ (V4Bits - bits) + (bits - OctetBits) = V4Bits - OctetBits
      BY <2>3, <3>1, WidthsAre
    <3> DEFINE m == Power[V4Bits - bits]
               k == Power[bits - OctetBits]
    <3>4. m \in Nat /\ m >= 1 /\ k \in Nat /\ k >= 1
      BY <3>3, PowerIsPositive
    <3>5. Power[V4Bits - OctetBits] = m * k
      <4>1. Power[(V4Bits - bits) + (bits - OctetBits)] = m * k
        BY <3>3, PowerOfSum
      <4>2. QED
        BY <3>3, <4>1
    <3>6. SamePrefix(ip.n, b.n, bits, V4Bits, V4Bits)
      <4>1. Ipv4ToInt(client) = ip.n
        BY <2>1 DEF Ipv4ToInt
      <4>2. QED
        BY <3>1, <4>1 DEF IpInCidr
    <3>7. ip.n \div m = b.n \div m
      BY <3>1, <3>2, <3>6, SamePrefixIs, WidthsAre
    <3> HIDE DEF m, k
    <3>8. ip.n \div (m * k) = b.n \div (m * k)
      BY <3>2, <3>4, <3>7, Coarser
    <3>9. FirstOctet(ip.n) = FirstOctet(b.n)
      BY <3>5, <3>8 DEF FirstOctet
    <3>10. QED
      BY <2>1, <2>3, <3>9 DEF Prefilter
  <2>4. CASE b.form = "dotted"
    BY <2>1, <2>4 DEF Prefilter
  <2>5. CASE b.form \in {"v6", "spelled"}
    BY <2>0, <2>1, <2>5 DEF Prefilter, PassedOver
  <2>6. QED
    BY <2>2, <2>3, <2>4, <2>5, RangeIs
<1>3. CASE ip.form \in {"v6", "spelled"}
  <2>1. client = ip
    BY <1>1, <1>3, AddressIs
  <2>2. CASE b.form = "v4"
    <3>1. Family(b) = 4 /\ Ipv4ToInt(client) = Null
      BY <1>1, <1>3, <2>1, <2>2, RangeIs, ReadAs
    <3>2. FALSE
      BY <3>1 DEF IpInCidr
    <3>3. QED
      BY <3>2
  <2>3. CASE b.form # "v4"
    BY <1>3, <2>1, <2>3, RangeIs DEF Prefilter
  <2>4. QED
    BY <2>2, <2>3
<1>4. QED
  BY <1>1, <1>2, <1>3, AddressIs

\* A client is compared in one form, whatever it was reported in.
LEMMA ComparedAlike ==
  ASSUME NEW ip \in Clients, NEW cidr
  PROVE  IpInCidr(NormaliseIp(ip), cidr) <=> IpInCidr(ip, cidr)
BY NormaliseTwice DEF IpInCidr

LEMMA FetchedAre ==
  ASSUME NEW limit \in Nat, NEW found, IsFiniteSet(found), NEW fetched \in UpTo(limit, found)
  PROVE  /\ fetched \subseteq found
         /\ Cardinality(fetched) < limit => fetched = found
<1>1. Cardinality(found) \in Nat
  BY FS_CardinalityType
<1> DEFINE size == IF Cardinality(found) > limit THEN limit ELSE Cardinality(found)
<1>2. fetched \in SUBSET found /\ Cardinality(fetched) = size
  BY DEF UpTo, kSubset
<1>3. ASSUME Cardinality(fetched) < limit PROVE fetched = found
  <2>1. Cardinality(fetched) = Cardinality(found)
    BY <1>1, <1>2, <1>3
  <2>2. QED
    BY <1>2, <2>1, FS_Subset
<1>4. QED
  BY <1>2, <1>3

(* If nothing that is fetched is around the client, fewer than the limit   *)
(* were there to fetch, and none was left out.                             *)
LEMMA EnoughFetched ==
  ASSUME IsFiniteSet(rows), NEW list, NEW ip, NEW around, NEW r \in around,
         r \in Candidates(list, ip), Cardinality(Candidates(list, ip) \ around) < RangeLimit,
         NEW fetched \in UpTo(RangeLimit, Candidates(list, ip))
  PROVE  \E q \in fetched : q \in around
<1> DEFINE found == Candidates(list, ip)
<1>1. IsFiniteSet(found)
  <2>1. found \subseteq rows
    BY DEF Candidates
  <2>2. QED
    BY <2>1, FS_Subset
<1>2. RangeLimit \in Nat
  BY ListsAssumption
<1> HIDE DEF found
<1>3. fetched \subseteq found /\ (Cardinality(fetched) < RangeLimit => fetched = found)
  BY <1>1, <1>2, FetchedAre DEF found
<1>4. ASSUME fetched \cap around = {} PROVE FALSE
  <2>1. IsFiniteSet(found \ around) /\ fetched \subseteq found \ around
    BY <1>1, <1>3, <1>4, FS_Subset
  <2>2. IsFiniteSet(fetched) /\ Cardinality(fetched) <= Cardinality(found \ around)
    BY <2>1, FS_Subset
  <2>3. Cardinality(fetched) \in Nat /\ Cardinality(found \ around) \in Nat
    BY <2>1, <2>2, FS_CardinalityType
  <2>4. Cardinality(fetched) < RangeLimit
    BY <1>2, <2>2, <2>3 DEF found
  <2>5. r \in fetched
    BY <1>3, <2>4 DEF found
  <2>6. QED
    BY <1>4, <2>5
<1>5. QED
  BY <1>4

(* A listed range stops exactly the clients inside it, however they are    *)
(* reported, and of the candidates the query fetches enough: whichever     *)
(* they are, as long as fewer of the others than its limit are candidates  *)
(* too, a client in a range that is not passed over is found.  At any      *)
(* widths of addresses, every prefix length, for any lists and any limit   *)
(* (ipInCidr, net-util.ts:102; fraud-prevention.service.ts:713-729).       *)
THEOREM RangesAreFound == Spec => []ListedRangesFound
<1>1. ASSUME RangesInv, IsFiniteSet(rows) PROVE ListedRangesFound
  <2> SUFFICES ASSUME NEW list \in Lists, NEW ip \in Reported
               PROVE  LET ranges == {r \in rows : r.list = list /\ r.type = "ip_range"}
                          around == {r \in ranges : /\ IsCidr(r.value)
                                                    /\ Point(ip) \in Extent(r.value)}
                      IN /\ \A r \in ranges : IpInCidr(ip, r.value) <=> r \in around
                         /\ /\ \E r \in around : Family(NormaliseIp(ip)) = 4 => ~PassedOver(r.value)
                            /\ Cardinality(Candidates(list, NormaliseIp(ip)) \ around) < RangeLimit
                            => \A fetched \in Fetched(list, ip) : InListedRange(ip, fetched)
    BY DEF ListedRangesFound
  <2> DEFINE ranges == {r \in rows : r.list = list /\ r.type = "ip_range"}
             around == {r \in ranges : IsCidr(r.value) /\ Point(ip) \in Extent(r.value)}
  <2>1. ReportedAs(ip) /\ ip \in Clients
    BY ListsAssumption DEF Reported, ReportedAs
  <2>2. \A r \in ranges : r.value \in Cidr
    BY <1>1 DEF RangesInv
  <2> HIDE DEF ranges
  <2>3. ASSUME NEW r \in ranges PROVE IpInCidr(ip, r.value) <=> r \in around
    <3>1. CASE IsCidr(r.value)
      BY <2>1, <2>2, <3>1, InRange
    <3>2. CASE ~IsCidr(r.value)
      BY <3>2 DEF IpInCidr
    <3>3. QED
      BY <3>1, <3>2
  <2>4. ASSUME NEW r \in around, Family(NormaliseIp(ip)) = 4 => ~PassedOver(r.value),
               Cardinality(Candidates(list, NormaliseIp(ip)) \ around) < RangeLimit,
               NEW fetched \in Fetched(list, ip)
        PROVE  InListedRange(ip, fetched)
    <3>1. r \in ranges /\ r.value \in Cidr /\ IsCidr(r.value) /\ IpInCidr(ip, r.value)
      BY <2>2, <2>3
    <3>2. Prefilter(NormaliseIp(ip), r.value)
      BY <2>1, <2>4, <3>1, IsCandidate
    <3>3. r \in Candidates(list, NormaliseIp(ip))
      BY <3>1, <3>2 DEF Candidates, ranges
    <3>4. PICK q \in fetched : q \in around
      <4> HIDE DEF around
      <4>1. QED
        BY <1>1, <2>4, <3>3, EnoughFetched DEF Fetched
    <3>5. IpInCidr(ip, q.value)
      BY <2>3, <3>4
    <3>6. IpInCidr(NormaliseIp(ip), q.value)
      BY <2>1, <3>5, ComparedAlike
    <3>7. QED
      BY <3>4, <3>6 DEF InListedRange
  <2>5. QED
    BY <2>3, <2>4 DEF ranges
<1>2. QED
  BY <1>1, RangesAlways, FiniteRows, PTL

=============================================================================
