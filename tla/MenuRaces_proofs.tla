-------------------------- MODULE MenuRaces_proofs --------------------------
(***************************************************************************)
(* Proofs about MenuTree and MenuRaces, for any number of menus, any menu  *)
(* file and any forms.  What a table of menus keeps is stated of tables    *)
(* (Formed, Agree), not of the state, since InitFromFile makes a table per *)
(* item of the file; the recursion over the items, and that of the levels  *)
(* of a tree, are resolved by showing that their functions exist.          *)
(***************************************************************************)
EXTENDS MenuRaces, NumberLemmas, SequenceTheorems

-----------------------------------------------------------------------------
(* Paths: prefixes, and what comes after them.                             *)

LEMMA PrefixByElement ==
  ASSUME NEW s \in Seq(Ids), NEW t \in Seq(Ids)
  PROVE  IsPrefix(s, t) <=> Len(s) <= Len(t) /\ \A i \in 1 .. Len(s) : s[i] = t[i]
<1>1. Len(s) \in Nat /\ Len(t) \in Nat
  BY LenProperties
<1>2. /\ \A i \in 1 .. Len(s) : s[i] \in Ids
      /\ \A i \in 1 .. Len(t) : t[i] \in Ids
  BY ElementOfSeq
<1>3. ASSUME Len(s) <= Len(t)
      PROVE  SubSeq(s, 1, Len(s)) = SubSeq(t, 1, Len(s))
               <=> \A i \in 1 .. Len(s) : s[i] = t[i]
  <2>1. /\ SubSeq(s, 1, Len(s)) \in Seq(Ids)
        /\ Len(SubSeq(s, 1, Len(s))) = Len(s)
        /\ \A i \in 1 .. Len(s) : SubSeq(s, 1, Len(s))[i] = s[i]
    BY <1>1, <1>2, SubSeqProperties, Z3
  <2>2. \A i \in 1 .. Len(s) : t[i] \in Ids
    BY <1>1, <1>2, <1>3
  <2>3. /\ SubSeq(t, 1, Len(s)) \in Seq(Ids)
        /\ Len(SubSeq(t, 1, Len(s))) = Len(s)
        /\ \A i \in 1 .. Len(s) : SubSeq(t, 1, Len(s))[i] = t[i]
    BY <1>1, <2>2, SubSeqProperties, Z3
  <2> QED BY <2>1, <2>3, SeqEqual
<1> QED BY <1>1, <1>3 DEF IsPrefix

LEMMA PrefixTransitive ==
  ASSUME NEW s \in Seq(Ids), NEW t \in Seq(Ids), NEW u \in Seq(Ids),
         IsPrefix(s, t), IsPrefix(t, u)
  PROVE  IsPrefix(s, u)
<1>1. Len(s) \in Nat /\ Len(t) \in Nat /\ Len(u) \in Nat
  BY LenProperties
<1> QED BY <1>1, PrefixByElement

(* What starts a path starts the path above it too, or is all of it.       *)
LEMMA PrefixOfAppend ==
  ASSUME NEW s \in Seq(Ids), NEW t \in Seq(Ids), NEW x \in Ids
  PROVE  /\ IsPrefix(s, Append(t, x)) <=> IsPrefix(s, t) \/ s = Append(t, x)
         /\ IsPrefix(t, Append(t, x))
<1> DEFINE u == Append(t, x)
<1>1. /\ u \in Seq(Ids) /\ Len(u) = Len(t) + 1
      /\ \A i \in 1 .. Len(t) : u[i] = t[i]
  BY AppendProperties
<1>2. Len(s) \in Nat /\ Len(t) \in Nat
  BY LenProperties
<1> HIDE DEF u
<1>3. ASSUME IsPrefix(s, t)
      PROVE  IsPrefix(s, u)
  BY <1>1, <1>2, <1>3, PrefixByElement
<1>4. ASSUME s = u
      PROVE  IsPrefix(s, u)
  BY <1>1, <1>2, <1>4, PrefixByElement
<1>5. ASSUME IsPrefix(s, u), Len(s) <= Len(t)
      PROVE  IsPrefix(s, t)
  BY <1>1, <1>2, <1>5, PrefixByElement
<1>6. ASSUME IsPrefix(s, u), Len(s) > Len(t)
      PROVE  s = u
  <2>1. Len(s) = Len(u) /\ \A i \in 1 .. Len(s) : s[i] = u[i]
    BY <1>1, <1>2, <1>6, PrefixByElement
  <2> QED BY <1>1, <2>1, SeqEqual
<1>7. IsPrefix(t, u)
  BY <1>1, <1>2, PrefixByElement
<1>8. Len(s) <= Len(t) \/ Len(s) > Len(t)
  BY <1>2
<1>9. IsPrefix(s, u) <=> IsPrefix(s, t) \/ s = u
  BY <1>3, <1>4, <1>5, <1>6, <1>8
<1> QED BY <1>7, <1>9 DEF u

(* What is left of a path after its first n elements.                      *)
LEMMA Rest ==
  ASSUME NEW t \in Seq(Ids), NEW n \in 0 .. Len(t)
  PROVE  /\ SubSeq(t, n + 1, Len(t)) \in Seq(Ids)
         /\ Len(SubSeq(t, n + 1, Len(t))) = Len(t) - n
         /\ \A i \in 1 .. Len(t) - n : SubSeq(t, n + 1, Len(t))[i] = t[n + i]
<1> DEFINE r == SubSeq(t, n + 1, Len(t))
<1>1. Len(t) \in Nat /\ n \in Nat /\ n <= Len(t) /\ n + 1 \in Int
  BY LenProperties
<1>2. \A i \in n + 1 .. Len(t) : t[i] \in Ids
  BY <1>1, ElementOfSeq
<1>3. /\ r \in Seq(Ids)
      /\ Len(r) = IF n + 1 <= Len(t) THEN Len(t) - (n + 1) + 1 ELSE 0
      /\ \A i \in 1 .. Len(t) - (n + 1) + 1 : r[i] = t[n + 1 + i - 1]
  BY <1>1, <1>2, SubSeqProperties, Z3
<1> HIDE DEF r
<1>4. /\ r \in Seq(Ids) /\ Len(r) = Len(t) - n
      /\ \A i \in 1 .. Len(t) - n : r[i] = t[n + i]
  BY <1>1, <1>3
<1> QED BY <1>4 DEF r

LEMMA RestOfAppend ==
  ASSUME NEW t \in Seq(Ids), NEW x \in Ids, NEW n \in 0 .. Len(t)
  PROVE  SubSeq(Append(t, x), n + 1, Len(t) + 1) = Append(SubSeq(t, n + 1, Len(t)), x)
<1> DEFINE u == Append(t, x)
           r == SubSeq(t, n + 1, Len(t))
           a == SubSeq(u, n + 1, Len(u))
           b == Append(r, x)
<1>1. Len(t) \in Nat /\ n \in Nat /\ n <= Len(t)
  BY LenProperties
<1>2. /\ u \in Seq(Ids) /\ Len(u) = Len(t) + 1
      /\ \A i \in 1 .. Len(t) : u[i] = t[i]
      /\ u[Len(t) + 1] = x
  BY AppendProperties
<1>3. /\ r \in Seq(Ids) /\ Len(r) = Len(t) - n
      /\ \A i \in 1 .. Len(t) - n : r[i] = t[n + i]
  BY Rest
<1> HIDE DEF u, r
<1>4. /\ a \in Seq(Ids) /\ Len(a) = Len(u) - n
      /\ \A i \in 1 .. Len(u) - n : a[i] = u[n + i]
  BY <1>1, <1>2, Rest
<1>5. /\ b \in Seq(Ids) /\ Len(b) = Len(r) + 1
      /\ \A i \in 1 .. Len(r) : b[i] = r[i]
      /\ b[Len(r) + 1] = x
  BY <1>3, AppendProperties
<1> HIDE DEF a, b
<1>6. Len(a) = Len(b) /\ Len(a) = Len(t) - n + 1
  BY <1>1, <1>2, <1>3, <1>4, <1>5
<1>7. ASSUME NEW i \in 1 .. Len(a)
      PROVE  a[i] = b[i]
  <2>1. i \in Nat /\ i \in 1 .. Len(u) - n /\ a[i] = u[n + i]
    BY <1>1, <1>2, <1>4, <1>6
  <2>2. CASE i = Len(t) - n + 1
    <3>1. n + i = Len(t) + 1 /\ i = Len(r) + 1
      BY <1>1, <1>3, <2>1, <2>2
    <3> QED BY <1>2, <1>5, <2>1, <3>1
  <2>3. CASE i # Len(t) - n + 1
    <3>1. /\ i \in 1 .. Len(t) - n /\ n + i \in 1 .. Len(t) /\ i \in 1 .. Len(r)
      BY <1>1, <1>3, <1>6, <2>1, <2>3
    <3> QED BY <1>2, <1>3, <1>5, <2>1, <3>1
  <2> QED BY <2>2, <2>3
<1>8. a = b
  BY <1>4, <1>5, <1>6, <1>7, SeqEqual
<1> QED BY <1>2, <1>8 DEF a, b, u, r

(* A path with another beginning.                                          *)
LEMMA Rebased ==
  ASSUME NEW s \in Seq(Ids), NEW t \in Seq(Ids), NEW n \in 0 .. Len(t)
  PROVE  /\ s \o SubSeq(t, n + 1, Len(t)) \in Seq(Ids)
         /\ s \o SubSeq(t, Len(t) + 1, Len(t)) = s
         /\ \A x \in Ids :
              s \o SubSeq(Append(t, x), n + 1, Len(t) + 1)
                = Append(s \o SubSeq(t, n + 1, Len(t)), x)
<1> DEFINE r == SubSeq(t, n + 1, Len(t))
<1>1. Len(t) \in Nat
  BY LenProperties
<1>2. r \in Seq(Ids) /\ s \o r \in Seq(Ids)
  BY Rest, ConcatProperties
<1>3. s \o SubSeq(t, Len(t) + 1, Len(t)) = s
  <2>1. SubSeq(t, Len(t) + 1, Len(t)) = <<>>
    BY <1>1, SubSeqEmpty, Z3
  <2> QED BY <2>1, ConcatEmptySeq
<1>4. ASSUME NEW x \in Ids
      PROVE  s \o SubSeq(Append(t, x), n + 1, Len(t) + 1) = Append(s \o r, x)
  <2>1. SubSeq(Append(t, x), n + 1, Len(t) + 1) = Append(r, x)
    BY RestOfAppend
  <2> HIDE DEF r
  <2>2. Append(r, x) = r \o <<x>> /\ Append(s \o r, x) = (s \o r) \o <<x>>
    BY <1>2, AppendIsConcat
  <2>3. <<x>> \in Seq(Ids)
    OBVIOUS
  <2>4. s \o (r \o <<x>>) = (s \o r) \o <<x>>
    BY <1>2, <2>3, ConcatAssociative
  <2> QED BY <2>1, <2>2, <2>4
<1> QED BY <1>2, <1>3, <1>4

-----------------------------------------------------------------------------
(* Tables of menus, the stored one and those of InitFromFile.              *)

StoredIn(t) == { m \in Ids : t[m] # NoMenu }

Formed(t, n) ==
  /\ n \in 0 .. MaxMenus
  /\ t \in [Ids -> {NoMenu} \cup Rows]
  /\ \A m \in StoredIn(t) : m <= n /\ t[m].parent <= n

Agree(t) ==
  \A m \in StoredIn(t) :
    /\ t[m].parent # Root => t[m].parent \in StoredIn(t)
    /\ t[m].path = Under(t, t[m].parent)

LEMMA StoredTable ==
  /\ Stored = StoredIn(menus)
  /\ PathsAgree <=> Agree(menus)
  /\ TypeOK <=> /\ Formed(menus, issued)
                /\ resources \subseteq Ids \X Resources /\ roleMenus \subseteq Ids
BY DEF Stored, StoredIn, PathsAgree, Agree, TypeOK, Formed

LEMMA StoredTableNext ==
  /\ Stored' = StoredIn(menus')
  /\ PathsAgree' <=> Agree(menus')
  /\ TypeOK' <=> /\ Formed(menus', issued')
                 /\ resources' \subseteq Ids \X Resources /\ roleMenus' \subseteq Ids
BY DEF Stored, StoredIn, PathsAgree, Agree, TypeOK, Formed

LEMMA RowsAreRows ==
  ASSUME NEW t, NEW n, Formed(t, n), NEW m \in StoredIn(t)
  PROVE  /\ m \in Ids /\ t[m] \in Rows /\ t[m].code \in Codes
         /\ t[m].parent \in 0 .. MaxMenus /\ t[m].path \in Seq(Ids)
         /\ t[m].status \in Statuses
         /\ t[m] = Menu(t[m].code, t[m].parent, t[m].path, t[m].status)
<1>1. m \in Ids /\ t[m] \in Rows
  BY DEF Formed, StoredIn
<1> QED BY <1>1 DEF Rows, Menu

LEMMA MenusAreRows ==
  ASSUME NEW code \in Codes, NEW parent \in 0 .. MaxMenus, NEW path \in Seq(Ids),
         NEW status \in Statuses
  PROVE  /\ Menu(code, parent, path, status) \in Rows
         /\ Menu(code, parent, path, status) # NoMenu
         /\ Menu(code, parent, path, status).code = code
         /\ Menu(code, parent, path, status).parent = parent
         /\ Menu(code, parent, path, status).path = path
         /\ Menu(code, parent, path, status).status = status
BY MenuAssumption DEF Rows, Menu

(* The path under a stored menu, or under the root.                        *)
LEMMA UnderIsPath ==
  ASSUME NEW t, NEW n, Formed(t, n), NEW m, m = Root \/ m \in StoredIn(t)
  PROVE  /\ Under(t, m) \in Seq(Ids)
         /\ m # Root => /\ Under(t, m) = Append(t[m].path, m)
                        /\ Len(Under(t, m)) = Len(t[m].path) + 1
                        /\ Under(t, m)[Len(t[m].path) + 1] = m
                        /\ m \in Ids /\ t[m].path \in Seq(Ids)
         /\ m = Root => Under(t, m) = <<>>
<1>1. CASE m = Root
  BY <1>1, EmptySeq DEF Under
<1>2. CASE m # Root
  <2>1. m \in Ids /\ t[m].path \in Seq(Ids) /\ m \in StoredIn(t)
    BY <1>2, RowsAreRows
  <2> QED BY <1>2, <2>1, AppendProperties DEF Under
<1> QED BY <1>1, <1>2

LEMMA UnderMoves ==
  ASSUME NEW t, NEW n, Formed(t, n), NEW m \in StoredIn(t)
  PROVE  Len(t[m].path) \in Nat /\ Len(Under(t, m)) = Len(t[m].path) + 1 /\ m # Root
<1>1. m # Root
  BY MenuAssumption DEF StoredIn, Ids, Root
<1>2. Len(t[m].path) \in Nat
  BY RowsAreRows, LenProperties
<1> QED BY <1>1, <1>2, UnderIsPath

(* A new row at the end of a table.                                        *)
Added(t, n, code, parent, status) ==
  [t EXCEPT ![n + 1] = Menu(code, parent, Under(t, parent), status)]

LEMMA Inserted ==
  ASSUME NEW t, NEW n, Formed(t, n), n < MaxMenus,
         NEW parent, parent = Root \/ parent \in StoredIn(t),
         NEW code \in Codes, NEW status \in Statuses,
         NEW u, u = Added(t, n, code, parent, status)
  PROVE  /\ Formed(u, n + 1)
         /\ StoredIn(u) = StoredIn(t) \cup {n + 1} /\ n + 1 \notin StoredIn(t)
         /\ \A m \in StoredIn(t) : u[m] = t[m]
         /\ u[n + 1] = Menu(code, parent, Under(t, parent), status)
         /\ Agree(t) => Agree(u)
<1> DEFINE row == Menu(code, parent, Under(t, parent), status)
<1>1. n \in Nat /\ n + 1 \in Ids /\ t \in [Ids -> {NoMenu} \cup Rows] /\ MaxMenus \in Nat
  BY MenuAssumption DEF Formed, Ids
<1>2. parent \in 0 .. n
  BY <1>1 DEF Formed, StoredIn, Ids, Root
<1>3. /\ row \in Rows /\ row # NoMenu /\ row.parent = parent
      /\ row.path = Under(t, parent)
  <2>1. parent \in 0 .. MaxMenus
    BY <1>1, <1>2
  <2> QED BY <2>1, UnderIsPath, MenusAreRows
<1> HIDE DEF row
<1>4. u[n + 1] = row /\ \A m \in Ids \ {n + 1} : u[m] = t[m]
  BY <1>1 DEF row, Added
<1>5. n + 1 \notin StoredIn(t)
  BY <1>1 DEF Formed
<1>6. StoredIn(u) = StoredIn(t) \cup {n + 1} /\ \A m \in StoredIn(t) : u[m] = t[m]
  BY <1>1, <1>3, <1>4, <1>5 DEF StoredIn
<1>7. Formed(u, n + 1)
  <2>1. u \in [Ids -> {NoMenu} \cup Rows]
    BY <1>1, <1>3 DEF row, Added
  <2>2. n + 1 \in 0 .. MaxMenus
    BY <1>1
  <2>3. ASSUME NEW m \in StoredIn(u)
        PROVE  m <= n + 1 /\ u[m].parent <= n + 1
    <3>1. CASE m = n + 1
      BY <1>1, <1>2, <1>3, <1>4, <3>1
    <3>2. CASE m # n + 1
      <4>1. m \in StoredIn(t) /\ u[m] = t[m]
        BY <1>6, <3>2
      <4>2. m \in Nat /\ t[m].parent \in Nat
        BY <4>1, RowsAreRows DEF Ids
      <4>3. m <= n /\ t[m].parent <= n
        BY <4>1 DEF Formed
      <4> QED BY <1>1, <4>1, <4>2, <4>3
    <3> QED BY <3>1, <3>2
  <2> QED BY <2>1, <2>2, <2>3 DEF Formed
<1>8. ASSUME Agree(t)
      PROVE  Agree(u)
  <2>1. ASSUME NEW p, p = Root \/ p \in StoredIn(t)
        PROVE  Under(u, p) = Under(t, p)
    BY <1>6, <2>1 DEF Under
  <2>2. ASSUME NEW m \in StoredIn(u)
        PROVE  /\ u[m].parent # Root => u[m].parent \in StoredIn(u)
               /\ u[m].path = Under(u, u[m].parent)
    <3>1. CASE m = n + 1
      <4>1. u[m].parent = parent /\ u[m].path = Under(t, parent)
        BY <1>3, <1>4, <3>1
      <4>2. Under(u, parent) = Under(t, parent)
        BY <2>1
      <4> QED BY <1>6, <4>1, <4>2
    <3>2. CASE m # n + 1
      <4>1. m \in StoredIn(t) /\ u[m] = t[m]
        BY <1>6, <3>2
      <4> QED BY <1>6, <1>8, <2>1, <4>1 DEF Agree
    <3> QED BY <3>1, <3>2
  <2> QED BY <2>2 DEF Agree
<1> QED BY <1>4, <1>5, <1>6, <1>7, <1>8 DEF row

-----------------------------------------------------------------------------
(* The forms of menus.                                                     *)

LEMMA CreateKeeps ==
  ASSUME TypeOK, NEW code \in Codes, NEW parent, NEW rs \in SUBSET Resources,
         Create(code, parent, rs)
  PROVE  /\ TypeOK' /\ (PathsAgree => PathsAgree') /\ (NoLeftovers => NoLeftovers')
         /\ ~MovesIntoItself
<1>1. Formed(menus, issued) /\ (parent = Root \/ parent \in StoredIn(menus))
  BY StoredTable DEF Create
<1>2. PICK status \in Statuses :
        menus' = [menus EXCEPT ![issued'] =
                    Menu(code, parent, Under(menus, parent), status)]
  BY DEF Create
<1>3. issued < MaxMenus /\ issued' = issued + 1
  BY DEF Create
<1>4. /\ Formed(menus', issued')
      /\ StoredIn(menus') = StoredIn(menus) \cup {issued'}
      /\ Agree(menus) => Agree(menus')
      /\ \A m \in StoredIn(menus) : menus'[m] = menus[m]
  <2>1. menus' = Added(menus, issued, code, parent, status)
    BY <1>2, <1>3 DEF Added
  <2> QED BY <1>1, <1>3, <2>1, Inserted
<1>5. issued' \in Ids
  BY <1>4 DEF StoredIn
<1>6. resources' = resources \cup ({issued'} \X rs) /\ roleMenus' = roleMenus
  BY DEF Create
<1>7. resources' \subseteq Ids \X Resources /\ roleMenus' \subseteq Ids
  BY <1>5, <1>6, StoredTable
<1>8. NoLeftovers => NoLeftovers'
  BY <1>4, <1>6, StoredTable, StoredTableNext DEF NoLeftovers
<1>9. ~MovesIntoItself
  BY <1>4, StoredTable DEF MovesIntoItself
<1> QED BY <1>4, <1>7, <1>8, <1>9, StoredTable, StoredTableNext

(* What lies below a menu.                                                 *)
LEMMA BelowIsDeeper ==
  ASSUME TypeOK, NEW m \in Stored
  PROVE  /\ m \notin Below(m)
         /\ \A d \in Below(m) :
              /\ d \in Stored /\ menus[d].path \in Seq(Ids)
              /\ Len(Under(menus, m)) \in 0 .. Len(menus[d].path)
<1>1. Formed(menus, issued) /\ m \in StoredIn(menus)
  BY StoredTable
<1>2. Under(menus, m) \in Seq(Ids) /\ Len(Under(menus, m)) = Len(menus[m].path) + 1
      /\ Len(menus[m].path) \in Nat
  BY <1>1, UnderIsPath, UnderMoves
<1>3. ASSUME NEW d \in Below(m)
      PROVE  /\ d \in Stored /\ menus[d].path \in Seq(Ids)
             /\ Len(Under(menus, m)) \in 0 .. Len(menus[d].path)
  <2>1. d \in Stored /\ IsPrefix(Under(menus, m), menus[d].path)
    BY DEF Below
  <2>2. menus[d].path \in Seq(Ids) /\ Len(menus[d].path) \in Nat
    BY <1>1, <2>1, StoredTable, RowsAreRows, LenProperties
  <2>3. Len(Under(menus, m)) <= Len(menus[d].path)
    BY <1>2, <2>1, <2>2, PrefixByElement
  <2> QED BY <1>2, <2>1, <2>2, <2>3
<1>4. m \notin Below(m)
  BY <1>2, <1>3
<1> QED BY <1>3, <1>4

(* A child of a menu is below it, and below whatever the menu is below.    *)
LEMMA ChildrenAreBelow ==
  ASSUME TypeOK, PathsAgree, NEW m \in Stored, NEW d \in Stored
  PROVE  /\ menus[d].parent = m => menus[d].path = Under(menus, m)
         /\ d \in Below(m) <=> menus[d].parent \in Below(m) \cup {m}
<1>1. Formed(menus, issued) /\ m \in StoredIn(menus) /\ d \in StoredIn(menus)
  BY StoredTable
<1> DEFINE n == menus[d].parent
<1>2. menus[d].path = Under(menus, n) /\ (n # Root => n \in Stored)
  BY DEF PathsAgree
<1>3. Under(menus, m) \in Seq(Ids) /\ Len(Under(menus, m)) # 0 /\ m \in Ids
  BY <1>1, UnderIsPath, UnderMoves
<1>4. CASE n = Root
  <2>1. menus[d].path = <<>>
    BY <1>2, <1>4 DEF Under
  <2>2. /\ menus[d].path \in Seq(Ids) /\ Len(menus[d].path) = 0
        /\ Len(Under(menus, m)) \in Nat
    BY <1>3, <2>1, EmptySeq, LenProperties
  <2>3. ~IsPrefix(Under(menus, m), menus[d].path)
    BY <1>3, <2>2, PrefixByElement
  <2>4. Root \notin Stored
    BY MenuAssumption DEF Stored, Ids, Root
  <2>5. d \notin Below(m) /\ n \notin Below(m) \cup {m}
    BY <1>4, <2>1, <2>3, <2>4 DEF Below
  <2> QED BY <1>2, <2>5
<1>5. CASE n # Root
  <2>1. n \in Stored /\ n \in StoredIn(menus)
    BY <1>2, <1>5, StoredTable
  <2>2. menus[n].path \in Seq(Ids) /\ n \in Ids
        /\ menus[d].path = Append(menus[n].path, n)
    BY <1>1, <1>2, <1>5, <2>1, UnderIsPath
  <2>3. IsPrefix(Under(menus, m), menus[d].path)
          <=> IsPrefix(Under(menus, m), menus[n].path)
                \/ Under(menus, m) = menus[d].path
    BY <1>3, <2>2, PrefixOfAppend
  <2>4. Under(menus, m) = menus[d].path <=> m = n
    <3>1. Under(menus, m) = Append(menus[m].path, m) /\ menus[m].path \in Seq(Ids)
      BY <1>1, UnderMoves, UnderIsPath
    <3> QED BY <1>2, <1>3, <2>2, <3>1, AppendInjective
  <2> HIDE DEF n
  <2>5. d \in Below(m) <=> n \in Below(m) \/ n = m
    BY <2>1, <2>3, <2>4 DEF Below
  <2>6. n = m => menus[d].path = Under(menus, m)
    BY <1>2
  <2> QED BY <2>5, <2>6 DEF n
<1> QED BY <1>4, <1>5

(* Deletion takes the whole subtree, so nothing is left without a parent.  *)
LEMMA DeleteKeeps ==
  ASSUME TypeOK, NEW m \in Stored, Delete(m)
  PROVE  /\ TypeOK' /\ (PathsAgree => PathsAgree') /\ (NoLeftovers => NoLeftovers')
         /\ ~MovesIntoItself
<1>1. /\ menus' = [d \in Ids |-> IF d \in Deleted(m) THEN NoMenu ELSE menus[d]]
      /\ resources' = { x \in resources : x[1] \notin Deleted(m) }
      /\ roleMenus' = roleMenus \ Deleted(m) /\ issued' = issued
  BY DEF Delete
<1>2. Formed(menus, issued)
  BY StoredTable
<1>3. Stored' = Stored \ Deleted(m) /\ \A d \in Stored' : menus'[d] = menus[d]
  BY <1>1 DEF Stored
<1>4. TypeOK'
  <2>1. menus' \in [Ids -> {NoMenu} \cup Rows]
    BY <1>1, <1>2 DEF Formed
  <2> QED BY <1>1, <1>3, <2>1 DEF TypeOK
<1>5. NoLeftovers => NoLeftovers'
  BY <1>1, <1>3 DEF NoLeftovers
<1>6. ASSUME PathsAgree
      PROVE  PathsAgree'
  <2>1. ASSUME NEW d \in Stored'
        PROVE  /\ menus'[d].parent # Root => menus'[d].parent \in Stored'
               /\ menus'[d].path = Under(menus', menus'[d].parent)
    <3>1. d \in Stored /\ d \notin Below(m) /\ menus'[d] = menus[d]
      BY <1>3 DEF Deleted
    <3>2. menus[d].parent \notin Deleted(m)
      BY <1>6, <3>1, ChildrenAreBelow DEF Deleted
    <3>3. menus[d].parent # Root => menus[d].parent \in Stored'
      BY <1>3, <1>6, <3>1, <3>2 DEF PathsAgree
    <3>4. Under(menus', menus[d].parent) = Under(menus, menus[d].parent)
      BY <1>3, <3>3 DEF Under
    <3> QED BY <1>6, <3>1, <3>3, <3>4 DEF PathsAgree
  <2>2. \A d \in StoredIn(menus') :
          /\ menus'[d].parent # Root => menus'[d].parent \in StoredIn(menus')
          /\ menus'[d].path = Under(menus', menus'[d].parent)
    BY <2>1, StoredTableNext
  <2> QED BY <2>2, StoredTableNext DEF Agree
<1>7. ~MovesIntoItself
  BY <1>3 DEF MovesIntoItself
<1> QED BY <1>4, <1>5, <1>6, <1>7

-----------------------------------------------------------------------------
(* A move: what lies below the menu follows.                               *)

MovedPath(m, parent, d) ==
  IF parent # menus[m].parent
    THEN Append(Under(menus, parent), m)
           \o SubSeq(menus[d].path, Len(Under(menus, m)) + 1, Len(menus[d].path))
    ELSE menus[d].path

SpreadStatus(m, status, d) ==
  IF status # menus[m].status THEN status ELSE menus[d].status

RowPath(m, parent) ==
  IF parent = menus[m].parent THEN menus[m].path ELSE Under(menus, parent)

UpdatedTo(m, code, parent, status) ==
  menus' = Updated(m, Menu(code, parent, RowPath(m, parent), status), parent)

LEMMA UpdatedRows ==
  ASSUME TypeOK, NEW m \in Stored, NEW code \in Codes, NEW status \in Statuses,
         NEW parent, parent = Root \/ parent \in Stored,
         UpdatedTo(m, code, parent, status)
  PROVE  /\ Stored' = Stored
         /\ menus'[m].parent = parent /\ menus'[m].path = RowPath(m, parent)
         /\ menus'[m].status = status
         /\ parent \in 0 .. issued /\ RowPath(m, parent) \in Seq(Ids)
         /\ \A d \in Below(m) :
              /\ MovedPath(m, parent, d) \in Seq(Ids)
              /\ menus'[d].parent = menus[d].parent
              /\ menus'[d].path = MovedPath(m, parent, d)
              /\ menus'[d].status = SpreadStatus(m, status, d)
         /\ \A d \in Stored : d # m /\ d \notin Below(m) => menus'[d] = menus[d]
         /\ \A d \in Ids : d \notin Stored => menus'[d] = NoMenu
         /\ menus' \in [Ids -> {NoMenu} \cup Rows]
<1> DEFINE row == Menu(code, parent, RowPath(m, parent), status)
<1>1. Formed(menus, issued) /\ m \in StoredIn(menus) /\ issued \in Nat
      /\ (parent = Root \/ parent \in StoredIn(menus)) /\ MaxMenus \in Nat
      /\ issued <= MaxMenus
  BY StoredTable, MenuAssumption DEF Formed
<1>2. parent \in 0 .. issued /\ parent \in 0 .. MaxMenus
  BY <1>1 DEF Formed, StoredIn, Ids, Root
<1>3. RowPath(m, parent) \in Seq(Ids) /\ Under(menus, parent) \in Seq(Ids)
  BY <1>1, UnderIsPath, RowsAreRows DEF RowPath
<1>4. /\ row \in Rows /\ row # NoMenu
      /\ row.status = status /\ row.parent = parent /\ row.path = RowPath(m, parent)
  BY <1>2, <1>3, MenusAreRows
<1> HIDE DEF row
<1>5. menus' = [d \in Ids |->
                  IF d = m THEN row
                  ELSE IF d \in Below(m)
                  THEN [menus[d] EXCEPT !.status = SpreadStatus(m, status, d),
                                        !.path = MovedPath(m, parent, d)]
                  ELSE menus[d]]
  BY <1>4 DEF UpdatedTo, Updated, SpreadStatus, MovedPath, row
<1>6. m \in Ids /\ menus'[m] = row
  BY <1>1, <1>5 DEF StoredIn
<1>7. ASSUME NEW d \in Below(m)
      PROVE  /\ MovedPath(m, parent, d) \in Seq(Ids)
             /\ menus'[d].parent = menus[d].parent
             /\ menus'[d].path = MovedPath(m, parent, d)
             /\ menus'[d].status = SpreadStatus(m, status, d)
             /\ menus'[d] \in Rows /\ menus'[d] # NoMenu /\ d \in Stored
  <2>1. /\ d # m /\ d \in Stored /\ d \in Ids /\ menus[d].path \in Seq(Ids)
        /\ Len(Under(menus, m)) \in 0 .. Len(menus[d].path)
    BY BelowIsDeeper DEF Stored
  <2>2. /\ menus[d].code \in Codes /\ menus[d].parent \in 0 .. MaxMenus
        /\ menus[d].status \in Statuses
        /\ menus[d] = Menu(menus[d].code, menus[d].parent, menus[d].path, menus[d].status)
    BY <1>1, <2>1, StoredTable, RowsAreRows
  <2>3. MovedPath(m, parent, d) \in Seq(Ids)
    <3>1. Append(Under(menus, parent), m) \in Seq(Ids)
      BY <1>3, <1>6, AppendProperties
    <3> QED BY <2>1, <3>1, Rebased DEF MovedPath
  <2>4. SpreadStatus(m, status, d) \in Statuses
    BY <2>2 DEF SpreadStatus
  <2>5. menus'[d] = Menu(menus[d].code, menus[d].parent,
                         MovedPath(m, parent, d), SpreadStatus(m, status, d))
    BY <1>5, <2>1, <2>2 DEF Menu
  <2> QED BY <2>1, <2>2, <2>3, <2>4, <2>5, MenusAreRows
<1>8. \A d \in Ids : d # m /\ d \notin Below(m) => menus'[d] = menus[d]
  BY <1>5
<1>9. menus' \in [Ids -> {NoMenu} \cup Rows]
  <2>1. menus' = [d \in Ids |-> menus'[d]]
    BY <1>5
  <2>2. ASSUME NEW d \in Ids
        PROVE  menus'[d] \in {NoMenu} \cup Rows
    BY <1>1, <1>4, <1>6, <1>7, <1>8, <2>2 DEF Formed
  <2> QED BY <2>1, <2>2
<1>10. Stored' = Stored
  <2>1. \A d \in Ids : menus'[d] # NoMenu <=> menus[d] # NoMenu
    BY <1>1, <1>4, <1>6, <1>7, <1>8 DEF StoredIn, Stored
  <2> QED BY <2>1 DEF Stored
<1>11. \A d \in Ids : d \notin Stored => menus'[d] = NoMenu
  BY <1>10 DEF Stored
<1>12. \A d \in Stored : d # m /\ d \notin Below(m) => menus'[d] = menus[d]
  BY <1>8 DEF Stored
<1> QED BY <1>2, <1>3, <1>4, <1>6, <1>7, <1>9, <1>10, <1>11, <1>12

(* Whatever the parent, the columns keep their types.                      *)
LEMMA UpdatedTypes ==
  ASSUME TypeOK, NEW m \in Stored, NEW code \in Codes, NEW status \in Statuses,
         NEW parent, parent = Root \/ parent \in Stored,
         UpdatedTo(m, code, parent, status), issued' = issued
  PROVE  Formed(menus', issued')
<1>1. ASSUME NEW d \in Stored'
      PROVE  d <= issued /\ menus'[d].parent <= issued
  <2>1. d \in Stored /\ d <= issued /\ menus[d].parent <= issued
    BY <1>1, UpdatedRows DEF TypeOK
  <2>2. CASE d = m
    <3>1. menus'[d].parent = parent /\ parent \in 0 .. issued
      BY <2>2, UpdatedRows
    <3> QED BY <2>1, <3>1, StoredTable DEF Formed
  <2>3. CASE d # m
    <3>1. menus'[d].parent = menus[d].parent
      BY <2>1, <2>3, UpdatedRows
    <3> QED BY <2>1, <3>1
  <2> QED BY <2>2, <2>3
<1>2. menus' \in [Ids -> {NoMenu} \cup Rows]
  BY UpdatedRows
<1> QED BY <1>1, <1>2, StoredTable, StoredTableNext DEF Formed

(* The paths agree after a move, unless it put the menu under itself.      *)
LEMMA UpdatedAgrees ==
  ASSUME TypeOK, PathsAgree, NEW m \in Stored, NEW code \in Codes,
         NEW status \in Statuses,
         NEW parent, parent = Root \/ parent \in Stored,
         UpdatedTo(m, code, parent, status),
         parent # menus[m].parent => parent \notin Below(m) \cup {m}
  PROVE  PathsAgree'
<1>1. /\ Formed(menus, issued) /\ m \in StoredIn(menus)
      /\ parent = Root \/ parent \in StoredIn(menus)
      /\ \A d \in Stored : d \in StoredIn(menus)
  BY StoredTable
<1>2. parent \notin Below(m) \cup {m}
  <2>1. m \notin Below(m)
    BY BelowIsDeeper
  <2> QED BY <2>1, ChildrenAreBelow
<1>3. RowPath(m, parent) = Under(menus, parent)
  BY DEF RowPath, PathsAgree
<1>4. Root \notin Stored
  BY MenuAssumption DEF Stored, Ids, Root
<1>5. ASSUME NEW n, n = Root \/ n \in Stored, n \notin Below(m), n # m
      PROVE  Under(menus', n) = Under(menus, n)
  BY <1>4, <1>5, UpdatedRows DEF Under
<1>6. Under(menus', m) = Append(Under(menus, parent), m)
  <2>1. m # Root /\ menus'[m].path = Under(menus, parent)
    BY <1>3, <1>4, UpdatedRows
  <2> QED BY <2>1 DEF Under
<1>7. ASSUME NEW d \in Stored
      PROVE  /\ menus'[d].parent # Root => menus'[d].parent \in Stored
             /\ menus'[d].path = Under(menus', menus'[d].parent)
  <2>1. CASE d = m
    <3>1. menus'[d].parent = parent /\ menus'[d].path = Under(menus, parent)
      BY <1>3, <2>1, UpdatedRows
    <3> QED BY <1>2, <1>5, <3>1
  <2>2. CASE d # m /\ d \notin Below(m)
    <3>1. menus'[d] = menus[d]
      BY <2>2, UpdatedRows
    <3>2. menus[d].parent \notin Below(m) /\ menus[d].parent # m
      BY <2>2, ChildrenAreBelow
    <3>3. menus[d].parent = Root \/ menus[d].parent \in Stored
      BY DEF PathsAgree
    <3>4. menus[d].path = Under(menus, menus[d].parent)
      BY DEF PathsAgree
    <3> QED BY <1>5, <3>1, <3>2, <3>3, <3>4
  <2>3. CASE d \in Below(m)
    <3> DEFINE n == menus[d].parent
               old == Under(menus, m)
               new == Append(Under(menus, parent), m)
    <3>1. menus'[d].parent = n /\ menus'[d].path = MovedPath(m, parent, d)
      BY <2>3, UpdatedRows
    <3>2. n \in Below(m) \cup {m} /\ n \in Stored /\ n # Root
      BY <1>4, <2>3, ChildrenAreBelow, BelowIsDeeper
    <3>3. menus[d].path = Under(menus, n)
      BY DEF PathsAgree
    <3>4. menus[d].path = Append(menus[n].path, n)
          /\ menus[n].path \in Seq(Ids) /\ n \in Ids
      BY <1>1, <3>2, <3>3, UnderIsPath
    <3>5. new \in Seq(Ids) /\ old \in Seq(Ids)
      <4>1. Under(menus, parent) \in Seq(Ids) /\ m \in Ids /\ old \in Seq(Ids)
        BY <1>1, UnderIsPath DEF StoredIn
      <4> QED BY <4>1, AppendProperties
    <3>6. MovedPath(m, parent, d) = Under(menus', n)
      <4>1. CASE parent = menus[m].parent
        <5>1. MovedPath(m, parent, d) = Under(menus, n)
          BY <3>3, <4>1 DEF MovedPath
        <5>2. menus'[n].path = menus[n].path
          <6>1. CASE n = m
            BY <4>1, <6>1, UpdatedRows DEF RowPath
          <6>2. CASE n \in Below(m)
            BY <4>1, <6>2, UpdatedRows DEF MovedPath
          <6> QED BY <3>2, <6>1, <6>2
        <5> QED BY <3>2, <5>1, <5>2 DEF Under
      <4>2. CASE parent # menus[m].parent
        <5>1. MovedPath(m, parent, d)
                = new \o SubSeq(menus[d].path, Len(old) + 1, Len(menus[d].path))
          BY <4>2 DEF MovedPath
        <5>2. CASE n = m
          <6>1. menus[d].path = old
            BY <3>3, <5>2
          <6> HIDE DEF new, old
          <6>2. new \o SubSeq(old, Len(old) + 1, Len(old)) = new
            <7>1. Len(old) \in 0 .. Len(old)
              BY <3>5, LenProperties
            <7> QED BY <3>5, <7>1, Rebased
          <6> QED BY <1>6, <5>1, <5>2, <6>1, <6>2 DEF new
        <5>3. CASE n \in Below(m)
          <6>1. Len(old) \in 0 .. Len(menus[n].path)
            BY <5>3, BelowIsDeeper
          <6> HIDE DEF new, old, n
          <6>2. Len(menus[d].path) = Len(menus[n].path) + 1
            BY <3>4, AppendProperties
          <6>3. new \o SubSeq(Append(menus[n].path, n), Len(old) + 1, Len(menus[n].path) + 1)
                  = Append(new \o SubSeq(menus[n].path, Len(old) + 1, Len(menus[n].path)), n)
            <7> DEFINE t == menus[n].path
            <7>1. t \in Seq(Ids) /\ Len(old) \in 0 .. Len(t)
              BY <3>4, <6>1
            <7> HIDE DEF t
            <7>2. new \in Seq(Ids) /\ old \in Seq(Ids)
              BY <3>5
            <7>3. \A x \in Ids :
                    new \o SubSeq(Append(t, x), Len(old) + 1, Len(t) + 1)
                      = Append(new \o SubSeq(t, Len(old) + 1, Len(t)), x)
              BY <7>1, <7>2, Rebased
            <7> QED BY <3>4, <7>3 DEF t
          <6>4. menus'[n].path
                  = new \o SubSeq(menus[n].path, Len(old) + 1, Len(menus[n].path))
            <7>1. menus'[n].path = MovedPath(m, parent, n)
              BY <5>3, UpdatedRows
            <7> QED BY <4>2, <7>1 DEF MovedPath, new, old
          <6>5. Under(menus', n) = Append(menus'[n].path, n)
            BY <3>2 DEF Under
          <6> QED BY <3>4, <5>1, <6>2, <6>3, <6>4, <6>5
        <5> QED BY <3>2, <5>2, <5>3
      <4> QED BY <4>1, <4>2
    <3> QED BY <3>1, <3>2, <3>6
  <2> QED BY <2>1, <2>2, <2>3
<1>8. Stored' = Stored
  BY UpdatedRows
<1>9. Agree(menus')
  BY <1>7, <1>8, StoredTableNext DEF Agree
<1> QED BY <1>9, StoredTableNext

(* Under itself, a menu is given a path that no row's parent agrees with.   *)
LEMMA SelfMovesDisagree ==
  ASSUME TypeOK, NEW m \in Stored, NEW code \in Codes, NEW status \in Statuses,
         NEW parent \in Below(m) \cup {m}, parent # menus[m].parent,
         UpdatedTo(m, code, parent, status)
  PROVE  ~PathsAgree'
<1> SUFFICES ASSUME PathsAgree' PROVE FALSE
  OBVIOUS
<1>1. /\ parent \in Stored /\ Formed(menus, issued)
      /\ m \in StoredIn(menus) /\ parent \in StoredIn(menus)
  BY StoredTable DEF Below
<1>2. /\ Under(menus, parent) \in Seq(Ids) /\ m \in Ids /\ parent # Root
      /\ Len(Under(menus, parent)) = Len(menus[parent].path) + 1
      /\ Len(menus[parent].path) \in Nat
  BY <1>1, UnderIsPath, UnderMoves
<1>3. /\ Stored' = Stored /\ menus'[m].parent = parent
      /\ menus'[m].path = Under(menus, parent)
      /\ parent \in Below(m) => menus'[parent].path = MovedPath(m, parent, parent)
      /\ menus' \in [Ids -> {NoMenu} \cup Rows]
  BY <1>1, UpdatedRows DEF RowPath
<1>4. menus'[parent].path \in Seq(Ids) /\ Len(menus'[parent].path) \in Nat
  <2>1. menus'[parent] \in Rows
    BY <1>1, <1>3 DEF Stored
  <2> QED BY <2>1, LenProperties DEF Rows
<1>5. Under(menus, parent) = Append(menus'[parent].path, parent)
  BY <1>1, <1>2, <1>3 DEF PathsAgree, Under
<1>6. Len(menus'[parent].path) = Len(menus[parent].path)
  <2>1. parent \in Ids
    BY <1>1 DEF StoredIn
  <2>2. Len(Under(menus, parent)) = Len(menus'[parent].path) + 1
    BY <1>4, <1>5, <2>1, AppendProperties
  <2> QED BY <1>2, <1>4, <2>2
<1>7. CASE parent = m
  <2>1. Len(menus'[parent].path) = Len(menus[parent].path) + 1
    BY <1>2, <1>3, <1>7
  <2> QED BY <1>2, <1>6, <2>1
<1>8. CASE parent \in Below(m)
  <2> DEFINE new  == Append(Under(menus, parent), m)
             rest == SubSeq(menus[parent].path, Len(Under(menus, m)) + 1,
                            Len(menus[parent].path))
  <2>1. new \in Seq(Ids) /\ Len(new) = Len(menus[parent].path) + 2
    BY <1>2, AppendProperties
  <2>2. rest \in Seq(Ids) /\ Len(rest) \in Nat
    <3>1. /\ menus[parent].path \in Seq(Ids)
          /\ Len(Under(menus, m)) \in 0 .. Len(menus[parent].path)
      BY <1>8, BelowIsDeeper
    <3> QED BY <3>1, Rest, LenProperties
  <2>3. menus'[parent].path = new \o rest
    BY <1>3, <1>8 DEF MovedPath
  <2> HIDE DEF new, rest
  <2>4. Len(new \o rest) = Len(new) + Len(rest)
    BY <2>1, <2>2, ConcatProperties
  <2> QED BY <1>2, <1>6, <2>1, <2>2, <2>3, <2>4
<1> QED BY <1>7, <1>8

LEMMA UpdateKeeps ==
  ASSUME TypeOK, NEW m \in Stored, NEW code \in Codes, NEW parent,
         NEW status \in Statuses, NEW rs \in SUBSET Resources,
         Update(m, code, parent, status, rs)
  PROVE  /\ TypeOK'
         /\ PathsAgree => (PathsAgree' <=> ~MovesIntoItself)
         /\ NoLeftovers => NoLeftovers'
<1>1. /\ parent = Root \/ parent \in Stored
      /\ UpdatedTo(m, code, parent, status)
      /\ issued' = issued /\ roleMenus' = roleMenus
      /\ resources' = { x \in resources : x[1] # m } \cup ({m} \X rs)
  BY DEF Update, UpdatedTo, RowPath
<1>2. Stored' = Stored /\ menus'[m].parent = parent
  BY <1>1, UpdatedRows
<1>3. Formed(menus', issued')
  BY <1>1, UpdatedTypes
<1>4. TypeOK'
  <2>1. m \in Ids
    BY DEF Stored
  <2>2. resources' \subseteq Ids \X Resources /\ roleMenus' \subseteq Ids
    BY <1>1, <2>1 DEF TypeOK
  <2> QED BY <1>3, <2>2, StoredTableNext
<1>5. NoLeftovers => NoLeftovers'
  BY <1>1, <1>2 DEF NoLeftovers
<1>6. MovesIntoItself
        <=> parent # menus[m].parent /\ parent \in Below(m) \cup {m}
  <2>1. \A d \in Stored : d # m => menus'[d].parent = menus[d].parent
    BY <1>1, UpdatedRows
  <2> QED BY <1>2, <2>1 DEF MovesIntoItself
<1>7. ASSUME PathsAgree, ~MovesIntoItself
      PROVE  PathsAgree'
  BY <1>1, <1>6, <1>7, UpdatedAgrees
<1>8. ASSUME MovesIntoItself
      PROVE  ~PathsAgree'
  BY <1>1, <1>6, <1>8, SelfMovesDisagree
<1> QED BY <1>4, <1>5, <1>7, <1>8

-----------------------------------------------------------------------------
(* The menu file: its items one after the other.                           *)

Items == Len(MenuFile)

DoneSteps(tables, f, n) ==
  f = [k \in 0 .. n |->
         IF k = 0 THEN [tables EXCEPT !.at = <<>>] ELSE CreateItem(f[k-1], MenuFile[k])]

(* The tables after each item exist: a least number of items for which     *)
(* they do not would follow one for which they do.                         *)
LEMMA StepsExist ==
  ASSUME NEW tables, NEW n \in Nat
  PROVE  \E f : DoneSteps(tables, f, n)
<1> DEFINE T == { k \in Nat : ~\E f : DoneSteps(tables, f, k) }
           base == [tables EXCEPT !.at = <<>>]
<1>1. SUFFICES ASSUME T # {} PROVE FALSE
  OBVIOUS
<1>2. PICK l \in T : \A k \in T : l <= k
  <2>1. T \in SUBSET Nat
    OBVIOUS
  <2> HIDE DEF T
  <2> QED BY <1>1, <2>1, LeastNumber
<1>3. l \in Nat /\ ~\E f : DoneSteps(tables, f, l)
  OBVIOUS
<1>4. CASE l = 0
  <2> DEFINE g == [k \in 0 .. 0 |-> base]
  <2>1. g = [k \in 0 .. 0 |->
               IF k = 0 THEN base ELSE CreateItem(g[k-1], MenuFile[k])]
    OBVIOUS
  <2> QED BY <1>3, <1>4, <2>1 DEF DoneSteps
<1>5. CASE l # 0
  <2>1. l - 1 \in Nat /\ ~(l <= l - 1)
    BY <1>3, <1>5
  <2>2. PICK f : DoneSteps(tables, f, l - 1)
    BY <1>2, <2>1
  <2>3. \A k \in 0 .. l - 1 :
          f[k] = IF k = 0 THEN base ELSE CreateItem(f[k-1], MenuFile[k])
    BY <2>2 DEF DoneSteps
  <2> DEFINE g == [k \in 0 .. l |->
                     IF k = l THEN CreateItem(f[l-1], MenuFile[l]) ELSE f[k]]
  <2>4. ASSUME NEW k \in 0 .. l
        PROVE  g[k] = IF k = 0 THEN base ELSE CreateItem(g[k-1], MenuFile[k])
    <3>1. CASE k = l
      <4>1. l - 1 \in 0 .. l /\ l - 1 # l /\ k # 0
        BY <1>3, <1>5, <3>1
      <4>2. g[k - 1] = f[l - 1]
        BY <3>1, <4>1
      <4> QED BY <3>1, <4>1, <4>2
    <3>2. CASE k # l
      <4>1. k \in 0 .. l - 1 /\ g[k] = f[k]
        BY <1>3, <3>2
      <4>2. CASE k = 0
        BY <2>3, <4>1, <4>2
      <4>3. CASE k # 0
        <5>1. k - 1 \in 0 .. l /\ k - 1 # l
          BY <1>3, <4>1, <4>3
        <5>2. g[k - 1] = f[k - 1]
          BY <5>1
        <5> QED BY <2>3, <4>1, <4>3, <5>2
      <4> QED BY <4>2, <4>3
    <3> QED BY <3>1, <3>2
  <2>5. g = [k \in 0 .. l |-> g[k]]
    OBVIOUS
  <2> HIDE DEF g
  <2>6. DoneSteps(tables, g, l)
    BY <2>4, <2>5 DEF DoneSteps
  <2> QED BY <1>3, <2>6
<1> QED BY <1>4, <1>5

LEMMA ItemsAreCounted == Items \in Nat
BY FileAssumption, LenProperties DEF Items

LEMMA BatchSteps ==
  ASSUME NEW tables
  PROVE  \E f : /\ f[0] = [tables EXCEPT !.at = <<>>]
                /\ \A k \in 1 .. Items : f[k] = CreateItem(f[k-1], MenuFile[k])
                /\ CreateInBatch(tables) = f[Items]
<1>1. Items \in Nat
  BY ItemsAreCounted
<1> DEFINE f == CHOOSE f : DoneSteps(tables, f, Items)
<1>2. DoneSteps(tables, f, Items)
  BY <1>1, StepsExist
<1>3. CreateInBatch(tables) = f[Items]
  BY DEF CreateInBatch, DoneSteps, Items
<1> HIDE DEF f
<1>4. /\ f[0] = [tables EXCEPT !.at = <<>>]
      /\ \A k \in 1 .. Items : f[k] = CreateItem(f[k-1], MenuFile[k])
  BY <1>1, <1>2 DEF DoneSteps
<1> QED BY <1>1, <1>3, <1>4

LEMMA FirstIsLeast ==
  ASSUME NEW ms \in SUBSET Ids, NEW l \in ms
  PROVE  /\ First(ms) \in ms /\ \A n \in ms : First(ms) <= n
         /\ (\A n \in ms : l <= n) => First(ms) = l
<1>1. ms \in SUBSET Nat /\ ms # {}
  BY DEF Ids
<1>2. \E m \in ms : \A n \in ms : m <= n
  BY <1>1, LeastNumber
<1>3. First(ms) \in ms /\ \A n \in ms : First(ms) <= n
  BY <1>2 DEF First
<1>4. ASSUME \A n \in ms : l <= n
      PROVE  First(ms) = l
  <2>1. First(ms) \in Nat /\ l \in Nat
    BY <1>1, <1>3
  <2>2. First(ms) <= l /\ l <= First(ms)
    BY <1>3, <1>4
  <2> QED BY <2>1, <2>2
<1> QED BY <1>3, <1>4

(* What the file has brought in after its first k items.                   *)
AtRow(acc, i) == ParentRow(acc, MenuFile[i])

Settled(acc, i) ==
  LET named == ByCodeAndParent(acc.menus, MenuFile[i].code, AtRow(acc, i))
  IN  /\ acc.at[i] \in named /\ First(named) = acc.at[i]
      /\ acc.menus[acc.at[i]].status = StatusOf(MenuFile[i])
      /\ {acc.at[i]} \X MenuFile[i].resources \subseteq acc.resources

Owned(rs, t) == \A x \in rs : x[1] \in StoredIn(t)

BroughtIn(tables, acc, k) ==
  /\ acc = [menus |-> acc.menus, resources |-> acc.resources,
            issued |-> acc.issued, at |-> acc.at]
  /\ Formed(acc.menus, acc.issued) /\ acc.issued <= tables.issued + k
  /\ acc.resources \subseteq Ids \X Resources
  /\ acc.at \in Seq(Ids) /\ Len(acc.at) = k
  /\ StoredIn(tables.menus) \subseteq StoredIn(acc.menus)
  /\ Agree(tables.menus) => Agree(acc.menus)
  /\ Owned(tables.resources, tables.menus) => Owned(acc.resources, acc.menus)
  /\ \A m \in StoredIn(tables.menus) : acc.menus[m].parent = tables.menus[m].parent
  /\ \A i \in 1 .. k : Settled(acc, i)
  /\ \A i, j \in 1 .. k : acc.at[i] = acc.at[j] => i = j

(* Giving a status to a menu that is there.                                *)
WithStatus(t, m, status) == [t EXCEPT ![m] = [t[m] EXCEPT !.status = status]]

LEMMA StatusKeeps ==
  ASSUME NEW t, NEW n, Formed(t, n), NEW m \in StoredIn(t), NEW status \in Statuses,
         NEW u, u = WithStatus(t, m, status)
  PROVE  /\ Formed(u, n) /\ StoredIn(u) = StoredIn(t)
         /\ \A d \in StoredIn(t) : /\ u[d].code = t[d].code /\ u[d].parent = t[d].parent
                                   /\ u[d].path = t[d].path
                                   /\ d # m => u[d] = t[d]
         /\ u[m].status = status
         /\ \A code, parent : ByCodeAndParent(u, code, parent) = ByCodeAndParent(t, code, parent)
         /\ Agree(t) => Agree(u)
         /\ t[m].status = status => u = t
<1> DEFINE row == [t[m] EXCEPT !.status = status]
<1>1. m \in Ids /\ t \in [Ids -> {NoMenu} \cup Rows] /\ n \in 0 .. MaxMenus
  BY DEF Formed, StoredIn
<1>2. /\ t[m].code \in Codes /\ t[m].parent \in 0 .. MaxMenus
      /\ t[m].path \in Seq(Ids) /\ t[m].status \in Statuses
      /\ t[m] = Menu(t[m].code, t[m].parent, t[m].path, t[m].status)
  BY RowsAreRows
<1>3. row = Menu(t[m].code, t[m].parent, t[m].path, status)
  BY <1>2 DEF Menu
<1> HIDE DEF row
<1>4. /\ row \in Rows /\ row # NoMenu /\ row.code = t[m].code
      /\ row.parent = t[m].parent /\ row.path = t[m].path /\ row.status = status
  BY <1>2, <1>3, MenusAreRows
<1>5. u[m] = row /\ (\A d \in Ids : d # m => u[d] = t[d])
      /\ u \in [Ids -> {NoMenu} \cup Rows]
  BY <1>1, <1>4 DEF WithStatus, row
<1>6. StoredIn(u) = StoredIn(t)
  BY <1>1, <1>4, <1>5 DEF StoredIn
<1>7. ASSUME NEW d \in StoredIn(t)
      PROVE  /\ u[d].code = t[d].code /\ u[d].parent = t[d].parent
             /\ u[d].path = t[d].path /\ (d # m => u[d] = t[d])
  BY <1>4, <1>5 DEF StoredIn
<1>8. Formed(u, n)
  BY <1>1, <1>5, <1>6, <1>7 DEF Formed
<1>9. ASSUME NEW code, NEW parent
      PROVE  ByCodeAndParent(u, code, parent) = ByCodeAndParent(t, code, parent)
  BY <1>6, <1>7 DEF ByCodeAndParent, StoredIn
<1>10. ASSUME Agree(t)
       PROVE  Agree(u)
  <2>1. \A p : p = Root \/ p \in StoredIn(t) => Under(u, p) = Under(t, p)
    BY <1>7 DEF Under
  <2> QED BY <1>6, <1>7, <1>10, <2>1 DEF Agree
<1>11. ASSUME t[m].status = status
       PROVE  u = t
  <2>1. row = t[m]
    BY <1>2, <1>3, <1>11
  <2> QED BY <1>1, <2>1 DEF WithStatus, row
<1>12. u[m].status = status
  BY <1>4, <1>5
<1> QED BY <1>6, <1>7, <1>8, <1>9, <1>10, <1>11, <1>12

(* A row added changes what one code names under one parent only.          *)
LEMMA AddedNamed ==
  ASSUME NEW t, NEW n, Formed(t, n), n < MaxMenus,
         NEW parent, parent = Root \/ parent \in StoredIn(t),
         NEW code \in Codes, NEW status \in Statuses,
         NEW u, u = Added(t, n, code, parent, status)
  PROVE  /\ ByCodeAndParent(u, code, parent) = ByCodeAndParent(t, code, parent) \cup {n + 1}
         /\ \A c, p : c # code \/ p # parent =>
              ByCodeAndParent(u, c, p) = ByCodeAndParent(t, c, p)
         /\ u[n + 1].status = status
<1>1. /\ StoredIn(u) = StoredIn(t) \cup {n + 1} /\ n + 1 \notin StoredIn(t)
      /\ \A m \in StoredIn(t) : u[m] = t[m]
      /\ u[n + 1] = Menu(code, parent, Under(t, parent), status)
  BY Inserted
<1>2. u[n + 1].code = code /\ u[n + 1].parent = parent /\ u[n + 1].status = status
  BY <1>1 DEF Menu
<1>3. \A c, p : /\ ByCodeAndParent(u, c, p) =
                     { m \in StoredIn(u) : u[m].code = c /\ u[m].parent = p }
                /\ ByCodeAndParent(t, c, p) =
                     { m \in StoredIn(t) : t[m].code = c /\ t[m].parent = p }
  BY DEF ByCodeAndParent, StoredIn
<1>4. ASSUME NEW c, NEW p
      PROVE  \A m : m \in ByCodeAndParent(u, c, p) <=>
                      \/ m \in ByCodeAndParent(t, c, p)
                      \/ m = n + 1 /\ c = code /\ p = parent
  BY <1>1, <1>2, <1>3
<1>5. ByCodeAndParent(u, code, parent) = ByCodeAndParent(t, code, parent) \cup {n + 1}
  BY <1>4
<1>6. ASSUME NEW c, NEW p, c # code \/ p # parent
      PROVE  ByCodeAndParent(u, c, p) = ByCodeAndParent(t, c, p)
  BY <1>4, <1>6
<1> QED BY <1>2, <1>5, <1>6

(* The row an item stands under: the root, or what an item before brought. *)
LEMMA ItemsAreItems ==
  ASSUME NEW i \in 1 .. Items
  PROVE  /\ MenuFile[i].code \in Codes /\ MenuFile[i].resources \in SUBSET Resources
         /\ StatusOf(MenuFile[i]) \in Statuses
         /\ MenuFile[i].parent # 0 => MenuFile[i].parent \in 1 .. i - 1
<1>1. MenuFile[i] \in [code : Codes, parent : Nat, status : Statuses \cup {""},
                        resources : SUBSET Resources]
  BY FileAssumption, ElementOfSeq DEF Items
<1>2. MenuFile[i].parent < i
  <2>1. DOMAIN MenuFile = 1 .. Items
    BY FileAssumption, LenProperties DEF Items
  <2> QED BY <2>1, FileAssumption
<1>3. i \in Nat
  BY ItemsAreCounted
<1>4. MenuFile[i].parent \in Nat
  BY <1>1
<1>5. MenuFile[i].parent # 0 => MenuFile[i].parent \in 1 .. i - 1
  BY <1>2, <1>3, <1>4
<1>6. StatusOf(MenuFile[i]) \in Statuses
  BY <1>1, MenuAssumption DEF StatusOf
<1> QED BY <1>1, <1>5, <1>6

(* No other item of the same parent has its code.                          *)
LEMMA ItemsDiffer ==
  ASSUME NEW i \in 1 .. Items, NEW j \in 1 .. Items,
         MenuFile[i].code = MenuFile[j].code, MenuFile[i].parent = MenuFile[j].parent
  PROVE  i = j
<1>1. DOMAIN MenuFile = 1 .. Items
  BY FileAssumption, LenProperties DEF Items
<1> QED BY <1>1, FileAssumption

LEMMA ParentIsThere ==
  ASSUME NEW tables, NEW acc, NEW k \in 0 .. Items - 1, BroughtIn(tables, acc, k)
  PROVE  ParentRow(acc, MenuFile[k + 1]) \in {Root} \cup StoredIn(acc.menus)
<1>1. k \in Nat /\ k + 1 \in 1 .. Items /\ (k + 1) - 1 = k
  BY ItemsAreCounted
<1>2. MenuFile[k + 1].parent # 0 => MenuFile[k + 1].parent \in 1 .. k
  BY <1>1, ItemsAreItems
<1>3. \A i \in 1 .. k : acc.at[i] \in StoredIn(acc.menus)
  BY DEF BroughtIn, Settled, ByCodeAndParent, StoredIn
<1> QED BY <1>2, <1>3 DEF ParentRow

(* One item more, when it leaves what the others brought in.               *)
LEMMA OneMore ==
  ASSUME NEW tables, NEW acc, NEW k \in 0 .. Items - 1, BroughtIn(tables, acc, k),
         NEW new, NEW id,
         new = [menus |-> new.menus, resources |-> new.resources,
                issued |-> new.issued, at |-> new.at],
         new.resources = acc.resources \cup ({id} \X MenuFile[k + 1].resources),
         new.at = Append(acc.at, id),
         Formed(new.menus, new.issued), new.issued <= tables.issued + (k + 1),
         StoredIn(acc.menus) \subseteq StoredIn(new.menus), id \in StoredIn(new.menus),
         Agree(acc.menus) => Agree(new.menus),
         \A m \in StoredIn(acc.menus) : new.menus[m].parent = acc.menus[m].parent,
         new.menus[id].status = StatusOf(MenuFile[k + 1]),
         id \in ByCodeAndParent(new.menus, MenuFile[k + 1].code, AtRow(acc, k + 1)),
         First(ByCodeAndParent(new.menus, MenuFile[k + 1].code, AtRow(acc, k + 1))) = id,
         \A i \in 1 .. k :
           /\ ByCodeAndParent(new.menus, MenuFile[i].code, AtRow(acc, i))
                = ByCodeAndParent(acc.menus, MenuFile[i].code, AtRow(acc, i))
           /\ new.menus[acc.at[i]].status = StatusOf(MenuFile[i])
           /\ acc.at[i] # id
  PROVE  BroughtIn(tables, new, k + 1)
<1>1. k \in Nat /\ k + 1 \in 1 .. Items /\ Items \in Nat
  BY ItemsAreCounted
<1>2. id \in Ids
  BY DEF StoredIn
<1>3. acc.at \in Seq(Ids) /\ Len(acc.at) = k
  BY DEF BroughtIn
<1>4. /\ new.at \in Seq(Ids) /\ Len(new.at) = k + 1 /\ new.at[k + 1] = id
      /\ \A i \in 1 .. k : new.at[i] = acc.at[i]
  BY <1>2, <1>3, AppendProperties
<1>5. ASSUME NEW i \in 1 .. k + 1
      PROVE  AtRow(new, i) = AtRow(acc, i)
  <2>1. i \in 1 .. Items /\ i - 1 <= k /\ i \in Nat
    BY <1>1
  <2>2. MenuFile[i].parent # 0 => MenuFile[i].parent \in 1 .. i - 1
    BY <2>1, ItemsAreItems
  <2>3. MenuFile[i].parent # 0 => MenuFile[i].parent \in 1 .. k
    BY <1>1, <2>1, <2>2
  <2> QED BY <1>4, <2>3 DEF AtRow, ParentRow
<1>6. MenuFile[k + 1].resources \subseteq Resources
  BY <1>1, ItemsAreItems
<1>7. new.resources \subseteq Ids \X Resources
  BY <1>2, <1>6 DEF BroughtIn
<1>8. Owned(tables.resources, tables.menus) => Owned(new.resources, new.menus)
  BY DEF BroughtIn, Owned
<1>9. ASSUME NEW i \in 1 .. k + 1
      PROVE  Settled(new, i)
  <2>1. CASE i = k + 1
    BY <1>4, <1>5, <2>1 DEF Settled
  <2>2. CASE i # k + 1
    <3>1. i \in 1 .. k
      BY <1>1, <2>2
    <3>2. Settled(acc, i)
      BY <3>1 DEF BroughtIn
    <3>3. AtRow(new, i) = AtRow(acc, i) /\ new.at[i] = acc.at[i]
      BY <1>4, <1>5, <3>1
    <3> QED BY <3>1, <3>2, <3>3 DEF Settled
  <2> QED BY <2>1, <2>2
<1>10. /\ StoredIn(tables.menus) \subseteq StoredIn(new.menus)
       /\ Agree(tables.menus) => Agree(new.menus)
       /\ \A m \in StoredIn(tables.menus) : new.menus[m].parent = tables.menus[m].parent
  BY DEF BroughtIn
<1>11. ASSUME NEW i \in 1 .. k + 1, NEW j \in 1 .. k + 1, new.at[i] = new.at[j]
       PROVE  i = j
  <2>1. i \in 1 .. k \/ i = k + 1
    BY <1>1
  <2>2. j \in 1 .. k \/ j = k + 1
    BY <1>1
  <2>3. \A n, l \in 1 .. k : acc.at[n] = acc.at[l] => n = l
    BY DEF BroughtIn
  <2> QED BY <1>4, <1>11, <2>1, <2>2, <2>3
<1> QED BY <1>4, <1>7, <1>8, <1>9, <1>10, <1>11 DEF BroughtIn

LEMMA ItemBroughtIn ==
  ASSUME NEW tables, NEW acc, NEW k \in 0 .. Items - 1, BroughtIn(tables, acc, k),
         tables.issued \in Nat, tables.issued + Items <= MaxMenus
  PROVE  BroughtIn(tables, CreateItem(acc, MenuFile[k + 1]), k + 1)
<1> DEFINE item   == MenuFile[k + 1]
           parent == ParentRow(acc, item)
           found  == ByCodeAndParent(acc.menus, item.code, parent)
           id     == IF found # {} THEN First(found) ELSE acc.issued + 1
           new    == CreateItem(acc, item)
<1>1. /\ Items \in Nat /\ k \in Nat /\ k + 1 <= Items /\ MaxMenus \in Nat
      /\ acc.issued \in Nat /\ acc.issued <= tables.issued + k
      /\ k + 1 \in 1 .. Items
  BY ItemsAreCounted, MenuAssumption DEF BroughtIn, Formed
<1>2. /\ item.code \in Codes
      /\ parent = Root \/ parent \in StoredIn(acc.menus)
  BY <1>1, ItemsAreItems, ParentIsThere
<1>3. /\ new.menus = IF found # {} THEN WithStatus(acc.menus, id, StatusOf(item))
                     ELSE Added(acc.menus, acc.issued, item.code, parent, StatusOf(item))
      /\ new.resources = acc.resources \cup ({id} \X item.resources)
      /\ new.issued = IF found # {} THEN acc.issued ELSE id
      /\ new.at = Append(acc.at, id)
      /\ new = [menus |-> new.menus, resources |-> new.resources,
                issued |-> new.issued, at |-> new.at]
  BY DEF CreateItem, BringIn, WithStatus, Added
<1>4. parent = AtRow(acc, k + 1)
  BY DEF AtRow
<1> HIDE DEF new
<1>5. ASSUME NEW i \in 1 .. k
      PROVE  /\ acc.at[i] \in ByCodeAndParent(acc.menus, MenuFile[i].code, AtRow(acc, i))
             /\ acc.at[i] \in StoredIn(acc.menus)
             /\ acc.menus[acc.at[i]].status = StatusOf(MenuFile[i])
             /\ acc.menus[acc.at[i]].code = MenuFile[i].code
             /\ acc.menus[acc.at[i]].parent = AtRow(acc, i)
  BY DEF BroughtIn, Settled, ByCodeAndParent, StoredIn
<1>6. /\ new.resources = acc.resources \cup ({id} \X MenuFile[k + 1].resources)
      /\ new.at = Append(acc.at, id)
      /\ new = [menus |-> new.menus, resources |-> new.resources,
                issued |-> new.issued, at |-> new.at]
  BY <1>3
<1>7. StatusOf(item) \in Statuses
  BY <1>1, ItemsAreItems
<1>8. ASSUME NEW i \in 1 .. k, AtRow(acc, i) = AtRow(acc, k + 1)
       PROVE  MenuFile[i].code # MenuFile[k + 1].code
  <2> DEFINE p == MenuFile[i].parent
             q == MenuFile[k + 1].parent
  <2>1. i \in 1 .. Items /\ i # k + 1 /\ i \in Nat /\ i <= k
    BY <1>1
  <2>2. (p # 0 => p \in 1 .. k) /\ (q # 0 => q \in 1 .. k)
    <3>1. p # 0 => p \in 1 .. i - 1
      BY <2>1, ItemsAreItems
    <3>2. q # 0 => q \in 1 .. (k + 1) - 1
      BY <1>1, ItemsAreItems
    <3> QED BY <1>1, <2>1, <3>1, <3>2
  <2>3. \A j \in 1 .. k : acc.at[j] # Root
    BY <1>5, MenuAssumption DEF StoredIn, Ids, Root
  <2>4. /\ AtRow(acc, i) = IF p = 0 THEN Root ELSE acc.at[p]
        /\ AtRow(acc, k + 1) = IF q = 0 THEN Root ELSE acc.at[q]
    BY DEF AtRow, ParentRow
  <2>5. \A j, l \in 1 .. k : acc.at[j] = acc.at[l] => j = l
    BY DEF BroughtIn
  <2> HIDE DEF p, q
  <2>6. p = q
    BY <1>8, <2>2, <2>3, <2>4, <2>5
  <2> QED BY <1>1, <2>1, <2>6, ItemsDiffer DEF p, q
<1> HIDE DEF item, parent
<1>9. ASSUME found # {}
      PROVE  BroughtIn(tables, new, k + 1)
  <2>1. found \in SUBSET Ids /\ found \in SUBSET StoredIn(acc.menus)
    BY DEF ByCodeAndParent, StoredIn
  <2>2. id = First(found) /\ id \in found /\ id \in StoredIn(acc.menus)
    BY <1>9, <2>1, FirstIsLeast
  <2>3. new.menus = WithStatus(acc.menus, id, StatusOf(item)) /\ new.issued = acc.issued
    BY <1>3, <1>9
  <2>4. found = ByCodeAndParent(acc.menus, item.code, parent)
    OBVIOUS
  <2> HIDE DEF id, found
  <2>5. /\ Formed(new.menus, new.issued) /\ StoredIn(new.menus) = StoredIn(acc.menus)
        /\ \A c, p : ByCodeAndParent(new.menus, c, p) = ByCodeAndParent(acc.menus, c, p)
        /\ Agree(acc.menus) => Agree(new.menus)
        /\ new.menus[id].status = StatusOf(item)
        /\ \A d \in StoredIn(acc.menus) : /\ d # id => new.menus[d] = acc.menus[d]
                                          /\ new.menus[d].parent = acc.menus[d].parent
    BY <1>7, <2>2, <2>3, StatusKeeps DEF BroughtIn
  <2>6. new.issued <= tables.issued + (k + 1)
    BY <1>1, <2>3
  <2>7. /\ id \in ByCodeAndParent(new.menus, item.code, parent)
        /\ First(ByCodeAndParent(new.menus, item.code, parent)) = id
    BY <2>2, <2>4, <2>5
  <2>8. ASSUME NEW i \in 1 .. k
        PROVE  /\ ByCodeAndParent(new.menus, MenuFile[i].code, AtRow(acc, i))
                    = ByCodeAndParent(acc.menus, MenuFile[i].code, AtRow(acc, i))
               /\ new.menus[acc.at[i]].status = StatusOf(MenuFile[i])
               /\ acc.at[i] # id
    <3>1. acc.menus[id].code = item.code /\ acc.menus[id].parent = parent
      BY <2>2, <2>4 DEF ByCodeAndParent
    <3>2. acc.at[i] # id
      BY <1>4, <1>5, <1>8, <3>1 DEF item
    <3> QED BY <1>5, <2>5, <3>2
  <2>9. id \in StoredIn(new.menus) /\ StoredIn(acc.menus) \subseteq StoredIn(new.menus)
    BY <2>2, <2>5
  <2> QED BY <1>4, <1>6, <2>5, <2>6, <2>7, <2>8, <2>9, OneMore DEF item
<1>10. ASSUME found = {}
      PROVE  BroughtIn(tables, new, k + 1)
  <2>1. id = acc.issued + 1 /\ new.issued = acc.issued + 1
        /\ new.menus = Added(acc.menus, acc.issued, item.code, parent, StatusOf(item))
    BY <1>3, <1>10
  <2>2. ByCodeAndParent(acc.menus, item.code, parent) = {}
    BY <1>10
  <2> HIDE DEF id, found
  <2>3. acc.issued < MaxMenus
    BY <1>1
  <2>4. Formed(acc.menus, acc.issued)
    BY DEF BroughtIn
  <2>5. /\ Formed(new.menus, acc.issued + 1)
        /\ StoredIn(new.menus) = StoredIn(acc.menus) \cup {acc.issued + 1}
        /\ acc.issued + 1 \notin StoredIn(acc.menus)
        /\ \A m \in StoredIn(acc.menus) : new.menus[m] = acc.menus[m]
        /\ Agree(acc.menus) => Agree(new.menus)
    BY <1>2, <1>7, <2>1, <2>3, <2>4, Inserted
  <2>6. /\ ByCodeAndParent(new.menus, item.code, parent) = {id}
        /\ \A c, p : c # item.code \/ p # parent =>
             ByCodeAndParent(new.menus, c, p) = ByCodeAndParent(acc.menus, c, p)
        /\ new.menus[id].status = StatusOf(item)
    <3> DEFINE status == StatusOf(item)
    <3>1. /\ status \in Statuses
          /\ new.menus = Added(acc.menus, acc.issued, item.code, parent, status)
      BY <1>7, <2>1
    <3> HIDE DEF status
    <3>2. /\ ByCodeAndParent(new.menus, item.code, parent)
               = ByCodeAndParent(acc.menus, item.code, parent) \cup {acc.issued + 1}
          /\ \A c, p : c # item.code \/ p # parent =>
               ByCodeAndParent(new.menus, c, p) = ByCodeAndParent(acc.menus, c, p)
          /\ new.menus[acc.issued + 1].status = status
      BY <1>2, <2>3, <2>4, <3>1, AddedNamed
    <3> QED BY <2>1, <2>2, <3>2 DEF status
  <2>7. First({id}) = id
    BY DEF First
  <2>8. new.issued <= tables.issued + (k + 1)
    BY <1>1, <2>1
  <2>9. ASSUME NEW i \in 1 .. k
        PROVE  /\ ByCodeAndParent(new.menus, MenuFile[i].code, AtRow(acc, i))
                    = ByCodeAndParent(acc.menus, MenuFile[i].code, AtRow(acc, i))
               /\ new.menus[acc.at[i]].status = StatusOf(MenuFile[i])
               /\ acc.at[i] # id
    <3>1. MenuFile[i].code # item.code \/ AtRow(acc, i) # parent
      BY <1>5, <2>2
    <3>2. acc.at[i] # id
      BY <1>5, <2>1, <2>5
    <3> QED BY <1>5, <2>5, <2>6, <3>1, <3>2
  <2>10. id \in StoredIn(new.menus) /\ Formed(new.menus, new.issued)
    BY <2>1, <2>5
  <2>11. /\ id \in ByCodeAndParent(new.menus, item.code, parent)
         /\ First(ByCodeAndParent(new.menus, item.code, parent)) = id
    BY <2>6, <2>7
  <2>12. /\ StoredIn(acc.menus) \subseteq StoredIn(new.menus)
         /\ \A m \in StoredIn(acc.menus) : new.menus[m].parent = acc.menus[m].parent
    BY <2>5
  <2> QED BY <1>4, <1>6, <2>5, <2>6, <2>8, <2>9, <2>10, <2>11, <2>12, OneMore DEF item
<1> QED BY <1>9, <1>10 DEF new, item

(* After the last item; and a second time nothing is left to do.           *)
LEMMA FileBroughtIn ==
  ASSUME NEW tables,
         tables = [menus |-> tables.menus, resources |-> tables.resources,
                   issued |-> tables.issued, at |-> tables.at],
         Formed(tables.menus, tables.issued), FileFits(tables),
         tables.resources \subseteq Ids \X Resources
  PROVE  BroughtIn(tables, CreateInBatch(tables), Items)
<1>1. PICK f : /\ f[0] = [tables EXCEPT !.at = <<>>]
               /\ \A k \in 1 .. Items : f[k] = CreateItem(f[k-1], MenuFile[k])
               /\ CreateInBatch(tables) = f[Items]
  BY BatchSteps
<1>2. Items \in Nat /\ tables.issued \in Nat /\ tables.issued + Items <= MaxMenus
  BY ItemsAreCounted DEF Formed, FileFits, Items
<1>3. BroughtIn(tables, f[0], 0)
  <2>1. /\ f[0].menus = tables.menus /\ f[0].resources = tables.resources
        /\ f[0].issued = tables.issued /\ f[0].at = <<>>
        /\ f[0] = [menus |-> f[0].menus, resources |-> f[0].resources,
                   issued |-> f[0].issued, at |-> f[0].at]
    BY <1>1
  <2>2. <<>> \in Seq(Ids) /\ Len(<<>>) = 0
    BY EmptySeq
  <2>3. f[0].issued <= tables.issued + 0
    BY <1>2, <2>1
  <2>4. f[0].at \in Seq(Ids) /\ Len(f[0].at) = 0
    BY <2>1, <2>2
  <2>5. /\ \A i \in 1 .. 0 : Settled(f[0], i)
        /\ \A i, j \in 1 .. 0 : f[0].at[i] = f[0].at[j] => i = j
    OBVIOUS
  <2> QED BY <2>1, <2>3, <2>4, <2>5 DEF BroughtIn
<1> DEFINE T == { k \in 0 .. Items : ~BroughtIn(tables, f[k], k) }
<1>4. ASSUME T # {}
      PROVE  FALSE
  <2>1. PICK l \in T : \A k \in T : l <= k
    <3>1. T \in SUBSET Nat
      BY <1>2
    <3> HIDE DEF T
    <3> QED BY <1>4, <3>1, LeastNumber
  <2>2. l \in 0 .. Items /\ ~BroughtIn(tables, f[l], l)
    OBVIOUS
  <2>3. l # 0
    BY <1>3, <2>2
  <2>4. l - 1 \in 0 .. Items - 1 /\ l - 1 \in 0 .. Items /\ ~(l <= l - 1)
        /\ (l - 1) + 1 = l /\ l \in 1 .. Items
    BY <1>2, <2>2, <2>3
  <2>5. BroughtIn(tables, f[l - 1], l - 1)
    BY <2>1, <2>4
  <2>6. BroughtIn(tables, CreateItem(f[l - 1], MenuFile[(l - 1) + 1]), (l - 1) + 1)
    BY <1>2, <2>4, <2>5, ItemBroughtIn
  <2> QED BY <1>1, <2>2, <2>4, <2>6
<1>5. Items \in 0 .. Items
  BY <1>2
<1> QED BY <1>1, <1>4, <1>5

LEMMA ReadingAgain ==
  ASSUME NEW tables, NEW once, BroughtIn(tables, once, Items)
  PROVE  CreateInBatch(once) = once
<1>1. PICK f : /\ f[0] = [once EXCEPT !.at = <<>>]
               /\ \A k \in 1 .. Items : f[k] = CreateItem(f[k-1], MenuFile[k])
               /\ CreateInBatch(once) = f[Items]
  BY BatchSteps
<1>2. /\ Items \in Nat /\ once.at \in Seq(Ids) /\ Len(once.at) = Items
      /\ once = [menus |-> once.menus, resources |-> once.resources,
                 issued |-> once.issued, at |-> once.at]
      /\ Formed(once.menus, once.issued)
  BY ItemsAreCounted DEF BroughtIn
<1> DEFINE Same(k) ==
      /\ f[k].menus = once.menus /\ f[k].resources = once.resources
      /\ f[k].issued = once.issued
      /\ f[k] = [menus |-> f[k].menus, resources |-> f[k].resources,
                 issued |-> f[k].issued, at |-> f[k].at]
      /\ f[k].at \in Seq(Ids) /\ Len(f[k].at) = k
      /\ \A i \in 1 .. k : f[k].at[i] = once.at[i]
    T == { k \in 0 .. Items : ~Same(k) }
<1>3. Same(0)
  <2>1. /\ f[0].menus = once.menus /\ f[0].resources = once.resources
        /\ f[0].issued = once.issued /\ f[0].at = <<>>
        /\ f[0] = [menus |-> f[0].menus, resources |-> f[0].resources,
                   issued |-> f[0].issued, at |-> f[0].at]
    BY <1>1, <1>2
  <2>2. <<>> \in Seq(Ids) /\ Len(<<>>) = 0
    BY EmptySeq
  <2>3. f[0].at \in Seq(Ids) /\ Len(f[0].at) = 0
    BY <2>1, <2>2
  <2> QED BY <2>1, <2>3
<1>4. ASSUME NEW k \in 1 .. Items, Same(k - 1)
      PROVE  Same(k)
  <2> DEFINE acc    == f[k - 1]
             item   == MenuFile[k]
             parent == ParentRow(once, item)
             found  == ByCodeAndParent(once.menus, item.code, parent)
             id     == once.at[k]
  <2>1. k \in Nat /\ k \in 1 .. Items /\ k - 1 \in Nat
    BY <1>2
  <2>2. ParentRow(acc, item) = parent
    <3>1. item.parent # 0 => item.parent \in 1 .. k - 1
      BY ItemsAreItems
    <3> QED BY <1>4, <3>1 DEF ParentRow
  <2>3. /\ id \in found /\ First(found) = id
        /\ once.menus[id].status = StatusOf(item)
        /\ {id} \X item.resources \subseteq once.resources
    BY <2>1 DEF BroughtIn, Settled, AtRow
  <2>4. id \in StoredIn(once.menus) /\ id \in Ids
    BY <2>3 DEF ByCodeAndParent, StoredIn
  <2>5. WithStatus(once.menus, id, StatusOf(item)) = once.menus
    BY <1>2, <2>3, <2>4, ItemsAreItems, StatusKeeps
  <2>6. f[k] = BringIn(acc, item, parent, StatusOf(item))
    BY <1>1, <2>1, <2>2 DEF CreateItem
  <2>7. acc.menus = once.menus /\ acc.resources = once.resources /\ acc.issued = once.issued
        /\ acc.at \in Seq(Ids) /\ Len(acc.at) = k - 1
        /\ \A i \in 1 .. k - 1 : acc.at[i] = once.at[i]
    BY <1>4
  <2>8. found # {}
    BY <2>3
  <2> HIDE DEF acc, item, parent, id
  <2>9. f[k] = [menus |-> WithStatus(once.menus, id, StatusOf(item)),
                resources |-> once.resources \cup ({id} \X item.resources),
                issued |-> once.issued, at |-> Append(acc.at, id)]
    BY <2>3, <2>6, <2>7, <2>8 DEF BringIn, WithStatus
  <2>10. once.resources \cup ({id} \X item.resources) = once.resources
    BY <2>3
  <2>11. f[k] = [menus |-> once.menus, resources |-> once.resources,
                 issued |-> once.issued, at |-> Append(acc.at, id)]
    BY <2>5, <2>9, <2>10
  <2>12. /\ f[k].menus = once.menus /\ f[k].resources = once.resources
         /\ f[k].issued = once.issued /\ f[k].at = Append(acc.at, id)
         /\ f[k] = [menus |-> f[k].menus, resources |-> f[k].resources,
                    issued |-> f[k].issued, at |-> f[k].at]
    BY <2>11
  <2>13. /\ Append(acc.at, id) \in Seq(Ids) /\ Len(Append(acc.at, id)) = (k - 1) + 1
         /\ \A i \in 1 .. k - 1 : Append(acc.at, id)[i] = acc.at[i]
         /\ Append(acc.at, id)[(k - 1) + 1] = id
    BY <2>4, <2>7, AppendProperties
  <2>14. /\ Len(Append(acc.at, id)) = k /\ Append(acc.at, id)[k] = id
         /\ \A i \in 1 .. k : i = k \/ i \in 1 .. k - 1
    BY <2>1, <2>13
  <2>15. \A i \in 1 .. k : Append(acc.at, id)[i] = once.at[i]
    BY <2>7, <2>13, <2>14 DEF id
  <2> QED BY <2>12, <2>13, <2>14, <2>15
<1> HIDE DEF Same
<1>5. ASSUME T # {}
      PROVE  FALSE
  <2>1. PICK l \in T : \A k \in T : l <= k
    <3>1. T \in SUBSET Nat
      BY <1>2
    <3> HIDE DEF T
    <3> QED BY <1>5, <3>1, LeastNumber
  <2>2. l \in 0 .. Items /\ ~Same(l) /\ l # 0
    BY <1>3
  <2>3. l - 1 \in 0 .. Items /\ ~(l <= l - 1) /\ l \in 1 .. Items
    BY <1>2, <2>2
  <2>4. Same(l - 1)
    BY <2>1, <2>3
  <2> QED BY <1>4, <2>2, <2>3, <2>4
<1>6. Same(Items)
  <2>1. Items \in 0 .. Items
    BY <1>2
  <2> QED BY <1>5, <2>1
<1>7. f[Items].at = once.at
  BY <1>2, <1>6, SeqEqual DEF Same
<1>8. f[Items] = once
  BY <1>2, <1>6, <1>7 DEF Same
<1> QED BY <1>1, <1>8

LEMMA TablesBroughtIn ==
  ASSUME TypeOK, FileFits(Tables)
  PROVE  BroughtIn(Tables, CreateInBatch(Tables), Items)
<1>1. /\ Tables = [menus |-> Tables.menus, resources |-> Tables.resources,
                   issued |-> Tables.issued, at |-> Tables.at]
      /\ Tables.menus = menus /\ Tables.issued = issued /\ Tables.resources = resources
  BY DEF Tables
<1>2. Formed(menus, issued) /\ resources \subseteq Ids \X Resources
  BY StoredTable
<1>3. Formed(Tables.menus, Tables.issued) /\ Tables.resources \subseteq Ids \X Resources
  BY <1>1, <1>2
<1> HIDE DEF Tables
<1> QED BY <1>1, <1>3, FileBroughtIn

LEMMA InitFromFileKeeps ==
  ASSUME TypeOK, InitFromFile
  PROVE  /\ TypeOK' /\ (PathsAgree => PathsAgree') /\ (NoLeftovers => NoLeftovers')
         /\ ~MovesIntoItself
<1> DEFINE t == CreateInBatch(Tables)
<1>1. /\ menus' = t.menus /\ resources' = t.resources /\ issued' = t.issued
      /\ roleMenus' = roleMenus /\ FileFits(Tables)
  BY DEF InitFromFile
<1>2. BroughtIn(Tables, t, Items)
  BY <1>1, TablesBroughtIn
<1>3. Tables.menus = menus /\ Tables.resources = resources
  BY DEF Tables
<1> HIDE DEF t
<1>4. /\ Formed(menus', issued') /\ resources' \subseteq Ids \X Resources
      /\ StoredIn(menus) \subseteq StoredIn(menus')
      /\ Agree(menus) => Agree(menus')
      /\ Owned(resources, menus) => Owned(resources', menus')
      /\ \A m \in StoredIn(menus) : menus'[m].parent = menus[m].parent
  BY <1>1, <1>2, <1>3 DEF BroughtIn
<1>5. TypeOK' /\ (PathsAgree => PathsAgree')
  BY <1>1, <1>4, StoredTable, StoredTableNext
<1>6. NoLeftovers => NoLeftovers'
  BY <1>1, <1>4, StoredTable, StoredTableNext DEF NoLeftovers, Owned
<1>7. ~MovesIntoItself
  BY <1>4, StoredTable DEF MovesIntoItself
<1> QED BY <1>5, <1>6, <1>7

LEMMA FileIsIdempotent == ASSUME TypeOK PROVE FileIdempotent
<1>1. ASSUME FileFits(Tables)
      PROVE  CreateInBatch(CreateInBatch(Tables)) = CreateInBatch(Tables)
  BY <1>1, TablesBroughtIn, ReadingAgain
<1> QED BY <1>1 DEF FileIdempotent

-----------------------------------------------------------------------------
(* What a search shows.                                                    *)

(* The elements of a path are the menus above, each at its depth.          *)
Depth(m) == Len(menus[m].path)

PathElement(m, i) ==
  LET a == menus[m].path[i]
  IN  /\ a \in Stored /\ Depth(a) = i - 1
      /\ menus[a].parent = IF i = 1 THEN Root ELSE menus[m].path[i - 1]

LEMMA PathOfMenu ==
  ASSUME TypeOK, PathsAgree, NEW m \in Stored
  PROVE  /\ menus[m].path \in Seq(Ids) /\ Depth(m) \in Nat
         /\ menus[m].parent = Root <=> Depth(m) = 0
         /\ menus[m].parent # Root =>
              LET n == menus[m].parent
              IN  /\ n \in Stored /\ Depth(n) = Depth(m) - 1
                  /\ \A i \in 1 .. Depth(n) : menus[m].path[i] = menus[n].path[i]
                  /\ menus[m].path[Depth(m)] = n
<1> DEFINE n == menus[m].parent
<1>1. Formed(menus, issued) /\ m \in StoredIn(menus)
  BY StoredTable
<1>2. menus[m].path \in Seq(Ids) /\ Depth(m) \in Nat
  BY <1>1, RowsAreRows, LenProperties DEF Depth
<1>3. menus[m].path = Under(menus, n) /\ (n # Root => n \in Stored)
  BY DEF PathsAgree
<1>4. CASE n = Root
  <2>1. menus[m].path = <<>>
    BY <1>3, <1>4 DEF Under
  <2>2. Depth(m) = 0
    BY <2>1, EmptySeq DEF Depth
  <2> QED BY <1>2, <1>4, <2>2
<1>5. CASE n # Root
  <2>1. n \in Stored /\ n \in StoredIn(menus)
    BY <1>3, <1>5, StoredTable
  <2>2. menus[n].path \in Seq(Ids) /\ n \in Ids
        /\ menus[m].path = Append(menus[n].path, n)
    BY <1>1, <1>3, <1>5, <2>1, UnderIsPath
  <2> HIDE DEF n
  <2>3. /\ Depth(m) = Depth(n) + 1 /\ Depth(n) \in Nat
        /\ \A i \in 1 .. Depth(n) : menus[m].path[i] = menus[n].path[i]
        /\ menus[m].path[Depth(n) + 1] = n
    BY <2>2, AppendProperties, LenProperties DEF Depth
  <2>4. Depth(m) # 0 /\ Depth(n) = Depth(m) - 1
    BY <2>3
  <2> QED BY <1>2, <1>5, <2>1, <2>3, <2>4 DEF n
<1> QED BY <1>4, <1>5

LEMMA PathElements ==
  ASSUME TypeOK, PathsAgree
  PROVE  \A m \in Stored : \A i \in 1 .. Depth(m) : PathElement(m, i)
<1> DEFINE Wrong(m) == \E i \in 1 .. Depth(m) : ~PathElement(m, i)
           T == { Depth(m) : m \in { x \in Stored : Wrong(x) } }
<1>1. SUFFICES ASSUME T # {} PROVE FALSE
  OBVIOUS
<1>2. T \in SUBSET Nat
  BY PathOfMenu
<1>3. PICK l \in T : \A k \in T : l <= k
  <2> HIDE DEF T
  <2> QED BY <1>1, <1>2, LeastNumber
<1>4. PICK m \in Stored : Wrong(m) /\ \A x \in Stored : Wrong(x) => Depth(m) <= Depth(x)
  BY <1>3
<1>5. PICK i \in 1 .. Depth(m) : ~PathElement(m, i)
  BY <1>4
<1> DEFINE n == menus[m].parent
<1>6. /\ Depth(m) \in Nat /\ i \in Nat /\ i >= 1 /\ i <= Depth(m) /\ Depth(m) # 0
  BY PathOfMenu, <1>5
<1>7. /\ n # Root /\ n \in Stored /\ Depth(n) = Depth(m) - 1
      /\ \A j \in 1 .. Depth(n) : menus[m].path[j] = menus[n].path[j]
      /\ menus[m].path[Depth(m)] = n
  BY <1>6, PathOfMenu
<1> HIDE DEF n
<1>8. Depth(n) \in Nat /\ ~(Depth(m) <= Depth(n)) /\ ~Wrong(n)
  BY <1>4, <1>6, <1>7
<1>9. CASE i = Depth(m)
  <2>1. menus[n].parent = IF i = 1 THEN Root ELSE menus[m].path[i - 1]
    <3>1. CASE i = 1
      BY <1>7, <1>9, <3>1, PathOfMenu
    <3>2. CASE i # 1
      <4>1. Depth(n) = i - 1 /\ i - 1 \in 1 .. Depth(n) /\ Depth(n) # 0
        BY <1>6, <1>7, <1>9, <3>2
      <4>2. menus[n].path[Depth(n)] = menus[n].parent
        BY <1>7, <4>1, PathOfMenu
      <4> QED BY <1>7, <3>2, <4>1, <4>2
    <3> QED BY <3>1, <3>2
  <2> QED BY <1>5, <1>7, <1>9, <2>1 DEF PathElement
<1>10. CASE i # Depth(m)
  <2>1. i \in 1 .. Depth(n)
    BY <1>6, <1>7, <1>10
  <2>2. PathElement(n, i)
    BY <1>8, <2>1
  <2>3. menus[m].path[i] = menus[n].path[i]
    BY <1>7, <2>1
  <2>4. i # 1 => menus[m].path[i - 1] = menus[n].path[i - 1]
    <3>1. i # 1 => i - 1 \in 1 .. Depth(n)
      BY <1>6, <1>8, <2>1
    <3> QED BY <1>7, <3>1
  <2> QED BY <1>5, <2>2, <2>3, <2>4 DEF PathElement
<1> QED BY <1>9, <1>10

(* No path is longer than there are menus: its elements differ.            *)
LEMMA DepthsAreBounded ==
  ASSUME TypeOK, PathsAgree, NEW m \in Stored
  PROVE  Depth(m) <= MaxMenus
<1> DEFINE p == menus[m].path
           L == Depth(m)
<1>1. p \in Seq(Ids) /\ L \in Nat /\ DOMAIN p = 1 .. L /\ p \in [1 .. L -> Ids]
  BY PathOfMenu, LenProperties DEF Depth
<1>2. ASSUME NEW i \in 1 .. L, NEW j \in 1 .. L, p[i] = p[j]
      PROVE  i = j
  <2>1. Depth(p[i]) = i - 1 /\ Depth(p[j]) = j - 1
    BY PathElements DEF PathElement
  <2>2. i - 1 = j - 1 /\ i \in Int /\ j \in Int
    BY <1>1, <1>2, <2>1
  <2> QED BY <2>2
<1> HIDE DEF p
<1>3. p \in Injection(1 .. L, Ids)
  BY <1>1, <1>2 DEF Injection, IsInjective
<1>4. IsFiniteSet(Ids) /\ Cardinality(Ids) = MaxMenus
  <2>1. MaxMenus \in Nat
    BY MenuAssumption
  <2> QED BY <2>1, FS_Interval DEF Ids
<1>5. Cardinality(1 .. L) = L
  BY <1>1, FS_Interval
<1> QED BY <1>3, <1>4, <1>5, FS_Injection

(* ToTree, level by level.                                                 *)
LevelSteps(ms, f, n) ==
  f = [k \in 0 .. n |->
         IF k = 0 THEN { m \in ms : menus[m].parent = Root }
         ELSE f[k-1] \cup { m \in ms : menus[m].parent \in f[k-1] }]

LEMMA LevelsExist ==
  ASSUME NEW ms, NEW n \in Nat
  PROVE  \E f : LevelSteps(ms, f, n)
<1> DEFINE T == { k \in Nat : ~\E f : LevelSteps(ms, f, k) }
           base == { m \in ms : menus[m].parent = Root }
           More(level) == level \cup { m \in ms : menus[m].parent \in level }
<1>1. SUFFICES ASSUME T # {} PROVE FALSE
  OBVIOUS
<1>2. PICK l \in T : \A k \in T : l <= k
  <2>1. T \in SUBSET Nat
    OBVIOUS
  <2> HIDE DEF T
  <2> QED BY <1>1, <2>1, LeastNumber
<1>3. l \in Nat /\ ~\E f : LevelSteps(ms, f, l)
  OBVIOUS
<1>4. \A f, k : LevelSteps(ms, f, k)
                  <=> f = [i \in 0 .. k |-> IF i = 0 THEN base ELSE More(f[i-1])]
  BY DEF LevelSteps
<1> HIDE DEF base, More
<1>5. CASE l = 0
  <2> DEFINE g == [k \in 0 .. 0 |-> base]
  <2>1. g = [k \in 0 .. 0 |-> IF k = 0 THEN base ELSE More(g[k-1])]
    OBVIOUS
  <2> QED BY <1>3, <1>4, <1>5, <2>1
<1>6. CASE l # 0
  <2>1. l - 1 \in Nat /\ ~(l <= l - 1)
    BY <1>3, <1>6
  <2>2. PICK f : LevelSteps(ms, f, l - 1)
    BY <1>2, <2>1
  <2>3. \A k \in 0 .. l - 1 : f[k] = IF k = 0 THEN base ELSE More(f[k-1])
    BY <1>4, <2>2
  <2> DEFINE g == [k \in 0 .. l |-> IF k = l THEN More(f[l-1]) ELSE f[k]]
  <2>4. ASSUME NEW k \in 0 .. l
        PROVE  g[k] = IF k = 0 THEN base ELSE More(g[k-1])
    <3>1. CASE k = l
      <4>1. l - 1 \in 0 .. l /\ l - 1 # l /\ k # 0
        BY <1>3, <1>6, <3>1
      <4>2. g[k - 1] = f[l - 1]
        BY <3>1, <4>1
      <4> QED BY <3>1, <4>1, <4>2
    <3>2. CASE k # l
      <4>1. k \in 0 .. l - 1 /\ g[k] = f[k]
        BY <1>3, <3>2
      <4>2. CASE k = 0
        BY <2>3, <4>1, <4>2
      <4>3. CASE k # 0
        <5>1. k - 1 \in 0 .. l /\ k - 1 # l
          BY <1>3, <4>1, <4>3
        <5>2. g[k - 1] = f[k - 1]
          BY <5>1
        <5> QED BY <2>3, <4>1, <4>3, <5>2
      <4> QED BY <4>2, <4>3
    <3> QED BY <3>1, <3>2
  <2>5. g = [k \in 0 .. l |-> g[k]]
    OBVIOUS
  <2> HIDE DEF g
  <2>6. g = [k \in 0 .. l |-> IF k = 0 THEN base ELSE More(g[k-1])]
    BY <2>4, <2>5
  <2>7. LevelSteps(ms, g, l)
    BY <1>4, <2>6
  <2> QED BY <1>3, <2>7
<1> QED BY <1>5, <1>6

LEMMA TreeLevels ==
  ASSUME NEW ms
  PROVE  \E f : /\ f[0] = { m \in ms : menus[m].parent = Root }
                /\ \A k \in 1 .. MaxMenus :
                     f[k] = f[k-1] \cup { m \in ms : menus[m].parent \in f[k-1] }
                /\ ToTree(ms) = f[MaxMenus]
<1>1. MaxMenus \in Nat
  BY MenuAssumption
<1> DEFINE f == CHOOSE f : LevelSteps(ms, f, MaxMenus)
<1>2. LevelSteps(ms, f, MaxMenus)
  BY <1>1, LevelsExist
<1>3. ToTree(ms) = f[MaxMenus]
  BY DEF ToTree, LevelSteps
<1> HIDE DEF f
<1>4. /\ f[0] = { m \in ms : menus[m].parent = Root }
      /\ \A k \in 1 .. MaxMenus :
           f[k] = f[k-1] \cup { m \in ms : menus[m].parent \in f[k-1] }
  BY <1>1, <1>2 DEF LevelSteps
<1> QED BY <1>3, <1>4

(* A set of menus that holds the parents of its members loses none.        *)
LEMMA ClosedSetsAreShown ==
  ASSUME TypeOK, PathsAgree, NEW ms \in SUBSET Stored,
         \A m \in ms : menus[m].parent # Root => menus[m].parent \in ms
  PROVE  ms \subseteq ToTree(ms)
<1>1. PICK f : /\ f[0] = { m \in ms : menus[m].parent = Root }
               /\ \A k \in 1 .. MaxMenus :
                    f[k] = f[k-1] \cup { m \in ms : menus[m].parent \in f[k-1] }
               /\ ToTree(ms) = f[MaxMenus]
  BY TreeLevels
<1>2. MaxMenus \in Nat
  BY MenuAssumption
<1> DEFINE Reached(k) == \A m \in ms : Depth(m) <= k => m \in f[k]
           T == { k \in 0 .. MaxMenus : ~Reached(k) }
<1>3. Reached(0)
  <2>1. ASSUME NEW m \in ms, Depth(m) <= 0
        PROVE  m \in f[0]
    <3>1. Depth(m) \in Nat /\ m \in Stored
      BY PathOfMenu
    <3>2. Depth(m) = 0
      BY <2>1, <3>1
    <3> QED BY <1>1, <3>1, <3>2, PathOfMenu
  <2> QED BY <2>1
<1>4. ASSUME NEW k \in 1 .. MaxMenus, Reached(k - 1)
      PROVE  Reached(k)
  <2>1. ASSUME NEW m \in ms, Depth(m) <= k
        PROVE  m \in f[k]
    <3>1. m \in Stored /\ Depth(m) \in Nat /\ k \in Nat
      BY <1>2, PathOfMenu
    <3>2. CASE Depth(m) <= k - 1
      BY <1>1, <1>4, <3>2
    <3>3. CASE Depth(m) = k
      <4>1. Depth(m) # 0
        BY <1>2, <3>1, <3>3
      <4>2. menus[m].parent \in ms /\ Depth(menus[m].parent) = k - 1
        BY <3>1, <3>3, <4>1, PathOfMenu
      <4>3. menus[m].parent \in f[k - 1]
        BY <1>4, <3>1, <4>2
      <4> QED BY <1>1, <4>3
    <3> QED BY <2>1, <3>1, <3>2, <3>3
  <2> QED BY <2>1
<1> HIDE DEF Reached
<1>5. ASSUME T # {}
      PROVE  FALSE
  <2>1. PICK l \in T : \A k \in T : l <= k
    <3>1. T \in SUBSET Nat
      BY <1>2
    <3> HIDE DEF T
    <3> QED BY <1>5, <3>1, LeastNumber
  <2>2. l \in 0 .. MaxMenus /\ ~Reached(l) /\ l # 0
    BY <1>3
  <2>3. l - 1 \in 0 .. MaxMenus /\ ~(l <= l - 1) /\ l \in 1 .. MaxMenus
    BY <1>2, <2>2
  <2>4. Reached(l - 1)
    BY <2>1, <2>3
  <2> QED BY <1>4, <2>2, <2>3, <2>4
<1>6. Reached(MaxMenus)
  <2>1. MaxMenus \in 0 .. MaxMenus
    BY <1>2
  <2> QED BY <1>5, <2>1
<1> QED BY <1>1, <1>6, DepthsAreBounded DEF Reached

(* Menus with all their ancestors are such a set.                          *)
LEMMA AncestorsAreClosed ==
  ASSUME TypeOK, PathsAgree, NEW ms \in SUBSET Stored
  PROVE  ms \subseteq ToTree(ms \cup Ancestors(ms))
<1> DEFINE all == ms \cup Ancestors(ms)
<1>1. ASSUME NEW m \in ms, NEW i \in 1 .. Depth(m)
      PROVE  menus[m].path[i] \in Ancestors(ms)
  <2>1. PathElement(m, i)
    BY PathElements
  <2>2. menus[m].path[i] \in Stored
    BY <2>1 DEF PathElement
  <2>3. DOMAIN menus[m].path = 1 .. Depth(m)
    BY PathOfMenu, LenProperties DEF Depth
  <2>4. menus[m].path[i] \in ToSet(menus[m].path)
    BY <2>3 DEF ToSet
  <2> QED BY <2>2, <2>4 DEF Ancestors
<1>2. ASSUME NEW a \in Ancestors(ms)
      PROVE  \E m \in ms : \E i \in 1 .. Depth(m) : a = menus[m].path[i]
  <2>1. PICK m \in ms : a \in ToSet(menus[m].path)
    BY DEF Ancestors
  <2>2. DOMAIN menus[m].path = 1 .. Depth(m)
    BY PathOfMenu, LenProperties DEF Depth
  <2> QED BY <2>1, <2>2 DEF ToSet
<1>3. all \in SUBSET Stored
  BY DEF Ancestors
<1>4. ASSUME NEW m \in all, menus[m].parent # Root
      PROVE  menus[m].parent \in all
  <2>1. CASE m \in ms
    <3>1. Depth(m) \in Nat /\ Depth(m) # 0 /\ menus[m].path[Depth(m)] = menus[m].parent
      BY <1>4, <2>1, PathOfMenu
    <3>2. Depth(m) \in 1 .. Depth(m)
      BY <3>1
    <3> QED BY <1>1, <2>1, <3>1, <3>2
  <2>2. CASE m \in Ancestors(ms)
    <3>1. PICK x \in ms : \E i \in 1 .. Depth(x) : m = menus[x].path[i]
      BY <1>2, <2>2
    <3>2. PICK i \in 1 .. Depth(x) : m = menus[x].path[i]
      BY <3>1
    <3>3. i # 1 /\ menus[m].parent = menus[x].path[i - 1]
      BY <1>4, <3>2, PathElements DEF PathElement
    <3>4. i - 1 \in 1 .. Depth(x)
      <4>1. Depth(x) \in Nat
        BY PathOfMenu
      <4> QED BY <3>3, <4>1
    <3> QED BY <1>1, <3>3, <3>4
  <2> QED BY <2>1, <2>2
<1> HIDE DEF all
<1>5. all \subseteq ToTree(all)
  BY <1>3, <1>4, ClosedSetsAreShown
<1> QED BY <1>5 DEF all

LEMMA MatchesAreShown ==
  ASSUME TypeOK
  PROVE  MatchesShown
<1> SUFFICES ASSUME PathsAgree
             PROVE  MatchesShown
  BY DEF MatchesShown
<1>1. ASSUME NEW m \in Stored
      PROVE  {m} \cup Below(m) \subseteq Query({m})
  <2>1. AppendChildren({m}) = ({m} \cup Below(m)) \cup Ancestors({m} \cup Below(m))
    BY DEF AppendChildren
  <2>2. {m} \cup Below(m) \in SUBSET Stored
    BY DEF Below
  <2> QED BY <2>1, <2>2, AncestorsAreClosed DEF Query
<1>2. ASSUME NEW m \in roleMenus \cap Stored, menus[m].status = "enabled"
      PROVE  m \in ToTree(QueryMenus)
  <2> DEFINE listed == { x \in roleMenus \cap Stored : menus[x].status = "enabled" }
  <2>1. listed \in SUBSET Stored /\ QueryMenus = listed \cup Ancestors(listed)
    BY DEF QueryMenus
  <2>2. m \in listed
    BY <1>2
  <2> HIDE DEF listed
  <2> QED BY <2>1, <2>2, AncestorsAreClosed
<1> QED BY <1>1, <1>2 DEF MatchesShown

-----------------------------------------------------------------------------
(* Theorems about MenuTree.                                                *)

(* A form leaves the status of what is below a menu only as it was.        *)
LEMMA UpdateSpreads ==
  ASSUME TypeOK, NEW x \in Stored, NEW code \in Codes, NEW parent,
         NEW status \in Statuses, NEW rs \in SUBSET Resources,
         Update(x, code, parent, status, rs),
         NEW m \in Stored, menus'[m].status # menus[m].status, NEW d \in Below(m)
  PROVE  menus'[d].status = menus'[m].status
<1>1. (parent = Root \/ parent \in Stored) /\ UpdatedTo(x, code, parent, status)
  BY DEF Update, UpdatedTo, RowPath
<1>2. m = x \/ m \in Below(x)
  BY <1>1, UpdatedRows
<1>3. menus'[m].status = status /\ status # menus[x].status
  <2>1. CASE m = x
    BY <1>1, <2>1, UpdatedRows
  <2>2. CASE m \in Below(x)
    <3>1. menus'[m].status = SpreadStatus(x, status, m)
      BY <1>1, <2>2, UpdatedRows
    <3> QED BY <3>1 DEF SpreadStatus
  <2> QED BY <1>2, <2>1, <2>2
<1>4. d = x \/ d \in Below(x)
  <2>1. CASE m = x
    BY <2>1
  <2>2. CASE m \in Below(x)
    <3>1. Formed(menus, issued) /\ m \in StoredIn(menus) /\ d \in StoredIn(menus)
          /\ x \in StoredIn(menus) /\ d \in Stored
      BY StoredTable DEF Below
    <3>2. /\ Under(menus, x) \in Seq(Ids) /\ Under(menus, m) \in Seq(Ids)
          /\ menus[m].path \in Seq(Ids) /\ menus[d].path \in Seq(Ids) /\ m \in Ids
          /\ Under(menus, m) = Append(menus[m].path, m)
      BY <3>1, UnderIsPath, UnderMoves, RowsAreRows
    <3>3. IsPrefix(Under(menus, x), menus[m].path) /\ IsPrefix(Under(menus, m), menus[d].path)
      BY <2>2 DEF Below
    <3>4. IsPrefix(Under(menus, x), Under(menus, m))
      BY <3>2, <3>3, PrefixOfAppend
    <3>5. IsPrefix(Under(menus, x), menus[d].path)
      BY <3>2, <3>3, <3>4, PrefixTransitive
    <3> QED BY <3>1, <3>5 DEF Below
  <2> QED BY <1>2, <2>1, <2>2
<1>5. menus'[d].status = status
  <2>1. CASE d = x
    BY <1>1, <2>1, UpdatedRows
  <2>2. CASE d \in Below(x)
    <3>1. menus'[d].status = SpreadStatus(x, status, d)
      BY <1>1, <2>2, UpdatedRows
    <3> QED BY <1>3, <3>1 DEF SpreadStatus
  <2> QED BY <1>4, <2>1, <2>2
<1> QED BY <1>3, <1>5

LEMMA AssignKeeps ==
  ASSUME TypeOK, NEW ms \in SUBSET Listable, AssignMenus(ms)
  PROVE  /\ TypeOK' /\ (PathsAgree => PathsAgree') /\ (NoLeftovers => NoLeftovers')
         /\ ~MovesIntoItself
<1>1. menus' = menus /\ resources' = resources /\ issued' = issued /\ roleMenus' = ms
  BY DEF AssignMenus
<1>2. ms \subseteq Ids
  BY MenuAssumption DEF Ids
<1> QED BY <1>1, <1>2, StoredTable, StoredTableNext DEF NoLeftovers, MovesIntoItself

LEMMA UnchangedKeeps ==
  ASSUME TypeOK, UNCHANGED vars
  PROVE  TypeOK' /\ (PathsAgree => PathsAgree') /\ (NoLeftovers => NoLeftovers')
<1>1. menus' = menus /\ resources' = resources /\ issued' = issued /\ roleMenus' = roleMenus
  BY DEF vars
<1> QED BY <1>1, StoredTable, StoredTableNext DEF NoLeftovers

LEMMA MenuInit == Init => TypeOK /\ PathsAgree /\ NoLeftovers
<1> SUFFICES ASSUME Init PROVE TypeOK /\ PathsAgree /\ NoLeftovers
  OBVIOUS
<1>1. Stored = {}
  BY DEF Init, Stored
<1> QED BY <1>1, MenuAssumption DEF Init, TypeOK, PathsAgree, NoLeftovers

LEMMA MenuAPIKeeps ==
  ASSUME TypeOK, MenuAPI
  PROVE  /\ TypeOK' /\ (NoLeftovers => NoLeftovers')
         /\ PathsAgree => (PathsAgree' <=> ~MovesIntoItself)
<1>1. ASSUME NEW code \in Codes, NEW parent, NEW rs \in SUBSET Resources,
             Create(code, parent, rs)
      PROVE  /\ TypeOK' /\ (NoLeftovers => NoLeftovers')
             /\ PathsAgree => (PathsAgree' <=> ~MovesIntoItself)
  BY <1>1, CreateKeeps
<1>2. ASSUME NEW m \in Stored, NEW code \in Codes, NEW parent, NEW status \in Statuses,
             NEW rs \in SUBSET Resources, Update(m, code, parent, status, rs)
      PROVE  /\ TypeOK' /\ (NoLeftovers => NoLeftovers')
             /\ PathsAgree => (PathsAgree' <=> ~MovesIntoItself)
  BY <1>2, UpdateKeeps
<1>3. ASSUME NEW m \in Stored, Delete(m)
      PROVE  /\ TypeOK' /\ (NoLeftovers => NoLeftovers')
             /\ PathsAgree => (PathsAgree' <=> ~MovesIntoItself)
  BY <1>3, DeleteKeeps
<1> QED BY <1>1, <1>2, <1>3 DEF MenuAPI

LEMMA MenuStep ==
  ASSUME TypeOK, [Next]_vars
  PROVE  /\ TypeOK' /\ (NoLeftovers => NoLeftovers')
         /\ [PathsAgree => (PathsAgree' <=> ~MovesIntoItself)]_vars
<1>1. CASE MenuAPI
  BY <1>1, MenuAPIKeeps
<1>2. CASE RoleAPI
  BY <1>2, AssignKeeps DEF RoleAPI
<1>3. CASE InitFromFile
  BY <1>3, InitFromFileKeeps
<1>4. CASE UNCHANGED vars
  BY <1>4, UnchangedKeeps
<1> QED BY <1>1, <1>2, <1>3, <1>4 DEF Next

(* The columns of menus keep to their types, whatever forms, deletions,    *)
(* roles and starts do in any order, moves of a menu under itself among    *)
(* them.                                                                   *)
THEOREM MenuTypes == Spec => []TypeOK
<1>1. Init => TypeOK
  BY MenuInit
<1>2. TypeOK /\ [Next]_vars => TypeOK'
  BY MenuStep
<1> QED BY <1>1, <1>2, PTL DEF Spec

(* Whatever was done to the menus, a reading of the menu file, of any      *)
(* length and depth, leaves nothing to do for the next one (createInBatch- *)
(* ByParent, menu.biz.go:61).                                              *)
THEOREM FileReadOnce == Spec => []FileIdempotent
<1>1. TypeOK => FileIdempotent
  BY FileIsIdempotent
<1> QED BY <1>1, MenuTypes, PTL

(* A status that a form changes is in force in the whole subtree after it, *)
(* also when the form moves the menu (menu.biz.go:420).                    *)
THEOREM StatusIsSpread == Spec => StatusReachesSubtree
<1> DEFINE Reaches == InitFromFile \/
      \A m \in Stored \cap Stored' :
        menus'[m].status # menus[m].status =>
          \A d \in Below(m) : menus'[d].status = menus'[m].status
<1>1. ASSUME TypeOK, [Next]_vars
      PROVE  [Reaches]_vars
  <2>1. CASE UNCHANGED vars
    BY <2>1
  <2>2. CASE InitFromFile
    BY <2>2
  <2>3. ASSUME NEW code \in Codes, NEW parent, NEW rs \in SUBSET Resources,
               Create(code, parent, rs), NEW m \in Stored
        PROVE  menus'[m] = menus[m]
    <3>1. Formed(menus, issued) /\ m \in StoredIn(menus) /\ m \in Ids
      BY <1>1, StoredTable DEF Stored
    <3>2. m <= issued /\ issued \in Nat /\ m \in Nat /\ menus \in [Ids -> {NoMenu} \cup Rows]
      BY <3>1 DEF Formed, Ids
    <3>3. m # issued + 1 /\ issued' = issued + 1
      BY <2>3, <3>2 DEF Create
    <3> QED BY <2>3, <3>1, <3>2, <3>3 DEF Create
  <2>4. ASSUME NEW x \in Stored, Delete(x), NEW m \in Stored'
        PROVE  menus'[m] = menus[m]
    BY <2>4 DEF Delete, Stored
  <2>5. ASSUME NEW x \in Stored, NEW code \in Codes, NEW parent, NEW status \in Statuses,
               NEW rs \in SUBSET Resources, Update(x, code, parent, status, rs),
               NEW m \in Stored, menus'[m].status # menus[m].status, NEW d \in Below(m)
        PROVE  menus'[d].status = menus'[m].status
    BY <1>1, <2>5, UpdateSpreads
  <2>6. CASE MenuAPI
    BY <2>3, <2>4, <2>5, <2>6 DEF MenuAPI
  <2>7. CASE RoleAPI
    <3>1. menus' = menus
      BY <2>7 DEF RoleAPI, AssignMenus
    <3> QED BY <3>1
  <2> QED BY <1>1, <2>1, <2>2, <2>6, <2>7 DEF Next
<1> QED BY <1>1, MenuTypes, PTL DEF Spec, StatusReachesSubtree

(* The paths are those of the tree from the start, after any moves and     *)
(* deletions, up to a form that puts a menu under itself or below itself,  *)
(* which nothing refuses (menu.biz.go:381): that one always breaks them.   *)
THEOREM TreeIsKept == Spec => PathsAgree /\ OnlySelfMovesBreak
<1>1. Init => PathsAgree
  BY MenuInit
<1>2. TypeOK /\ [Next]_vars => [PathsAgree => (PathsAgree' <=> ~MovesIntoItself)]_vars
  BY MenuStep
<1> QED BY <1>1, <1>2, MenuTypes, PTL DEF Spec, OnlySelfMovesBreak

(* No resource of a deleted menu is left, whether the paths agree or not:  *)
(* the rows and the resources that a deletion takes are those of the same  *)
(* menus (menu.biz.go:474-500).                                            *)
THEOREM NothingIsLeft == Spec => []NoLeftovers
<1>1. Init => NoLeftovers
  BY MenuInit
<1>2. TypeOK /\ NoLeftovers /\ [Next]_vars => NoLeftovers'
  BY MenuStep
<1> QED BY <1>1, <1>2, MenuTypes, PTL DEF Spec

(* A search and a user's menu show every match, at whatever depth: its     *)
(* ancestors are read from its path, and found under each other (Append-   *)
(* Children, menu.biz.go:244; ToTree, schema/menu.go:123).  In a tree, that *)
(* is: TreeIsKept says what breaks it.                                     *)
THEOREM SearchesShow == Spec => []MatchesShown
<1>1. TypeOK => MatchesShown
  BY MatchesAreShown
<1> QED BY <1>1, MenuTypes, PTL

-----------------------------------------------------------------------------
(* Theorems about MenuRaces.                                               *)

(* Reads that still hold make the write a step of MenuTree.                *)
LEMMA FreshCreate ==
  ASSUME request \in Requests, Fresh, NEW code \in read.codes, NEW status \in Statuses,
         NEW rs \in SUBSET Resources, InsertMenu(request, code, status, rs)
  PROVE  InOneStep(request)
<1> DEFINE q == request
<1>1. q.op = "create" /\ read = ReadForCreate(q)
  BY DEF InsertMenu, Fresh, Read
<1>2. read.path = Under(menus, q.parent) /\ read.codes = Free(q.parent)
  BY <1>1 DEF ReadForCreate
<1>3. code \in Codes /\ ByCodeAndParent(menus, code, q.parent) = {}
  BY <1>2 DEF Free
<1>4. ~DenyOperateMenu /\ (q.parent = Root \/ q.parent \in Stored)
  BY DEF Fresh, Admitted
<1>5. Create(code, q.parent, rs)
  BY <1>2, <1>3, <1>4 DEF InsertMenu, Create
<1> QED BY <1>1, <1>3, <1>5 DEF InOneStep

LEMMA FreshDelete ==
  ASSUME request \in Requests, Fresh, DeleteMenus(request)
  PROVE  InOneStep(request) /\ request.id \in Stored /\ Delete(request.id)
<1>1. request.op = "delete" /\ read = ReadForDelete(request)
  BY DEF DeleteMenus, Fresh, Read
<1>2. read.below = Below(request.id)
  BY <1>1 DEF ReadForDelete
<1>3. ~DenyOperateMenu /\ request.id \in Stored
  BY <1>1 DEF Fresh, Admitted
<1>4. Delete(request.id)
  BY <1>2, <1>3 DEF DeleteMenus, Delete, Deleted
<1> QED BY <1>1, <1>3, <1>4 DEF InOneStep

LEMMA FreshUpdate ==
  ASSUME TypeOK, PathsAgree, request \in Requests, Fresh, ~MovesIntoItself,
         NEW code \in read.codes, NEW status \in Statuses,
         NEW rs \in SUBSET Resources, UpdateMenu(request, code, status, rs)
  PROVE  InOneStep(request)
<1> DEFINE q   == request
           m   == q.id
           row == Menu(code, q.parent, RowPath(m, q.parent), status)
           old == Under(menus, m)
<1>1. q.op = "update" /\ read = ReadWith(q, Children(q))
  BY DEF UpdateMenu, Fresh, Read, ReadForUpdate
<1>2. /\ read.from = menus[m].path /\ read.status = menus[m].status
      /\ read.path = RowPath(m, q.parent)
      /\ read.below = Children(q) /\ read.codes = Free(q.parent) \cup {menus[m].code}
  BY <1>1 DEF ReadWith, RowPath, Moves
<1>3. ~DenyOperateMenu /\ m \in Stored /\ (q.parent = Root \/ q.parent \in Stored)
  BY <1>1 DEF Fresh, Admitted
<1>4. Formed(menus, issued) /\ m \in StoredIn(menus) /\ m \in Ids /\ m # Root
  BY <1>3, StoredTable, UnderMoves DEF StoredIn
<1>5. code \in Codes /\ (code # menus[m].code => ByCodeAndParent(menus, code, q.parent) = {})
  BY <1>2, <1>4, RowsAreRows DEF Free
<1>6. Append(read.from, m) = old
  BY <1>2, <1>4 DEF Under
<1>7. Append(read.path, m) = Append(Under(menus, q.parent), m)
  BY <1>2, <1>3 DEF RowPath, PathsAgree
<1>8. row.status = status
  BY DEF Menu
<1> HIDE DEF row, old
<1>9. ASSUME NEW d \in Ids
      PROVE  menus'[d] = Updated(m, row, q.parent)[d]
  <2> DEFINE spread == IF status # read.status /\ IsPrefix(old, menus[d].path)
                         THEN status ELSE menus[d].status
             path == IF d \in DOMAIN read.below
                       THEN Append(read.path, m)
                              \o SubSeq(read.below[d], Len(old) + 1, Len(read.below[d]))
                       ELSE menus[d].path
  <2>1. menus'[d] = IF menus[d] = NoMenu THEN NoMenu
                    ELSE IF d = m THEN row
                    ELSE [menus[d] EXCEPT !.status = spread, !.path = path]
    BY <1>2, <1>6 DEF UpdateMenu, row
  <2>2. Updated(m, row, q.parent)[d] =
          IF d = m THEN row
          ELSE IF d \in Below(m)
          THEN [menus[d] EXCEPT !.status = SpreadStatus(m, status, d),
                                !.path = MovedPath(m, q.parent, d)]
          ELSE menus[d]
    BY <1>8 DEF Updated, SpreadStatus, MovedPath
  <2> HIDE DEF spread, path
  <2>3. CASE d \notin Stored
    BY <1>3, <2>1, <2>2, <2>3 DEF Stored, Below
  <2>4. CASE d = m
    BY <1>3, <2>1, <2>2, <2>4 DEF Stored
  <2>5. CASE d \in Stored /\ d # m /\ d \in Below(m)
    <3>1. spread = SpreadStatus(m, status, d)
      BY <1>2, <2>5 DEF spread, SpreadStatus, Below, old
    <3>2. path = MovedPath(m, q.parent, d)
      <4>1. CASE Moves(q)
        <5>1. d \in DOMAIN read.below /\ read.below[d] = menus[d].path
          BY <1>2, <2>5, <4>1 DEF Children
        <5> QED BY <1>7, <4>1, <5>1 DEF path, MovedPath, Moves, old
      <4>2. CASE ~Moves(q)
        <5>1. read.below = <<>>
          BY <1>2, <4>2 DEF Children
        <5>2. d \notin DOMAIN read.below
          BY <5>1
        <5> QED BY <4>2, <5>2 DEF path, MovedPath, Moves
      <4> QED BY <4>1, <4>2
    <3> QED BY <2>1, <2>2, <2>5, <3>1, <3>2 DEF Stored
  <2>6. CASE d \in Stored /\ d # m /\ d \notin Below(m)
    <3>1. spread = menus[d].status
      BY <2>6 DEF spread, Below, old
    <3>2. path = menus[d].path
      <4>1. d \notin DOMAIN read.below
        BY <1>2, <2>6 DEF Children
      <4> QED BY <4>1 DEF path
    <3>3. menus[d] = Menu(menus[d].code, menus[d].parent, menus[d].path, menus[d].status)
      BY <1>4, <2>6, StoredTable, RowsAreRows
    <3>4. [menus[d] EXCEPT !.status = spread, !.path = path] = menus[d]
      BY <3>1, <3>2, <3>3 DEF Menu
    <3> QED BY <2>1, <2>2, <2>6, <3>4 DEF Stored
  <2> QED BY <2>3, <2>4, <2>5, <2>6
<1>10. menus' = Updated(m, row, q.parent)
  <2>1. menus' = [d \in Ids |-> menus'[d]]
    BY DEF UpdateMenu
  <2>2. Updated(m, row, q.parent) = [d \in Ids |-> Updated(m, row, q.parent)[d]]
    BY DEF Updated
  <2> QED BY <1>9, <2>1, <2>2
<1>11. UpdatedTo(m, code, q.parent, status)
  BY <1>10 DEF UpdatedTo, row
<1>12. q.parent \notin Below(m) \cup {m}
  <2>1. Stored' = Stored /\ menus'[m].parent = q.parent
    BY <1>3, <1>5, <1>11, UpdatedRows
  <2>2. q.parent # menus[m].parent => q.parent \notin Below(m) \cup {m}
    BY <1>3, <2>1 DEF MovesIntoItself
  <2>3. menus[m].parent \notin Below(m) \cup {m}
    BY <1>3, BelowIsDeeper, ChildrenAreBelow
  <2> QED BY <2>2, <2>3
<1>13. Update(m, code, q.parent, status, rs)
  BY <1>3, <1>5, <1>11, <1>12 DEF Update, UpdateMenu, UpdatedTo, RowPath
<1> QED BY <1>1, <1>5, <1>13 DEF InOneStep

LEMMA FreshWrite ==
  ASSUME TypeOK, PathsAgree, request \in Requests, Write, ~spoiled'
  PROVE  InOneStep(request) /\ ~MovesIntoItself
<1>1. Fresh /\ ~MovesIntoItself
  BY DEF Write
<1>2. ASSUME NEW code \in read.codes, NEW status \in Statuses, NEW rs \in SUBSET Resources,
             InsertMenu(request, code, status, rs) \/ UpdateMenu(request, code, status, rs)
      PROVE  InOneStep(request)
  BY <1>1, <1>2, FreshCreate, FreshUpdate
<1>3. CASE DeleteMenus(request)
  BY <1>1, <1>3, FreshDelete
<1> QED BY <1>1, <1>2, <1>3 DEF Write

(* As long as nothing is spoiled, all is as MenuTree keeps it.             *)
RacesInv ==
  /\ spoiled \in BOOLEAN /\ request \in Requests \cup {NoRequest}
  /\ spoiled \/ (TypeOK /\ PathsAgree /\ NoLeftovers)

LEMMA OneStepIsMenuAPI ==
  ASSUME TypeOK, request \in Requests, Fresh, InOneStep(request)
  PROVE  MenuAPI
<1>1. request.parent \in Ids \cup {Root}
  BY DEF Requests
<1>2. request.op # "create" => request.id \in Stored
  BY DEF Fresh, Admitted
<1>3. request.op \in {"create", "update", "delete"}
  BY DEF Requests
<1>4. CASE request.op = "create"
  BY <1>1, <1>4 DEF InOneStep, MenuAPI
<1>5. CASE request.op = "update"
  BY <1>1, <1>2, <1>5 DEF InOneStep, MenuAPI
<1>6. CASE request.op = "delete"
  BY <1>2, <1>6 DEF InOneStep, MenuAPI
<1> QED BY <1>3, <1>4, <1>5, <1>6

LEMMA RacesInvariance == RacesSpec => []RacesInv
<1>1. RacesInit => RacesInv
  BY MenuInit DEF RacesInit, RacesInv
<1>2. ASSUME RacesInv, [RacesNext]_allVars
      PROVE  RacesInv'
  <2>1. CASE UNCHANGED allVars
    <3>1. UNCHANGED vars /\ spoiled' = spoiled /\ request' = request
      BY <2>1 DEF allVars, raceVars
    <3>2. CASE spoiled
      BY <1>2, <3>1, <3>2 DEF RacesInv
    <3>3. CASE ~spoiled
      <4>1. TypeOK' /\ PathsAgree' /\ NoLeftovers'
        BY <1>2, <3>1, <3>3, UnchangedKeeps DEF RacesInv
      <4> QED BY <1>2, <3>1, <4>1 DEF RacesInv
    <3> QED BY <3>2, <3>3
  <2>2. ASSUME ~spoiled, TypeOK, PathsAgree, NoLeftovers, NEW q \in Requests, Begin(q)
        PROVE  RacesInv'
    <3>1. /\ UNCHANGED vars /\ spoiled' = spoiled
          /\ request' \in Requests \cup {NoRequest}
      BY <2>2 DEF Begin
    <3>2. TypeOK' /\ PathsAgree' /\ NoLeftovers'
      BY <2>2, <3>1, UnchangedKeeps
    <3> QED BY <1>2, <3>1, <3>2 DEF RacesInv
  <2>3. ASSUME ~spoiled, TypeOK, PathsAgree, NoLeftovers, Write
        PROVE  RacesInv'
    <3>1. request \in Requests /\ request' = NoRequest /\ spoiled' \in BOOLEAN
      BY <1>2, <2>3 DEF Write, RacesInv
    <3>2. CASE spoiled'
      BY <3>1, <3>2 DEF RacesInv
    <3>3. CASE ~spoiled'
      <4>1. InOneStep(request) /\ ~MovesIntoItself /\ Fresh
        BY <2>3, <3>1, <3>3, FreshWrite DEF Write
      <4>2. MenuAPI
        BY <2>3, <3>1, <4>1, OneStepIsMenuAPI
      <4> QED BY <2>3, <3>1, <4>1, <4>2, MenuAPIKeeps DEF RacesInv
    <3> QED BY <3>1, <3>2, <3>3
  <2>4. ASSUME ~spoiled, TypeOK, PathsAgree, NoLeftovers, Fails
        PROVE  RacesInv'
    <3>1. /\ UNCHANGED vars /\ spoiled' = spoiled
          /\ request' \in Requests \cup {NoRequest}
      BY <2>4 DEF Fails
    <3>2. TypeOK' /\ PathsAgree' /\ NoLeftovers'
      BY <2>4, <3>1, UnchangedKeeps
    <3> QED BY <1>2, <3>1, <3>2 DEF RacesInv
  <2>5. ASSUME ~spoiled, TypeOK, PathsAgree, NoLeftovers, Others
        PROVE  RacesInv'
    <3>1. request' = request /\ spoiled' = MovesIntoItself
      BY <2>5 DEF Others, raceVars
    <3>2. spoiled' \in BOOLEAN
      BY <3>1 DEF MovesIntoItself
    <3>3. CASE MovesIntoItself
      BY <1>2, <3>1, <3>2, <3>3 DEF RacesInv
    <3>4. CASE ~MovesIntoItself
      <4>1. CASE MenuAPI
        BY <1>2, <2>5, <3>1, <3>2, <3>4, <4>1, MenuAPIKeeps DEF RacesInv
      <4>2. CASE RoleAPI
        BY <1>2, <2>5, <3>1, <3>2, <4>2, AssignKeeps DEF RoleAPI, RacesInv
      <4>3. CASE InitFromFile
        BY <1>2, <2>5, <3>1, <3>2, <4>3, InitFromFileKeeps DEF RacesInv
      <4> QED BY <2>5, <4>1, <4>2, <4>3 DEF Others
    <3> QED BY <3>3, <3>4
  <2> QED BY <1>2, <2>1, <2>2, <2>3, <2>4, <2>5 DEF RacesNext, RacesInv
<1> QED BY <1>1, <1>2, PTL DEF RacesSpec

(* The tree comes apart only by a write from reads that another request    *)
(* has made untrue (menu.biz.go:394, 420 and 488), or by a move of a menu  *)
(* under itself: all else that forms, roles and starts do keeps it.        *)
THEOREM OnlySpoiledTreesFall == RacesSpec => []TreeKept
<1>1. RacesInv => TreeKept
  BY DEF RacesInv, TreeKept
<1> QED BY <1>1, RacesInvariance, PTL

(* A request whose reads hold when it writes does what MenuTree says it    *)
(* does in one step: what MenuTree shows holds of requests that take their *)
(* time, as long as none overtakes another.                                *)
THEOREM FreshRequestsAreSteps == RacesSpec => FreshWritesAreSteps
<1>1. ASSUME RacesInv, [RacesNext]_allVars
      PROVE  [Write /\ ~spoiled' => InOneStep(request)]_<<request, vars>>
  <2>1. CASE UNCHANGED allVars
    BY <2>1 DEF allVars, raceVars
  <2>2. CASE ~spoiled
    <3>1. ASSUME Write, ~spoiled'
          PROVE  InOneStep(request)
      <4>1. request \in Requests /\ TypeOK /\ PathsAgree
        BY <1>1, <2>2, <3>1 DEF Write, RacesInv
      <4> QED BY <3>1, <4>1, FreshWrite
    <3> QED BY <3>1
  <2> QED BY <1>1, <2>1, <2>2 DEF RacesNext
<1> QED BY <1>1, RacesInvariance, PTL DEF RacesSpec, FreshWritesAreSteps

=============================================================================
