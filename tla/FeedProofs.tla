----------------------------- MODULE FeedProofs -----------------------------
(***************************************************************************)
(* Proofs about the home feed: what its cells point at, what a late        *)
(* completion can take off the list, and what can bring the app down, for  *)
(* any number of users, posts and deletions.                               *)
(*                                                                         *)
(* Only a deletion makes captured sections and lists part: until a user    *)
(* has issued one, each cell has captured the section of its own post, and *)
(* no other post is in that section.                                       *)
(***************************************************************************)
EXTENDS Feed, FiniteSetTheorems, SequenceTheorems, TLAPS

-----------------------------------------------------------------------------
(* Sections. *)

Newer(S, p) == {q \in S : q > p}

LEMMA NewerFinite ==
  ASSUME NEW S \in SUBSET Nat, IsFiniteSet(S), NEW p \in S
  PROVE  /\ IsFiniteSet(Newer(S, p)) /\ Section(S, p) = Cardinality(Newer(S, p))
         /\ Section(S, p) \in Nat /\ Section(S, p) \in 0..Cardinality(S) - 1
<1>1. Cardinality(S) \in Nat
  BY FS_CardinalityType
<1>2. IsFiniteSet(S \ {p}) /\ Cardinality(S \ {p}) = Cardinality(S) - 1
  BY FS_RemoveElement
<1>3. Newer(S, p) \in SUBSET (S \ {p})
  BY DEF Newer
<1>4. IsFiniteSet(Newer(S, p)) /\ Cardinality(Newer(S, p)) <= Cardinality(S) - 1
  BY <1>2, <1>3, FS_Subset
<1>5. Cardinality(Newer(S, p)) \in Nat
  BY <1>4, FS_CardinalityType
<1>6. Section(S, p) = Cardinality(Newer(S, p))
  BY DEF Section, Newer
<1> QED
  BY <1>1, <1>4, <1>5, <1>6

\* An older post is in a later section.
LEMMA SectionOrder ==
  ASSUME NEW S \in SUBSET Nat, IsFiniteSet(S), NEW p \in S, NEW q \in S, p < q
  PROVE  Section(S, q) < Section(S, p)
<1>1. p \in Nat /\ q \in Nat /\ \A i \in S : i \in Nat
  OBVIOUS
<1>2. \A i \in S : i > q => i > p
  BY <1>1
<1>3. Newer(S, q) \in SUBSET Newer(S, p)
  BY <1>2 DEF Newer
<1>4. q \in Newer(S, p) /\ q \notin Newer(S, q)
  BY <1>1 DEF Newer
<1>5. /\ IsFiniteSet(Newer(S, p)) /\ IsFiniteSet(Newer(S, q))
      /\ Section(S, p) = Cardinality(Newer(S, p)) /\ Section(S, q) = Cardinality(Newer(S, q))
      /\ Section(S, p) \in Nat /\ Section(S, q) \in Nat
  BY NewerFinite
<1>6. /\ Cardinality(Newer(S, q)) <= Cardinality(Newer(S, p))
      /\ Cardinality(Newer(S, q)) # Cardinality(Newer(S, p))
  BY <1>3, <1>4, <1>5, FS_Subset
<1> QED
  BY <1>5, <1>6

\* A post is the only one in its section.
LEMMA OneInSection ==
  ASSUME NEW S \in SUBSET Nat, IsFiniteSet(S), NEW p \in S
  PROVE  InSection(S, Section(S, p)) = {p}
<1> SUFFICES ASSUME NEW q \in S, Section(S, q) = Section(S, p)
             PROVE  q = p
  BY DEF InSection
<1>1. Section(S, p) \in Nat
  BY NewerFinite
<1>2. ~(p < q) /\ ~(q < p)
  BY <1>1, SectionOrder
<1>3. p \in Nat /\ q \in Nat
  OBVIOUS
<1> QED
  BY <1>2, <1>3

\* A list that is not empty has a newest post.
LEMMA NewestIs ==
  ASSUME NEW S \in SUBSET Nat, IsFiniteSet(S), S # {}
  PROVE  Newest(S) \in S /\ \A q \in S : q <= Newest(S)
<1> DEFINE size == Cardinality(S)
           f == [p \in S |-> Section(S, p)]
<1>1. size \in Nat /\ size # 0
  BY FS_CardinalityType, FS_EmptySet
<1>2. f \in [S -> 0..size - 1]
  BY NewerFinite
<1>3. \A a, b \in S : f[a] = f[b] => a = b
  <2> SUFFICES ASSUME NEW a \in S, NEW b \in S, Section(S, a) = Section(S, b)
               PROVE  a = b
    OBVIOUS
  <2>1. InSection(S, Section(S, a)) = {a} /\ InSection(S, Section(S, b)) = {b}
    BY OneInSection
  <2> QED
    BY <2>1
<1>4. f \in Injection(S, 0..size - 1)
  BY <1>2, <1>3 DEF Injection, IsInjective
<1>5. IsFiniteSet(0..size - 1) /\ Cardinality(0..size - 1) = size
  <2> HIDE DEF size
  <2> QED
    BY <1>1, FS_Interval
<1>6. f \in Surjection(S, 0..size - 1)
  BY <1>4, <1>5, FS_Injection
<1>7. 0 \in 0..size - 1
  BY <1>1
<1>8. PICK m \in S : f[m] = 0
  BY <1>6, <1>7 DEF Surjection
<1>9. IsFiniteSet(Newer(S, m)) /\ Cardinality(Newer(S, m)) = 0
  BY <1>8, NewerFinite
<1>10. Newer(S, m) = {}
  BY <1>9, FS_EmptySet
<1>11. \A q \in S : q <= m
  <2> SUFFICES ASSUME NEW q \in S PROVE q <= m
    OBVIOUS
  <2>1. ~(q > m) /\ q \in Nat /\ m \in Nat
    BY <1>10 DEF Newer
  <2> QED
    BY <2>1
<1>12. \E p \in S : \A q \in S : q <= p
  BY <1>11
<1> QED
  BY <1>12 DEF Newest

\* What the feed lists is finite.
LEMMA ListFinite ==
  ASSUME NEW n \in Nat, NEW S \in SUBSET (1..n)
  PROVE  S \in SUBSET Nat /\ IsFiniteSet(S)
<1>1. IsFiniteSet(1..n)
  BY FS_Interval
<1>2. IsFiniteSet(S)
  BY <1>1, FS_Subset
<1>3. S \in SUBSET Nat
  OBVIOUS
<1> QED
  BY <1>2, <1>3

LEMMA RenderedType ==
  ASSUME NEW n \in Nat, NEW S \in SUBSET (1..n)
  PROVE  /\ Rendered(S) \in [S -> Nat]
         /\ \A p \in S : Rendered(S)[p] = Section(S, p) /\ Section(S, p) \in Nat
<1>1. S \in SUBSET Nat /\ IsFiniteSet(S)
  BY ListFinite
<1>2. \A p \in S : Section(S, p) \in Nat
  BY <1>1, NewerFinite
<1> QED
  BY <1>2 DEF Rendered

-----------------------------------------------------------------------------
(* Types. *)

TypeInv == TypeOK /\ DOMAIN section = Users

\* Posts are only added; an author stays, and so does a post that was added.
Added(p) == posts[p].state \in {"added", "settled"}

PostsKept ==
  /\ posts' \in Seq(Post) /\ Len(posts) <= Len(posts') /\ Len(posts') <= MaxPosts
  /\ \A p \in 1..Len(posts) :
       /\ posts'[p].by = posts[p].by
       /\ Added(p) => Added(p)' /\ posts'[p].picture = posts[p].picture

LEMMA PostTyped ==
  ASSUME TypeInv, NEW p \in 1..Len(posts)
  PROVE  /\ posts[p] \in Post /\ posts[p].by \in Users /\ posts[p].picture \in BOOLEAN
         /\ p \in Nat /\ p \in 0..MaxPosts
<1>1. posts \in Seq(Post) /\ Len(posts) <= MaxPosts /\ MaxPosts \in Nat
  BY FeedAssumption DEF TypeInv, TypeOK
<1>2. posts[p] \in Post /\ Len(posts) \in Nat
  BY <1>1
<1>3. p \in 0..MaxPosts /\ p \in Nat
  BY <1>1, <1>2
<1> QED
  BY <1>2, <1>3 DEF Post

LEMMA PostsSame ==
  ASSUME TypeInv, posts' = posts
  PROVE  PostsKept
<1>1. posts \in Seq(Post) /\ Len(posts) <= MaxPosts /\ Len(posts) \in Nat
  BY DEF TypeInv, TypeOK
<1> QED
  BY <1>1 DEF PostsKept, Added

LEMMA TrapKeeps ==
  ASSUME TypeInv, NEW u \in Users, Trap(u)
  PROVE  PostsKept /\ Len(posts') = Len(posts)
<1> DEFINE n == Len(posts)
<1>1. posts \in Seq(Post) /\ n \in Nat /\ n <= MaxPosts
  BY DEF TypeInv, TypeOK
<1> DEFINE g(p) == CASE posts[p].by = u /\ posts[p].state = "uploading" ->
                          [posts[p] EXCEPT !.state = "lost"]
                     [] posts[p].by = u /\ posts[p].state = "added" ->
                          [posts[p] EXCEPT !.state = "settled"]
                     [] OTHER -> posts[p]
<1>2. posts' = [p \in 1..n |-> g(p)]
  BY DEF Trap
<1>3. ASSUME NEW p \in 1..n
      PROVE  /\ g(p) \in Post /\ g(p).by = posts[p].by
             /\ posts[p].state \in {"added", "settled"} =>
                  g(p).state \in {"added", "settled"} /\ g(p).picture = posts[p].picture
  <2>1. posts[p] \in Post
    BY PostTyped
  <2>2. CASE posts[p].by = u /\ posts[p].state = "uploading"
    <3>1. g(p) = [posts[p] EXCEPT !.state = "lost"]
      BY <2>2
    <3> HIDE DEF g
    <3> QED
      BY <2>1, <2>2, <3>1 DEF Post
  <2>3. CASE posts[p].by = u /\ posts[p].state = "added"
    <3>1. g(p) = [posts[p] EXCEPT !.state = "settled"]
      BY <2>3
    <3> HIDE DEF g
    <3> QED
      BY <2>1, <2>3, <3>1 DEF Post
  <2>4. CASE /\ ~(posts[p].by = u /\ posts[p].state = "uploading")
             /\ ~(posts[p].by = u /\ posts[p].state = "added")
    <3>1. g(p) = posts[p]
      BY <2>4
    <3> HIDE DEF g
    <3> QED
      BY <2>1, <3>1
  <2> QED
    BY <2>2, <2>3, <2>4
<1> HIDE DEF g
<1>4. [p \in 1..n |-> g(p)] \in Seq(Post) /\ Len([p \in 1..n |-> g(p)]) = n
  <2> HIDE DEF n
  <2> QED
    BY <1>1, <1>3
<1>5. posts' \in Seq(Post) /\ Len(posts') = n
  BY <1>2, <1>4
<1>6. \A p \in 1..n : posts'[p] = g(p)
  BY <1>2
<1> QED
  BY <1>1, <1>3, <1>5, <1>6 DEF PostsKept, Added

LEMMA SubmitKeeps ==
  ASSUME TypeInv, NEW u \in Users, Submit(u)
  PROVE  /\ PostsKept /\ Len(posts') = Len(posts) + 1
<1>1. posts \in Seq(Post) /\ Len(posts) \in Nat
  BY DEF TypeInv, TypeOK
<1> DEFINE e == [by |-> u, state |-> "uploading", picture |-> FALSE]
<1>2. e \in Post
  BY DEF Post
<1>3. posts' = Append(posts, e) /\ Len(posts) < MaxPosts /\ MaxPosts \in Nat
  BY FeedAssumption DEF Submit
<1> HIDE DEF e
<1>4. /\ posts' \in Seq(Post) /\ Len(posts') = Len(posts) + 1
      /\ \A p \in 1..Len(posts) : posts'[p] = posts[p]
  BY <1>1, <1>2, <1>3, AppendProperties
<1> QED
  BY <1>1, <1>3, <1>4 DEF PostsKept, Added

LEMMA EditKeeps ==
  ASSUME TypeInv, NEW p \in DOMAIN posts, Uploaded(p) \/ Announce(p)
  PROVE  PostsKept /\ Len(posts') = Len(posts) /\ Added(p)'
<1>1. posts \in Seq(Post) /\ Len(posts) \in Nat /\ Len(posts) <= MaxPosts
      /\ DOMAIN posts = 1..Len(posts)
  BY DEF TypeInv, TypeOK
<1>2. PICK e \in Post :
        /\ posts' = [posts EXCEPT ![p] = e] /\ e.by = posts[p].by
        /\ e.state \in {"added", "settled"}
        /\ posts[p].state = "uploading" \/ e.picture = posts[p].picture
  <2>1. posts[p] \in Post
    BY <1>1, PostTyped
  <2>2. CASE Uploaded(p)
    <3>1. PICK ok \in BOOLEAN :
            posts' = [posts EXCEPT ![p].state = "added", ![p].picture = ok]
      BY <2>2 DEF Uploaded
    <3> DEFINE e == [posts[p] EXCEPT !.state = "added", !.picture = ok]
    <3>2. e \in Post /\ e.by = posts[p].by /\ e.state = "added"
      BY <2>1 DEF Post
    <3>3. posts' = [posts EXCEPT ![p] = e]
      BY <3>1
    <3> QED
      BY <2>2, <3>2, <3>3 DEF Uploaded
  <2>3. CASE Announce(p)
    <3> DEFINE e == [posts[p] EXCEPT !.state = "settled"]
    <3>2. e \in Post /\ e.by = posts[p].by /\ e.state = "settled" /\ e.picture = posts[p].picture
      BY <2>1 DEF Post
    <3>3. posts' = [posts EXCEPT ![p] = e]
      BY <2>3 DEF Announce
    <3> QED
      BY <3>2, <3>3
  <2> QED
    BY <2>2, <2>3
<1>3. /\ posts' \in Seq(Post) /\ Len(posts') = Len(posts) /\ posts'[p] = e
      /\ \A q \in 1..Len(posts) : q # p => posts'[q] = posts[q]
  BY <1>1, <1>2
<1>4. posts[p].state = "uploading" => ~(posts[p].state \in {"added", "settled"})
  OBVIOUS
<1> QED
  BY <1>1, <1>2, <1>3, <1>4 DEF PostsKept, Added

\* What a trap leaves of a device, and of the others.
LEMMA TrapLeaves ==
  ASSUME TypeInv, NEW u \in Users, Trap(u)
  PROVE  /\ crashed' = crashed \cup {u} /\ UNCHANGED <<live, issued>>
         /\ listed' = [listed EXCEPT ![u] = {}] /\ seen' = [seen EXCEPT ![u] = {}]
         /\ acks' = [acks EXCEPT ![u] = <<>>] /\ talk' = [talk EXCEPT ![u] = NoTalk]
         /\ section' = [section EXCEPT ![u] = Rendered({})]
BY DEF Trap

\* The types of what does not mention one device's actions.
ListsTyped ==
  /\ live \subseteq 1..Len(posts)
  /\ listed \in [Users -> SUBSET (1..Len(posts))]
  /\ seen \in [Users -> SUBSET (1..Len(posts))]
  /\ acks \in [Users -> Seq(1..Len(posts))]

CellsTyped == DOMAIN section = Users /\ \A u \in Users : section[u] \in [listed[u] -> Nat]

OthersTyped ==
  /\ issued \in [Users -> 0..MaxDeletes]
  /\ talk \in [Users -> [with : Users \cup {NoUser}, about : 0..MaxPosts]]
  /\ crashed \subseteq Users

LEMMA TypeParts ==
  /\ TypeInv <=> /\ posts \in Seq(Post) /\ Len(posts) <= MaxPosts
                 /\ ListsTyped /\ CellsTyped /\ OthersTyped
  /\ TypeInv' <=> /\ posts' \in Seq(Post) /\ Len(posts') <= MaxPosts
                  /\ ListsTyped' /\ CellsTyped' /\ OthersTyped'
BY DEF TypeInv, TypeOK, ListsTyped, CellsTyped, OthersTyped

LEMMA SeqWider ==
  ASSUME NEW S, NEW T, S \subseteq T, NEW s \in Seq(S)
  PROVE  s \in Seq(T)
<1>1. Len(s) \in Nat /\ DOMAIN s = 1..Len(s) /\ \A i \in 1..Len(s) : s[i] \in S
  BY ElementOfSeq, LenProperties
<1>2. s \in [1..Len(s) -> T]
  <2>1. s = [i \in 1..Len(s) |-> s[i]]
    BY <1>1
  <2> QED
    BY <1>1, <2>1
<1> QED
  BY <1>1, <1>2, SeqDef

\* A list of posts is one of a longer feed.
LEMMA ListsTypedLater ==
  ASSUME posts \in Seq(Post), PostsKept, ListsTyped, UNCHANGED <<live, listed, seen, acks>>
  PROVE  ListsTyped'
<1> DEFINE n == Len(posts)
           m == Len(posts')
<1>0. n \in Nat /\ m \in Nat /\ n <= m
  BY DEF PostsKept
<1>1. 1..n \subseteq 1..m
  <2> HIDE DEF n, m
  <2> QED
    BY <1>0
<1>a. /\ live \subseteq 1..n /\ listed \in [Users -> SUBSET (1..n)]
      /\ seen \in [Users -> SUBSET (1..n)] /\ acks \in [Users -> Seq(1..n)]
  BY DEF ListsTyped
<1> HIDE DEF n, m
<1>2. \A s \in Seq(1..n) : s \in Seq(1..m)
  BY <1>1, SeqWider
<1>3. live' \subseteq 1..m
  BY <1>1, <1>a
<1>4. listed' \in [Users -> SUBSET (1..m)] /\ seen' \in [Users -> SUBSET (1..m)]
  <2>1. SUBSET (1..n) \subseteq SUBSET (1..m)
    BY <1>1
  <2> QED
    BY <1>a, <2>1
<1>5. acks' \in [Users -> Seq(1..m)]
  BY <1>2, <1>a
<1> QED
  BY <1>3, <1>4, <1>5 DEF ListsTyped, m

LEMMA TypeInitially == Init => TypeInv
<1> SUFFICES ASSUME Init PROVE TypeInv
  OBVIOUS
<1>1. posts = <<>> /\ live = {} /\ crashed = {} /\ MaxPosts \in Nat /\ MaxDeletes \in Nat
  BY FeedAssumption DEF Init
<1>2. posts \in Seq(Post) /\ Len(posts) = 0
  BY <1>1
<1>3. ListsTyped
  <2>1. <<>> \in Seq(1..0) /\ {} \in SUBSET (1..0)
    OBVIOUS
  <2> QED
    BY <1>2, <2>1 DEF Init, ListsTyped
<1>4. CellsTyped
  BY DEF CellsTyped, Init, Rendered
<1>5. OthersTyped
  <2>1. NoTalk \in [with : Users \cup {NoUser}, about : 0..MaxPosts] /\ 0 \in 0..MaxDeletes
    BY <1>1 DEF NoTalk
  <2> QED
    BY <2>1 DEF OthersTyped, Init
<1> QED
  BY <1>1, <1>2, <1>3, <1>4, <1>5, TypeParts

LEMMA TypeStep ==
  ASSUME TypeInv, [Next]_vars
  PROVE  TypeInv' /\ PostsKept
<1> DEFINE n == Len(posts)
           Goal == TypeInv' /\ PostsKept
<1>0. /\ posts \in Seq(Post) /\ n \in Nat /\ n <= MaxPosts /\ DOMAIN posts = 1..n
      /\ ListsTyped /\ CellsTyped /\ OthersTyped
      /\ \A u \in Users : listed[u] \in SUBSET (1..n)
  BY TypeParts DEF ListsTyped
<1>n. MaxPosts \in Nat /\ MaxDeletes \in Nat
  BY FeedAssumption
<1>a. ASSUME PostsKept, UNCHANGED <<live, listed, section, seen, acks, issued, talk>>,
             crashed' \subseteq Users
      PROVE  Goal
  <2>2. ListsTyped'
    BY <1>0, <1>a, ListsTypedLater
  <2>3. CellsTyped' /\ OthersTyped'
    BY <1>0, <1>a DEF CellsTyped, OthersTyped
  <2> QED
    BY <1>a, <2>2, <2>3, TypeParts DEF PostsKept
<1>b. ASSUME posts' = posts, ListsTyped', CellsTyped', OthersTyped'
      PROVE  Goal
  <2>1. PostsKept
    BY <1>b, PostsSame
  <2>2. posts' \in Seq(Post) /\ Len(posts') <= MaxPosts /\ ListsTyped'
    BY <1>0, <1>b DEF ListsTyped
  <2> QED
    BY <1>b, <2>1, <2>2, TypeParts
<1>c. ASSUME NEW u \in Users, Trap(u) PROVE Goal
  <2>1. PostsKept /\ Len(posts') = n
    BY <1>c, TrapKeeps
  <2>2. /\ crashed' = crashed \cup {u} /\ UNCHANGED <<live, issued>>
        /\ listed' = [listed EXCEPT ![u] = {}] /\ seen' = [seen EXCEPT ![u] = {}]
        /\ acks' = [acks EXCEPT ![u] = <<>>] /\ talk' = [talk EXCEPT ![u] = NoTalk]
        /\ section' = [section EXCEPT ![u] = Rendered({})]
    BY <1>c, TrapLeaves
  <2>4. ListsTyped'
    BY <1>0, <2>1, <2>2 DEF ListsTyped
  <2>5. CellsTyped'
    <3>1. Rendered({}) \in [{} -> Nat]
      BY DEF Rendered
    <3> QED
      BY <1>0, <2>2, <3>1 DEF CellsTyped, ListsTyped
  <2>6. OthersTyped'
    <3>1. NoTalk \in [with : Users \cup {NoUser}, about : 0..MaxPosts]
      BY <1>n DEF NoTalk
    <3> QED
      BY <1>0, <2>2, <3>1 DEF OthersTyped
  <2> QED
    BY <2>1, <2>4, <2>5, <2>6, TypeParts DEF PostsKept
<1> SUFFICES Goal
  OBVIOUS
<1> HIDE DEF Goal, n
<1>1. ASSUME NEW u \in Users, Submit(u) PROVE Goal
  <2>1. PostsKept
    BY <1>1, SubmitKeeps
  <2>2. UNCHANGED <<live, listed, section, seen, acks, issued, talk>> /\ crashed' \subseteq Users
    BY <1>0, <1>1 DEF Submit, OthersTyped
  <2> QED
    BY <1>a, <2>1, <2>2
<1>2. ASSUME NEW u \in Users, Snapshot(u) PROVE Goal
  <2> DEFINE S == Merged(listed[u])
  <2>1. /\ UNCHANGED <<posts, live, acks, issued, talk, crashed>>
        /\ seen' = [seen EXCEPT ![u] = live] /\ listed' = [listed EXCEPT ![u] = S]
        /\ section' = [section EXCEPT ![u] = Rendered(S)]
    BY <1>2 DEF Snapshot
  <2>2. S \in SUBSET (1..n)
    BY <1>0 DEF Merged, ListsTyped, n
  <2> HIDE DEF S
  <2>3. ListsTyped'
    BY <1>0, <2>1, <2>2 DEF ListsTyped, n
  <2>4. Rendered(S) \in [S -> Nat]
    BY <1>0, <2>2, RenderedType
  <2>5. CellsTyped'
    BY <1>0, <2>1, <2>4 DEF CellsTyped, ListsTyped
  <2>6. OthersTyped'
    BY <1>0, <2>1 DEF OthersTyped
  <2> QED
    BY <1>b, <2>1, <2>3, <2>5, <2>6
<1>3. ASSUME NEW u \in Users, SnapshotCrashes(u) PROVE Goal
  BY <1>3, <1>c DEF SnapshotCrashes
<1>4. ASSUME NEW u \in Users, Deleted(u) PROVE Goal
  <2> DEFINE rest == listed[u] \ {Removed(listed[u])}
             old == section[u]
  <2>1. /\ UNCHANGED <<posts, live, seen, issued, talk, crashed>> /\ acks[u] # <<>>
        /\ listed' = [listed EXCEPT ![u] = rest]
        /\ section' = [section EXCEPT ![u] = [p \in rest |-> old[p]]]
        /\ acks' = [acks EXCEPT ![u] = Tail(acks[u])]
    BY <1>4 DEF Deleted
  <2>2. rest \in SUBSET (1..n) /\ rest \subseteq listed[u]
    BY <1>0
  <2>3. Tail(acks[u]) \in Seq(1..n)
    <3>1. acks[u] \in Seq(1..n)
      BY <1>0 DEF ListsTyped
    <3> QED
      BY <2>1, <3>1, HeadTailProperties
  <2>4. [p \in rest |-> old[p]] \in [rest -> Nat]
    BY <1>0, <2>2 DEF CellsTyped
  <2> HIDE DEF rest
  <2>5. ListsTyped'
    BY <1>0, <2>1, <2>2, <2>3 DEF ListsTyped, n
  <2>6. CellsTyped'
    BY <1>0, <2>1, <2>4 DEF CellsTyped, ListsTyped
  <2>7. OthersTyped'
    BY <1>0, <2>1 DEF OthersTyped
  <2> QED
    BY <1>b, <2>1, <2>5, <2>6, <2>7
<1>5. ASSUME NEW u \in Users, DeletedCrashes(u) PROVE Goal
  BY <1>5, <1>c DEF DeletedCrashes
<1>6. ASSUME NEW u \in Users, Back(u) PROVE Goal
  <2>1. UNCHANGED <<posts, live, listed, section, seen, acks, issued, crashed>>
        /\ talk' = [talk EXCEPT ![u] = NoTalk]
    BY <1>6 DEF Back
  <2>2. NoTalk \in [with : Users \cup {NoUser}, about : 0..MaxPosts]
    BY <1>n DEF NoTalk
  <2>3. ListsTyped' /\ CellsTyped'
    BY <1>0, <2>1 DEF ListsTyped, CellsTyped, n
  <2>4. OthersTyped'
    BY <1>0, <2>1, <2>2 DEF OthersTyped
  <2> QED
    BY <1>b, <2>1, <2>3, <2>4
<1>7. ASSUME NEW u \in Users, Relaunch(u) PROVE Goal
  <2>1. UNCHANGED <<posts, live, listed, section, seen, acks, issued, talk>>
        /\ crashed' = crashed \ {u}
    BY <1>7 DEF Relaunch
  <2>2. PostsKept
    BY <2>1, PostsSame
  <2>3. crashed' \subseteq Users
    BY <1>0, <2>1 DEF OthersTyped
  <2> QED
    BY <1>a, <2>1, <2>2, <2>3
<1>8. ASSUME NEW p \in DOMAIN posts, Uploaded(p) PROVE Goal
  <2>1. UNCHANGED <<listed, section, seen, acks, issued, talk, crashed>> /\ live' = live \cup {p}
    BY <1>8 DEF Uploaded
  <2>2. PostsKept /\ Len(posts') = n
    BY <1>8, EditKeeps DEF n
  <2>4. ListsTyped'
    BY <1>0, <2>1, <2>2 DEF ListsTyped, n
  <2>5. CellsTyped' /\ OthersTyped'
    BY <1>0, <2>1 DEF CellsTyped, OthersTyped
  <2> QED
    BY <2>2, <2>4, <2>5, TypeParts DEF PostsKept, Goal
<1>9. ASSUME NEW p \in DOMAIN posts, Announce(p) PROVE Goal
  <2>1. UNCHANGED <<live, listed, section, seen, acks, issued, talk, crashed>>
    BY <1>9 DEF Announce
  <2>2. PostsKept
    BY <1>9, EditKeeps
  <2>3. crashed' \subseteq Users
    BY <1>0, <2>1 DEF OthersTyped
  <2> QED
    BY <1>a, <2>1, <2>2, <2>3
<1>10. ASSUME NEW u \in Users, NEW p \in listed[u], Scroll(u, p) PROVE Goal
  <2>1. UNCHANGED <<posts, live, listed, seen, acks, issued, talk, crashed>>
        /\ section' = [section EXCEPT ![u] = [section[u] EXCEPT ![p] = Section(listed[u], p)]]
    BY <1>10 DEF Scroll
  <2>2. Section(listed[u], p) \in Nat
    BY <1>0, RenderedType
  <2>3. CellsTyped'
    <3>1. [section[u] EXCEPT ![p] = Section(listed[u], p)] \in [listed[u] -> Nat]
      BY <1>0, <2>2 DEF CellsTyped
    <3> QED
      BY <1>0, <2>1, <3>1 DEF CellsTyped
  <2>4. ListsTyped' /\ OthersTyped'
    BY <1>0, <2>1 DEF ListsTyped, OthersTyped, n
  <2> QED
    BY <1>b, <2>1, <2>3, <2>4
<1>11. ASSUME NEW u \in Users, NEW p \in listed[u], Delete(u, p) PROVE Goal
  <2> DEFINE first == Newest(listed[u])
  <2>1. /\ UNCHANGED <<posts, listed, section, seen, talk, crashed>>
        /\ live' = live \ {first}
        /\ acks' = [acks EXCEPT ![u] = Append(acks[u], first)]
        /\ issued' = [issued EXCEPT ![u] = issued[u] + 1] /\ issued[u] < MaxDeletes
    BY <1>11 DEF Delete
  <2>2. first \in 1..n
    <3>1. listed[u] \in SUBSET Nat /\ IsFiniteSet(listed[u]) /\ listed[u] # {}
      BY <1>0, ListFinite
    <3> QED
      BY <1>0, <3>1, NewestIs
  <2> HIDE DEF first
  <2>3. ListsTyped'
    <3>1. Append(acks[u], first) \in Seq(1..n)
      BY <1>0, <2>2 DEF ListsTyped
    <3> QED
      BY <1>0, <2>1, <3>1 DEF ListsTyped, n
  <2>4. CellsTyped'
    BY <1>0, <2>1 DEF CellsTyped
  <2>5. OthersTyped'
    <3>1. issued[u] + 1 \in 0..MaxDeletes
      BY <1>0, <1>n, <2>1 DEF OthersTyped
    <3> QED
      BY <1>0, <2>1, <3>1 DEF OthersTyped
  <2> QED
    BY <1>b, <2>1, <2>3, <2>4, <2>5
<1>12. ASSUME NEW u \in Users, NEW p \in listed[u], Message(u, p) PROVE Goal
  <2>1. UNCHANGED <<posts, live, listed, section, seen, acks, issued, crashed>>
    BY <1>12 DEF Message
  <2>2. PICK q \in listed[u] : talk' = [talk EXCEPT ![u] = [with |-> posts[q].by, about |-> p]]
    BY <1>12 DEF Message, InSection
  <2>3. [with |-> posts[q].by, about |-> p] \in [with : Users \cup {NoUser}, about : 0..MaxPosts]
    <3>1. p \in 1..n /\ q \in 1..n
      BY <1>0
    <3>2. posts[q].by \in Users /\ p \in 0..MaxPosts
      BY <3>1, PostTyped DEF n
    <3> QED
      BY <3>2
  <2>4. OthersTyped'
    BY <1>0, <2>1, <2>2, <2>3 DEF OthersTyped
  <2>5. ListsTyped' /\ CellsTyped'
    BY <1>0, <2>1 DEF ListsTyped, CellsTyped, n
  <2> QED
    BY <1>b, <2>1, <2>4, <2>5
<1>13. ASSUME NEW u \in Users, NEW p \in listed[u], MessageCrashes(u, p) PROVE Goal
  BY <1>13, <1>c DEF MessageCrashes
<1>14. CASE UNCHANGED vars
  <2>1. UNCHANGED <<live, listed, section, seen, acks, issued, talk>> /\ posts' = posts
        /\ crashed' = crashed
    BY <1>14 DEF vars
  <2>2. PostsKept
    BY <2>1, PostsSame
  <2>3. crashed' \subseteq Users
    BY <1>0, <2>1 DEF OthersTyped
  <2> QED
    BY <1>a, <2>1, <2>2, <2>3
<1> QED
  BY <1>1, <1>2, <1>3, <1>4, <1>5, <1>6, <1>7, <1>8, <1>9, <1>10, <1>11, <1>12, <1>13, <1>14
     DEF Next

-----------------------------------------------------------------------------
(* The invariant. *)

\* What exists, and what a device was ever shown, has been added.
AddedInv ==
  /\ \A p \in live : Added(p)
  /\ \A u \in Users : \A p \in seen[u] : Added(p)

\* Of a user who deletes nothing: no completion is due, and every cell has
\* captured the section its post is in.
QuietInv ==
  \A u \in Users : issued[u] = 0 =>
    /\ acks[u] = <<>>
    /\ section[u] = Rendered(listed[u])

\* A conversation is about a post, and RightPartner.
TalkInv ==
  /\ \A u \in Users : talk[u] # NoTalk => talk[u].about \in 1..Len(posts)
  /\ RightPartner

FeedInv == TypeInv /\ AddedInv /\ QuietInv /\ TalkInv /\ LostOnlyNewest /\ CrashCause

\* A trap that no captured section and no late completion is the reason of.
PictureMissing == \E p \in 1..Len(posts) : Added(p) /\ ~posts[p].picture

LEMMA PictureMissingStays ==
  ASSUME TypeInv, PostsKept, PictureMissing
  PROVE  PictureMissing'
<1>1. PICK p \in 1..Len(posts) : Added(p) /\ ~posts[p].picture
  BY DEF PictureMissing
<1>2. Len(posts) \in Nat /\ Len(posts') \in Nat /\ Len(posts) <= Len(posts')
  BY DEF TypeInv, TypeOK, PostsKept
<1>3. p \in 1..Len(posts')
  BY <1>2
<1> QED
  BY <1>1, <1>3 DEF PictureMissing, PostsKept

LEMMA CrashCauseIs ==
  /\ CrashCause <=> \A u \in crashed : issued[u] > 0 \/ PictureMissing
  /\ CrashCause' <=> \A u \in crashed' : issued'[u] > 0 \/ PictureMissing'
BY DEF CrashCause, PictureMissing, Added

\* What posts do while nothing else changes keeps the invariant.
LEMMA PostsOnly ==
  ASSUME FeedInv, PostsKept,
         UNCHANGED <<live, listed, section, seen, acks, issued, talk>>,
         crashed' \subseteq crashed
  PROVE  (AddedInv /\ QuietInv /\ TalkInv /\ LostOnlyNewest /\ CrashCause)'
<1> USE DEF FeedInv
<1>1. /\ live \subseteq 1..Len(posts) /\ \A u \in Users : seen[u] \subseteq 1..Len(posts)
      /\ Len(posts) \in Nat /\ Len(posts') \in Nat /\ Len(posts) <= Len(posts')
  BY DEF TypeInv, TypeOK, PostsKept
<1>2. AddedInv'
  BY <1>1 DEF AddedInv, PostsKept
<1>3. QuietInv'
  BY DEF QuietInv
<1>4. TalkInv'
  <2>1. \A p \in 1..Len(posts) : p \in 1..Len(posts')
    BY <1>1
  <2> QED
    BY <2>1 DEF TalkInv, RightPartner, PostsKept
<1>5. LostOnlyNewest'
  BY DEF LostOnlyNewest
<1>6. CrashCause'
  BY CrashCauseIs, PictureMissingStays
<1> QED
  BY <1>2, <1>3, <1>4, <1>5, <1>6

\* A device that traps, for a reason CrashCause allows, keeps the invariant.
LEMMA TrapHolds ==
  ASSUME FeedInv, NEW u \in Users, Trap(u), issued[u] > 0 \/ PictureMissing
  PROVE  (AddedInv /\ QuietInv /\ TalkInv /\ LostOnlyNewest /\ CrashCause)'
<1> USE DEF FeedInv
<1>1. PostsKept /\ Len(posts') = Len(posts)
  BY TrapKeeps
<1>2. /\ crashed' = crashed \cup {u} /\ UNCHANGED <<live, issued>>
      /\ listed' = [listed EXCEPT ![u] = {}] /\ seen' = [seen EXCEPT ![u] = {}]
      /\ acks' = [acks EXCEPT ![u] = <<>>] /\ talk' = [talk EXCEPT ![u] = NoTalk]
      /\ section' = [section EXCEPT ![u] = Rendered({})]
  BY TrapLeaves
<1>3. /\ live \subseteq 1..Len(posts) /\ \A v \in Users : seen[v] \subseteq 1..Len(posts)
      /\ DOMAIN listed = Users /\ DOMAIN seen = Users /\ DOMAIN acks = Users
      /\ DOMAIN talk = Users /\ DOMAIN section = Users
  BY DEF TypeInv, TypeOK
<1>4. /\ \A v \in Users : v # u => /\ listed'[v] = listed[v] /\ seen'[v] = seen[v]
                                   /\ acks'[v] = acks[v] /\ talk'[v] = talk[v]
                                   /\ section'[v] = section[v]
      /\ listed'[u] = {} /\ seen'[u] = {} /\ acks'[u] = <<>> /\ talk'[u] = NoTalk
      /\ section'[u] = Rendered({})
  BY <1>2, <1>3
<1>5. AddedInv'
  BY <1>1, <1>2, <1>3, <1>4 DEF AddedInv, PostsKept
<1>6. QuietInv'
  BY <1>2, <1>4 DEF QuietInv
<1>7. TalkInv'
  BY <1>1, <1>2, <1>4 DEF TalkInv, RightPartner, PostsKept
<1>8. LostOnlyNewest'
  BY <1>2, <1>4 DEF LostOnlyNewest
<1>9. CrashCause'
  BY <1>1, <1>2, CrashCauseIs, PictureMissingStays
<1> QED
  BY <1>5, <1>6, <1>7, <1>8, <1>9

\* The cell of a user who deletes nothing finds its own post.
LEMMA OwnCell ==
  ASSUME FeedInv, NEW u \in Users, issued[u] = 0, NEW p \in listed[u]
  PROVE  InSection(listed[u], Captured(u, p)) = {p}
<1>1. listed[u] \in SUBSET (1..Len(posts)) /\ Len(posts) \in Nat
  BY DEF FeedInv, TypeInv, TypeOK
<1>2. listed[u] \in SUBSET Nat /\ IsFiniteSet(listed[u])
  BY <1>1, ListFinite
<1>3. section[u][p] = Section(listed[u], p)
  BY DEF FeedInv, QuietInv, Rendered
<1> QED
  BY <1>2, <1>3, OneInSection DEF Captured

LEMMA InvStep ==
  ASSUME FeedInv, [Next]_vars
  PROVE  (AddedInv /\ QuietInv /\ TalkInv /\ LostOnlyNewest /\ CrashCause)'
<1> DEFINE Goal == (AddedInv /\ QuietInv /\ TalkInv /\ LostOnlyNewest /\ CrashCause)'
<1> SUFFICES Goal
  OBVIOUS
<1>0. /\ posts \in Seq(Post) /\ Len(posts) \in Nat /\ DOMAIN posts = 1..Len(posts)
      /\ live \subseteq 1..Len(posts)
      /\ listed \in [Users -> SUBSET (1..Len(posts))] /\ seen \in [Users -> SUBSET (1..Len(posts))]
      /\ DOMAIN acks = Users /\ DOMAIN talk = Users /\ DOMAIN section = Users
      /\ issued \in [Users -> Nat] /\ crashed \subseteq Users /\ TypeInv
      /\ \A u \in Users : listed[u] \in SUBSET Nat /\ IsFiniteSet(listed[u])
  <2>1. /\ posts \in Seq(Post) /\ Len(posts) \in Nat /\ TypeInv
        /\ listed \in [Users -> SUBSET (1..Len(posts))]
    BY DEF FeedInv, TypeInv, TypeOK
  <2>2. \A u \in Users : listed[u] \in SUBSET Nat /\ IsFiniteSet(listed[u])
    BY <2>1, ListFinite
  <2>3. issued \in [Users -> Nat]
    BY FeedAssumption DEF FeedInv, TypeInv, TypeOK
  <2> QED
    BY <2>1, <2>2, <2>3 DEF FeedInv, TypeInv, TypeOK
<1>p. PostsKept
  BY <1>0, TypeStep
<1>s. posts' = posts => (PictureMissing <=> PictureMissing') /\ \A p : Added(p)' <=> Added(p)
  BY DEF PictureMissing, Added
<1> USE DEF FeedInv
<1> HIDE DEF Goal
<1>1. ASSUME NEW u \in Users, Submit(u) \/ Relaunch(u) PROVE Goal
  <2>1. UNCHANGED <<live, listed, section, seen, acks, issued, talk>> /\ crashed' \subseteq crashed
    BY <1>1 DEF Submit, Relaunch
  <2> QED
    BY <1>p, <2>1, PostsOnly DEF Goal
<1>2. ASSUME NEW p \in DOMAIN posts, Announce(p) PROVE Goal
  <2>1. UNCHANGED <<live, listed, section, seen, acks, issued, talk, crashed>>
    BY <1>2 DEF Announce
  <2> QED
    BY <1>p, <2>1, PostsOnly DEF Goal
<1>3. ASSUME NEW u \in Users, SnapshotCrashes(u) PROVE Goal
  <2>1. PICK p \in live : ~posts[p].picture
    BY <1>3 DEF SnapshotCrashes
  <2>2. PictureMissing
    BY <1>0, <2>1 DEF PictureMissing, AddedInv
  <2> QED
    BY <1>3, <2>2, TrapHolds DEF SnapshotCrashes, Goal
<1>4. ASSUME NEW u \in Users, DeletedCrashes(u) PROVE Goal
  <2>1. issued[u] # 0
    BY <1>4 DEF DeletedCrashes, QuietInv
  <2>2. issued[u] > 0
    BY <1>0, <2>1
  <2> QED
    BY <1>4, <2>2, TrapHolds DEF DeletedCrashes, Goal
<1>5. ASSUME NEW u \in Users, NEW p \in listed[u], MessageCrashes(u, p) PROVE Goal
  <2>1. issued[u] # 0
    BY <1>5, OwnCell DEF MessageCrashes
  <2>2. issued[u] > 0
    BY <1>0, <2>1
  <2> QED
    BY <1>5, <2>2, TrapHolds DEF MessageCrashes, Goal
<1>6. ASSUME NEW u \in Users, Snapshot(u) PROVE Goal
  <2> DEFINE S == Merged(listed[u])
  <2>1. /\ UNCHANGED <<posts, live, acks, issued, talk, crashed>>
        /\ seen' = [seen EXCEPT ![u] = live] /\ listed' = [listed EXCEPT ![u] = S]
        /\ section' = [section EXCEPT ![u] = Rendered(S)]
    BY <1>6 DEF Snapshot
  <2>2. live \subseteq S
    BY DEF Merged
  <2> HIDE DEF S
  <2>3. /\ \A v \in Users : v # u => /\ listed'[v] = listed[v] /\ seen'[v] = seen[v]
                                     /\ section'[v] = section[v]
        /\ listed'[u] = S /\ seen'[u] = live /\ section'[u] = Rendered(S)
    BY <1>0, <2>1
  <2>4. AddedInv'
    BY <1>s, <2>1, <2>3 DEF AddedInv
  <2>5. QuietInv'
    BY <2>1, <2>3 DEF QuietInv
  <2>6. TalkInv'
    BY <2>1 DEF TalkInv, RightPartner
  <2>7. LostOnlyNewest'
    BY <2>1, <2>2, <2>3 DEF LostOnlyNewest
  <2>8. CrashCause'
    BY <1>s, <2>1, CrashCauseIs
  <2> QED
    BY <2>4, <2>5, <2>6, <2>7, <2>8 DEF Goal
<1>7. ASSUME NEW u \in Users, Deleted(u) PROVE Goal
  <2> DEFINE top == Newest(listed[u])
             rest == listed[u] \ {top}
             old == section[u]
  <2>1. /\ UNCHANGED <<posts, live, seen, issued, talk, crashed>>
        /\ acks[u] # <<>> /\ listed[u] # {}
        /\ listed' = [listed EXCEPT ![u] = rest]
        /\ section' = [section EXCEPT ![u] = [p \in rest |-> old[p]]]
        /\ acks' = [acks EXCEPT ![u] = Tail(acks[u])]
    BY <1>7 DEF Deleted, Removed
  <2>2. top \in listed[u] /\ \A q \in listed[u] : q <= top
    BY <1>0, <2>1, NewestIs
  <2>3. issued[u] # 0
    BY <2>1 DEF QuietInv
  <2> HIDE DEF top
  <2>4. /\ \A v \in Users : v # u => /\ listed'[v] = listed[v] /\ acks'[v] = acks[v]
                                     /\ section'[v] = section[v]
        /\ listed'[u] = rest
    BY <1>0, <2>1
  <2>5. AddedInv'
    BY <1>s, <2>1 DEF AddedInv
  <2>6. QuietInv'
    BY <2>1, <2>3, <2>4 DEF QuietInv
  <2>7. TalkInv'
    BY <2>1 DEF TalkInv, RightPartner
  <2>8. LostOnlyNewest'
    <3> SUFFICES ASSUME NEW v \in Users, NEW p \in (seen'[v] \cap live') \ listed'[v],
                        NEW q \in listed'[v]
                 PROVE  q < p
      BY DEF LostOnlyNewest
    <3>1. CASE v # u
      BY <2>1, <2>4, <3>1 DEF LostOnlyNewest
    <3>2. CASE v = u
      <4>1. q \in listed[u] /\ q # top /\ q <= top /\ q \in Nat /\ top \in Nat
        BY <1>0, <2>2, <2>4, <3>2
      <4>2. CASE p = top
        BY <4>1, <4>2
      <4>3. CASE p # top
        <5>1. p \in (seen[u] \cap live) \ listed[u]
          BY <2>1, <2>4, <3>2, <4>3
        <5> QED
          BY <4>1, <5>1 DEF LostOnlyNewest
      <4> QED
        BY <4>2, <4>3
    <3> QED
      BY <3>1, <3>2
  <2>9. CrashCause'
    BY <1>s, <2>1, CrashCauseIs
  <2> QED
    BY <2>5, <2>6, <2>7, <2>8, <2>9 DEF Goal
<1>8. ASSUME NEW u \in Users, Back(u) PROVE Goal
  <2>1. UNCHANGED <<posts, live, listed, section, seen, acks, issued, crashed>>
        /\ talk' = [talk EXCEPT ![u] = NoTalk]
    BY <1>8 DEF Back
  <2>2. TalkInv'
    BY <1>0, <2>1 DEF TalkInv, RightPartner
  <2>3. AddedInv' /\ CrashCause'
    BY <1>s, <2>1, CrashCauseIs DEF AddedInv
  <2> QED
    BY <2>1, <2>2, <2>3 DEF Goal, QuietInv, LostOnlyNewest
<1>9. ASSUME NEW p \in DOMAIN posts, Uploaded(p) PROVE Goal
  <2>1. UNCHANGED <<listed, section, seen, acks, issued, talk, crashed>> /\ live' = live \cup {p}
        /\ posts[p].state = "uploading"
    BY <1>9 DEF Uploaded
  <2>2. Len(posts') = Len(posts) /\ Added(p)' /\ ~Added(p)
    BY <1>0, <1>9, <2>1, EditKeeps DEF Added
  <2>3. AddedInv'
    BY <1>0, <1>p, <2>1, <2>2 DEF AddedInv, PostsKept
  <2>4. TalkInv'
    BY <1>p, <2>1, <2>2 DEF TalkInv, RightPartner, PostsKept
  <2>5. LostOnlyNewest'
    BY <2>1, <2>2 DEF LostOnlyNewest, AddedInv
  <2>6. CrashCause'
    BY <1>0, <1>p, <2>1, CrashCauseIs, PictureMissingStays
  <2> QED
    BY <2>1, <2>3, <2>4, <2>5, <2>6 DEF Goal, QuietInv
<1>10. ASSUME NEW u \in Users, NEW p \in listed[u], Scroll(u, p) PROVE Goal
  <2>1. UNCHANGED <<posts, live, listed, seen, acks, issued, talk, crashed>>
        /\ section' = [section EXCEPT ![u] = [section[u] EXCEPT ![p] = Section(listed[u], p)]]
    BY <1>10 DEF Scroll
  <2>2. QuietInv'
    <3>1. ASSUME issued[u] = 0
          PROVE  section'[u] = section[u]
      <4>1. section[u] = Rendered(listed[u])
        BY <3>1 DEF QuietInv
      <4>2. DOMAIN section[u] = listed[u] /\ section[u][p] = Section(listed[u], p)
        BY <4>1 DEF Rendered
      <4>3. [section[u] EXCEPT ![p] = Section(listed[u], p)] = section[u]
        BY <4>1, <4>2 DEF Rendered
      <4> QED
        BY <1>0, <2>1, <4>3
    <3>2. \A v \in Users : v # u => section'[v] = section[v]
      BY <1>0, <2>1
    <3> QED
      BY <2>1, <3>1, <3>2 DEF QuietInv
  <2>3. AddedInv' /\ CrashCause'
    BY <1>s, <2>1, CrashCauseIs DEF AddedInv
  <2> QED
    BY <2>1, <2>2, <2>3 DEF Goal, TalkInv, RightPartner, LostOnlyNewest
<1>11. ASSUME NEW u \in Users, NEW p \in listed[u], Delete(u, p) PROVE Goal
  <2>1. /\ UNCHANGED <<posts, listed, section, seen, talk, crashed>> /\ talk[u] = NoTalk
        /\ live' \subseteq live
        /\ DOMAIN acks' = Users /\ \A v \in Users : v # u => acks'[v] = acks[v]
        /\ issued' = [issued EXCEPT ![u] = issued[u] + 1]
    BY <1>0, <1>11 DEF Delete
  <2>2. issued'[u] > 0 /\ \A v \in Users : v # u => issued'[v] = issued[v]
    BY <1>0, <2>1
  <2>3. QuietInv'
    BY <2>1, <2>2 DEF QuietInv
  <2>4. TalkInv'
    BY <2>1, <2>2 DEF TalkInv, RightPartner
  <2>5. AddedInv' /\ LostOnlyNewest'
    BY <1>s, <2>1 DEF AddedInv, LostOnlyNewest
  <2>6. CrashCause'
    BY <1>0, <1>s, <2>1, <2>2, CrashCauseIs
  <2> QED
    BY <2>3, <2>4, <2>5, <2>6 DEF Goal
<1>12. ASSUME NEW u \in Users, NEW p \in listed[u], Message(u, p) PROVE Goal
  <2>1. UNCHANGED <<posts, live, listed, section, seen, acks, issued, crashed>>
    BY <1>12 DEF Message
  <2>2. PICK q \in InSection(listed[u], Captured(u, p)) :
          talk' = [talk EXCEPT ![u] = [with |-> posts[q].by, about |-> p]]
    BY <1>12 DEF Message
  <2>3. issued[u] = 0 => q = p
    BY <2>2, OwnCell
  <2>4. /\ talk'[u].with = posts[q].by /\ talk'[u].about = p /\ p \in 1..Len(posts)
        /\ \A v \in Users : v # u => talk'[v] = talk[v]
    BY <1>0, <2>2
  <2>5. TalkInv'
    BY <2>1, <2>3, <2>4 DEF TalkInv, RightPartner
  <2>6. AddedInv' /\ CrashCause'
    BY <1>s, <2>1, CrashCauseIs DEF AddedInv
  <2> QED
    BY <2>1, <2>5, <2>6 DEF Goal, QuietInv, LostOnlyNewest
<1>13. CASE UNCHANGED vars
  <2>1. UNCHANGED <<posts, live, listed, section, seen, acks, issued, talk, crashed>>
    BY <1>13 DEF vars
  <2> QED
    BY <1>p, <2>1, PostsOnly DEF Goal
<1> QED
  BY <1>1, <1>2, <1>3, <1>4, <1>5, <1>6, <1>7, <1>8, <1>9, <1>10, <1>11, <1>12, <1>13 DEF Next

LEMMA InvInitially == Init => FeedInv
<1> SUFFICES ASSUME Init PROVE FeedInv
  OBVIOUS
<1>1. TypeInv
  BY TypeInitially
<1>2. AddedInv /\ LostOnlyNewest /\ CrashCause
  BY DEF Init, AddedInv, LostOnlyNewest, CrashCause
<1>3. QuietInv
  BY DEF Init, QuietInv
<1>4. TalkInv
  BY DEF Init, TalkInv, RightPartner
<1> QED
  BY <1>1, <1>2, <1>3, <1>4 DEF FeedInv

THEOREM FeedInvariant == Spec => []FeedInv
<1>1. FeedInv /\ [Next]_vars => FeedInv'
  BY TypeStep, InvStep DEF FeedInv
<1> QED
  BY <1>1, InvInitially, PTL DEF Spec

\* Every variable keeps its type; in particular each cell's captured section
\* is a number, and cells exist for exactly the posts listed.
THEOREM TypeCorrect == Spec => []TypeOK
<1>1. FeedInv => TypeOK
  BY DEF FeedInv, TypeInv
<1> QED
  BY <1>1, FeedInvariant, PTL

\* The app of a user who deletes nothing traps only on a post that was added
\* without a picture.
THEOREM CrashCauseHolds == Spec => []CrashCause
<1>1. FeedInv => CrashCause
  BY DEF FeedInv
<1> QED
  BY <1>1, FeedInvariant, PTL

\* What a late completion takes off the list is among the newest.
THEOREM LostOnlyNewestHolds == Spec => []LostOnlyNewest
<1>1. FeedInv => LostOnlyNewest
  BY DEF FeedInv
<1> QED
  BY <1>1, FeedInvariant, PTL

\* A conversation opened from a cell is with the author of its post, for a
\* user who deletes nothing.
THEOREM RightPartnerHolds == Spec => []RightPartner
<1>1. FeedInv => RightPartner
  BY DEF FeedInv, TalkInv
<1> QED
  BY <1>1, FeedInvariant, PTL
=============================================================================
