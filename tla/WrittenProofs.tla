---------------------------- MODULE WrittenProofs ----------------------------
(***************************************************************************)
(* The servers that load_configuration leaves are those that the file      *)
(* describes, block by block: a proof for any set of files of any length   *)
(* over any names.                                                         *)
(***************************************************************************)
EXTENDS GrammarProofs

(* A word has pieces.                                                      *)
ValuesNotEmpty ==
  \A k \in 1 .. Len(tokens) : tokens[k].type = "VALUE" => tokens[k].value # <<>>

-----------------------------------------------------------------------------
(* What the tokens from f to e say of a server.                            *)

(* The places after a word.                                                *)
After(t, word, f, e) == {k \in f .. e : IsWord(t, k - 1, word)}

FilesFrom(t, last) ==
  {k \in last .. Len(t) : t[k].value \in Executable /\ \A j \in last .. k : IsA(t, j, "VALUE")}

AddressRead(s, t, f, e) ==
  /\ s.port = IF After(t, "listen", f, e) = {} THEN Unset
              ELSE WrittenPort(t[Latest(After(t, "listen", f, e))].value)
  /\ s.ip = IF After(t, "listen", f, e) = {} THEN <<>>
            ELSE WrittenAddress(t[Latest(After(t, "listen", f, e))].value)

IndexRead(s, t, f, e) ==
  s.index = IF After(t, "index", f, e) = {} THEN <<>>
            ELSE t[Earliest(FilesFrom(t, Latest(After(t, "index", f, e))))].value

PathsRead(s, t, f, e) == s.locations = {t[k].value : k \in After(t, "location", f, e)}

-----------------------------------------------------------------------------
(* Which block a server is of.                                             *)

Begins(t) == {k \in 1 .. Len(t) : IsWord(t, k, "server")}

NumberOf(t, i) == Cardinality({j \in Begins(t) : j < i})

(* From f to e there is one block, and the next begins behind it.          *)
IsBlock(t, f, e) ==
  /\ f \in Begins(t) /\ e \in f .. Len(t)
  /\ \A k \in f + 1 .. e : k \notin Begins(t)
  /\ e = Len(t) \/ e + 1 \in Begins(t)

Finished(all, t) ==
  \A n \in 1 .. Len(all) : \E f, e \in 1 .. Len(t) :
    /\ IsBlock(t, f, e) /\ NumberOf(t, f) = n - 1
    /\ AddressRead(all[n], t, f, e) /\ IndexRead(all[n], t, f, e) /\ PathsRead(all[n], t, f, e)

(* A path is kept when the location's '}' is read, two tokens later.       *)
PathsUpTo(state, i) ==
  IF state = "location_lbrace" THEN i - 2 ELSE IF state = "location_rbrace" THEN i - 3 ELSE i - 1

(* The block that begins at f is read up to i.                             *)
IsRead(s, t, f, i, state) ==
  /\ f \in Begins(t) /\ f < i /\ \A k \in f + 1 .. i - 1 : k \notin Begins(t)
  /\ AddressRead(s, t, f, i - 1) /\ IndexRead(s, t, f, i - 1)
  /\ PathsRead(s, t, f, PathsUpTo(state, i))

Written(t) ==
  /\ pc \in Looking \cup {"config"} => Finished(servers, t)
  /\ pc = "config" => NumberOf(t, current) = Len(servers)
  /\ pc \in Looking =>
       \E f \in 1 .. Len(t) : IsRead(server, t, f, current, pc) /\ NumberOf(t, f) = Len(servers)

WInv == ValuesNotEmpty /\ ServersAsWritten /\ (Grammatical(Words) => Written(Words))

-----------------------------------------------------------------------------
(* Places after a word.                                                    *)

LEMMA AfterSame ==
  ASSUME NEW t, NEW word, NEW f \in Int, NEW e \in Int, NEW to \in Int, e <= to,
         \A k \in e + 1 .. to : ~IsWord(t, k - 1, word)
  PROVE  After(t, word, f, to) = After(t, word, f, e)
<1>1. \A k \in f .. to : k \in f .. e \/ k \in e + 1 .. to
  OBVIOUS
<1>2. f .. e \subseteq f .. to
  OBVIOUS
<1>3. QED
  BY <1>1, <1>2 DEF After

LEMMA AfterOne ==
  ASSUME NEW t, NEW word, NEW f \in Int, NEW i \in Int, f <= i, IsWord(t, i - 1, word)
  PROVE  After(t, word, f, i) = After(t, word, f, i - 1) \cup {i}
<1>1. f .. i = (f .. i - 1) \cup {i}
  OBVIOUS
<1>2. QED
  BY <1>1 DEF After

LEMMA LatestIs ==
  ASSUME NEW S \in SUBSET Int, NEW x \in S, \A y \in S : y <= x
  PROVE  Latest(S) = x
<1>1. \A i \in S : (\A j \in S : j <= i) => i = x
  OBVIOUS
<1>2. QED
  BY <1>1 DEF Latest

LEMMA EarliestIs ==
  ASSUME NEW S \in SUBSET Int, NEW x \in S, \A y \in S : x <= y
  PROVE  Earliest(S) = x
<1>1. \A i \in S : (\A j \in S : i <= j) => i = x
  OBVIOUS
<1>2. QED
  BY <1>1 DEF Earliest

(* Tokens after which nothing is kept change nothing of what is read.      *)
LEMMA ReadSame ==
  ASSUME NEW t, NEW s, NEW f \in Int, NEW e \in Int, NEW to \in Int, e <= to
  PROVE  /\ (\A k \in e + 1 .. to : ~IsWord(t, k - 1, "listen")) =>
              (AddressRead(s, t, f, e) <=> AddressRead(s, t, f, to))
         /\ (\A k \in e + 1 .. to : ~IsWord(t, k - 1, "index")) =>
              (IndexRead(s, t, f, e) <=> IndexRead(s, t, f, to))
         /\ (\A k \in e + 1 .. to : ~IsWord(t, k - 1, "location")) =>
              (PathsRead(s, t, f, e) <=> PathsRead(s, t, f, to))
<1>1. (\A k \in e + 1 .. to : ~IsWord(t, k - 1, "listen")) =>
         After(t, "listen", f, to) = After(t, "listen", f, e)
  BY AfterSame
<1>2. (\A k \in e + 1 .. to : ~IsWord(t, k - 1, "index")) =>
         After(t, "index", f, to) = After(t, "index", f, e)
  BY AfterSame
<1>3. (\A k \in e + 1 .. to : ~IsWord(t, k - 1, "location")) =>
         After(t, "location", f, to) = After(t, "location", f, e)
  BY AfterSame
<1>4. QED
  BY <1>1, <1>2, <1>3 DEF AddressRead, IndexRead, PathsRead

LEMMA AddressNext ==
  ASSUME NEW t, NEW s, NEW f \in Int, NEW i \in Int, f <= i, IsWord(t, i - 1, "listen"),
         s.port = WrittenPort(t[i].value), s.ip = WrittenAddress(t[i].value)
  PROVE  AddressRead(s, t, f, i)
<1> DEFINE S == After(t, "listen", f, i)
<1>1. S = After(t, "listen", f, i - 1) \cup {i}
  BY AfterOne
<1>2. After(t, "listen", f, i - 1) \subseteq f .. i - 1
  BY DEF After
<1> HIDE DEF S
<1>3. S \in SUBSET Int /\ i \in S /\ \A y \in S : y <= i
  BY <1>1, <1>2
<1>4. Latest(S) = i /\ S # {}
  BY <1>3, LatestIs
<1>5. QED
  BY <1>4 DEF S, AddressRead

LEMMA PathsNext ==
  ASSUME NEW t, NEW s, NEW r, NEW f \in Int, NEW i \in Int, f <= i, IsWord(t, i - 1, "location"),
         PathsRead(s, t, f, i - 1), r.locations = s.locations \cup {t[i].value}
  PROVE  PathsRead(r, t, f, i)
<1>1. After(t, "location", f, i) = After(t, "location", f, i - 1) \cup {i}
  BY AfterOne
<1>2. QED
  BY <1>1 DEF PathsRead

(* The first usable of the values from i to before a.                      *)
LEMMA IndexNext ==
  ASSUME NEW t, NEW s, NEW f \in Int, NEW i \in Int, f <= i, IsWord(t, i - 1, "index"),
         Len(t) \in Nat, NEW a \in i .. Len(t) + 1, \A k \in i .. a - 1 : IsA(t, k, "VALUE"),
         a <= Len(t) => ~IsA(t, a, "VALUE"),
         s.index = t[Earliest(UsableIn(t, i, a - 1))].value
  PROVE  IndexRead(s, t, f, i)
<1> DEFINE S == After(t, "index", f, i)
<1> DEFINE N == Len(t)
<1>1. S = After(t, "index", f, i - 1) \cup {i}
  BY AfterOne
<1>2. After(t, "index", f, i - 1) \subseteq f .. i - 1
  BY DEF After
<1> HIDE DEF S
<1>3. S \in SUBSET Int /\ i \in S /\ \A y \in S : y <= i
  BY <1>1, <1>2
<1>4. Latest(S) = i /\ S # {}
  BY <1>3, LatestIs
<1>5. FilesFrom(t, i) = UsableIn(t, i, a - 1)
  <2>1. N \in Nat /\ a \in i .. N + 1
    OBVIOUS
  <2>2. a <= N => ~IsA(t, a, "VALUE")
    OBVIOUS
  <2> HIDE DEF N
  <2>3. i .. a - 1 \subseteq i .. N
    BY <2>1
  <2>4. \A k \in i .. a - 1 : i .. k \subseteq i .. a - 1
    BY <2>1
  <2>5. \A k \in i .. N : k \in i .. a - 1 \/ (a <= N /\ a \in i .. k)
    BY <2>1
  <2>6. FilesFrom(t, i) =
          {k \in i .. N : t[k].value \in Executable /\ \A j \in i .. k : IsA(t, j, "VALUE")}
    BY DEF FilesFrom, N
  <2>7. QED
    BY <2>2, <2>3, <2>4, <2>5, <2>6 DEF UsableIn
<1>6. QED
  BY <1>4, <1>5 DEF S, IndexRead

-----------------------------------------------------------------------------
(* Counting blocks.                                                        *)

LEMMA BeginsFinite ==
  ASSUME NEW t, Len(t) \in Nat, NEW i \in Int
  PROVE  /\ IsFiniteSet(Begins(t)) /\ IsFiniteSet({j \in Begins(t) : j < i})
         /\ NumberOf(t, i) \in Nat /\ Begins(t) \subseteq Int
<1> DEFINE N == Len(t)
<1>1. IsFiniteSet(1 .. N) /\ 1 .. N \subseteq Int
  <2>1. N \in Nat
    OBVIOUS
  <2> HIDE DEF N
  <2>2. QED
    BY <2>1, FS_Interval
<1>2. Begins(t) \in SUBSET (1 .. N)
  BY DEF Begins
<1>3. IsFiniteSet(Begins(t))
  BY <1>1, <1>2, FS_Subset
<1>4. {j \in Begins(t) : j < i} \in SUBSET Begins(t)
  OBVIOUS
<1>5. IsFiniteSet({j \in Begins(t) : j < i})
  BY <1>3, <1>4, FS_Subset
<1>6. NumberOf(t, i) \in Nat
  BY <1>5, FS_CardinalityType DEF NumberOf
<1>7. QED
  BY <1>1, <1>2, <1>3, <1>5, <1>6

LEMMA NumberNext ==
  ASSUME NEW t, Len(t) \in Nat, NEW f \in Begins(t), NEW i \in Int, f < i,
         \A k \in f + 1 .. i - 1 : k \notin Begins(t)
  PROVE  NumberOf(t, i) = NumberOf(t, f) + 1
<1> DEFINE A == {j \in Begins(t) : j < f}
<1> DEFINE B == {j \in Begins(t) : j < i}
<1>1. f \in Int /\ Begins(t) \subseteq Int
  BY BeginsFinite
<1>2. B = A \cup {f}
  <2>1. ASSUME NEW j \in B PROVE j \in A \cup {f}
    <3>1. j \in Int /\ j < i /\ j \notin f + 1 .. i - 1
      BY <1>1
    <3>2. j < f \/ j = f
      BY <1>1, <3>1
    <3>3. QED
      BY <3>2
  <2>2. ASSUME NEW j \in A \cup {f} PROVE j \in B
    <3>1. j \in Begins(t) /\ j \in Int /\ (j < f \/ j = f)
      BY <1>1
    <3>2. j < i
      BY <1>1, <3>1
    <3>3. QED
      BY <3>1, <3>2
  <2>3. QED
    BY <2>1, <2>2
<1>3. f \notin A
  <2>1. ~(f < f)
    BY <1>1
  <2>2. QED
    BY <2>1
<1>4. IsFiniteSet(A) /\ Cardinality(A) = NumberOf(t, f) /\ Cardinality(B) = NumberOf(t, i)
  BY <1>1, BeginsFinite DEF NumberOf
<1> HIDE DEF A, B
<1>5. Cardinality(A \cup {f}) = Cardinality(A) + 1
  BY <1>3, <1>4, FS_AddElement
<1>6. QED
  BY <1>2, <1>4, <1>5

LEMMA NumberUnique ==
  ASSUME NEW t, Len(t) \in Nat, NEW f \in Begins(t), NEW g \in Begins(t),
         NumberOf(t, f) = NumberOf(t, g)
  PROVE  f = g
<1>1. Begins(t) \subseteq Int /\ f \in Int /\ g \in Int
  <2>1. 0 \in Int
    OBVIOUS
  <2>2. QED
    BY <2>1, BeginsFinite
<1>2. ASSUME NEW a \in Begins(t), NEW b \in Begins(t), a < b, NumberOf(t, a) = NumberOf(t, b)
      PROVE  FALSE
  <2> DEFINE A == {j \in Begins(t) : j < a}
  <2> DEFINE B == {j \in Begins(t) : j < b}
  <2>1. a \in Int /\ b \in Int
    BY <1>1
  <2>2. A \in SUBSET B
    BY <1>1, <1>2, <2>1
  <2>3. a \in B /\ a \notin A
    BY <1>2, <2>1
  <2>4. IsFiniteSet(B) /\ Cardinality(A) = Cardinality(B)
    BY <1>2, <2>1, BeginsFinite DEF NumberOf
  <2> HIDE DEF A, B
  <2>5. A = B
    BY <2>2, <2>4, FS_Subset
  <2>6. QED
    BY <2>3, <2>5
<1>3. ~(f < g) /\ ~(g < f)
  BY <1>2
<1>4. QED
  BY <1>1, <1>3

(* A block of the file, by its number and by its ends.                     *)
LEMMA BlockIs ==
  ASSUME NEW t, Len(t) \in Nat, NEW f, NEW e, IsBlock(t, f, e), NEW n, NumberOf(t, f) = n - 1
  PROVE  Block(t, n) = f .. e
<1> DEFINE N == Len(t)
<1> DEFINE first == CHOOSE i \in Begins(t) : Cardinality({j \in Begins(t) : j < i}) = n - 1
<1>1. /\ f \in Begins(t) /\ e \in f .. N
      /\ \A k \in f + 1 .. e : k \notin Begins(t)
      /\ e = N \/ e + 1 \in Begins(t)
  BY DEF IsBlock
<1>2. first = f
  <2>1. Cardinality({j \in Begins(t) : j < f}) = n - 1
    BY DEF NumberOf
  <2>2. first \in Begins(t) /\ Cardinality({j \in Begins(t) : j < first}) = n - 1
    BY <1>1, <2>1
  <2> HIDE DEF first
  <2>3. NumberOf(t, first) = NumberOf(t, f)
    BY <2>2 DEF NumberOf
  <2>4. QED
    BY <1>1, <2>2, <2>3, NumberUnique
<1>3. Block(t, n) = {i \in first .. N : \A j \in Begins(t) : j > first => i < j}
  BY DEF Block, Begins
<1> HIDE DEF first
<1>4. Begins(t) \subseteq 1 .. N /\ N \in Nat
  BY DEF Begins
<1> HIDE DEF N
<1>5. ASSUME NEW i \in f .. N, \A j \in Begins(t) : j > f => i < j PROVE i \in f .. e
  <2>1. CASE e = N
    BY <2>1
  <2>2. CASE e + 1 \in Begins(t)
    <3>1. f \in Int /\ e \in Int /\ e + 1 > f
      BY <1>1, <1>4
    <3>2. i < e + 1
      BY <1>5, <2>2, <3>1
    <3>3. QED
      BY <3>1, <3>2
  <2>3. QED
    BY <1>1, <2>1, <2>2
<1>6. ASSUME NEW i \in f .. e PROVE i \in f .. N /\ \A j \in Begins(t) : j > f => i < j
  <2>1. f \in Int /\ e \in Int
    BY <1>1, <1>4
  <2>2. ASSUME NEW j \in Begins(t), j > f PROVE i < j
    <3>1. j \in Int /\ j \notin f + 1 .. e
      BY <1>1, <1>4
    <3>2. QED
      BY <2>1, <2>2, <3>1
  <2>3. i \in f .. N
    BY <1>1, <1>4, <2>1
  <2>4. QED
    BY <2>2, <2>3
<1>7. QED
  BY <1>2, <1>3, <1>5, <1>6

-----------------------------------------------------------------------------
(* Steps inside a block.                                                   *)

LEMMA WordsStay == tokens' = tokens => Words' = Words
<1> SUFFICES ASSUME tokens' = tokens PROVE Words' = Words
  OBVIOUS
<1>1. EndsWithEOF' = EndsWithEOF
  BY DEF EndsWithEOF
<1>2. QED
  BY <1>1 DEF Words

LEMMA ThrowKeeps ==
  ASSUME WInv, throw
  PROVE  WInv'
<1>1. tokens' = tokens /\ pc' \in {"rejected", "died"}
  BY DEF throw
<1>2. ValuesNotEmpty' /\ ServersAsWritten'
  BY <1>1 DEF WInv, ValuesNotEmpty, ServersAsWritten
<1>3. Written(Words)'
  BY <1>1 DEF Written, Looking
<1>4. QED
  BY <1>2, <1>3 DEF WInv

(* What is known of a file of the language while a block is read.          *)
LEMMA InBlock ==
  ASSUME IInv, GInv, WInv, pc \in Looking, NEW t, t = Words, Grammatical(t), NEW i, i = current
  PROVE  /\ i <= Len(t) /\ i \in 1 .. Len(t) /\ Len(t) \in Nat /\ Lexed(t)
         /\ MayStand(t, i) /\ Follows(t, i) /\ ~IsWord(t, i, "server")
         /\ Finished(servers, t)
         /\ \E f \in 1 .. Len(t) : IsRead(server, t, f, i, pc) /\ NumberOf(t, f) = Len(servers)
<1>1. i <= Len(t)
  BY InsideServer DEF Grammatical
<1>2. i \in 1 .. Len(t) /\ Len(t) \in Nat /\ Lexed(t) /\ Follows(t, i)
  BY <1>1, Situation
<1>3. MayStand(t, i)
  BY <1>2 DEF Grammatical
<1>4. ~IsWord(t, i, "server")
  <2>1. /\ i \in Int /\ i - 1 \in Int /\ i - 2 \in Int
        /\ i <= Len(t) /\ i - 1 <= Len(t) /\ i - 2 <= Len(t)
    BY <1>2, PlaceOf
  <2>2. CASE pc = "server"
    <3>1. ClosesLocation(t, i - 1) \/ EndsServerItem(t, i - 1)
      BY <1>2, <2>2 DEF Follows
    <3>2. KindAt(t, i) # "server"
      BY <1>2, <1>3, <3>1, MayFollow
    <3>3. QED
      BY <1>2, <2>1, <3>2, Kinds
  <2>3. CASE pc = "semicolon"
    <3>1. KindAt(t, i) = "SEMICOLON"
      BY <1>2, <1>3, <2>3, EndsDirectiveProperties DEF Follows
    <3>2. QED
      BY <1>2, <2>1, <3>1, Kinds
  <2>4. CASE pc \notin {"server", "semicolon"}
    <3>1. \/ KindAt(t, i - 1) \in {"server", "listen", "index", "location"}
          \/ KindAt(t, i - 1) = "VALUE" /\ KindAt(t, i - 2) = "location"
          \/ KindAt(t, i - 1) = "LBRACE" /\ KindAt(t, i - 2) = "VALUE"
      BY <1>2, <2>1, <2>4, Kinds DEF Follows, Looking
    <3>2. KindAt(t, i) # "server"
      BY <1>2, <1>3, <3>1, MayFollow
    <3>3. QED
      BY <1>2, <2>1, <3>2, Kinds
  <2>5. QED
    BY <2>2, <2>3, <2>4
<1>5. QED
  BY <1>1, <1>2, <1>3, <1>4 DEF WInv, Written

LEMMA BlockStep ==
  ASSUME IInv, GInv, WInv, pc \in Looking \cup {"config"}, NEW t, t = Words,
         tokens' = tokens, servers' = servers, pc' \in Looking,
         Grammatical(t) => \E f \in 1 .. Len(t) : /\ IsRead(server', t, f, current', pc')
                                                  /\ NumberOf(t, f) = Len(servers)
  PROVE  WInv'
<1>1. Words' = t
  BY WordsStay
<1>2. pc' # "accepted" /\ pc' # "config"
  BY DEF Looking
<1>3. ValuesNotEmpty' /\ ServersAsWritten'
  BY <1>2 DEF WInv, ValuesNotEmpty, ServersAsWritten
<1>4. ASSUME Grammatical(t) PROVE Written(t)'
  <2>1. Finished(servers, t)
    BY <1>4 DEF WInv, Written
  <2>2. QED
    BY <1>2, <1>4, <2>1 DEF Written
<1>5. QED
  BY <1>1, <1>3, <1>4 DEF WInv, Written

LEMMA BeforeKinds ==
  ASSUME NEW t, Lexed(t), Len(t) \in Nat, NEW i \in 1 .. Len(t), Follows(t, i),
         pc \in Looking \cup {"config"}
  PROVE  /\ pc # "listen" => ~IsWord(t, i - 1, "listen")
         /\ pc # "index" => ~IsWord(t, i - 1, "index")
         /\ pc # "location" => ~IsWord(t, i - 1, "location")
<1>1. /\ i - 1 \in Int /\ i - 1 <= Len(t) /\ i - 2 \in Int /\ i - 2 <= Len(t)
      /\ i = 1 => ~(i - 1 > 0)
  <2>1. i - 1 \in Int /\ i - 1 <= Len(t) /\ i - 2 \in Int /\ i - 2 <= Len(t)
    BY PlaceOf
  <2>2. QED
    BY <2>1
<1>2. /\ pc = "config" => KindAt(t, i - 1) \in {"none", "RBRACE"}
      /\ pc = "server_lbrace" => KindAt(t, i - 1) = "server"
      /\ pc = "server" => KindAt(t, i - 1) \in {"SEMICOLON", "LBRACE", "RBRACE"}
      /\ pc = "semicolon" => KindAt(t, i - 1) = "VALUE"
      /\ pc = "listen" => KindAt(t, i - 1) = "listen"
      /\ pc = "index" => KindAt(t, i - 1) = "index"
      /\ pc = "location" => KindAt(t, i - 1) = "location"
      /\ pc = "location_lbrace" => KindAt(t, i - 1) = "VALUE"
      /\ pc = "location_rbrace" => KindAt(t, i - 1) = "LBRACE"
  BY <1>1, Kinds DEF Follows, EndsServerItem, OpensServer, ClosesLocation, ClosesServer,
                     EndsDirective
<1>3. /\ IsWord(t, i - 1, "listen") <=> KindAt(t, i - 1) = "listen"
      /\ IsWord(t, i - 1, "index") <=> KindAt(t, i - 1) = "index"
      /\ IsWord(t, i - 1, "location") <=> KindAt(t, i - 1) = "location"
  BY <1>1, Kinds
<1>4. QED
  BY <1>2, <1>3 DEF Looking

(* A block that is read on to a place before the next one.                 *)
LEMMA ReadOn ==
  ASSUME NEW t, Len(t) \in Nat, NEW i \in 1 .. Len(t), NEW s, NEW f, NEW state,
         IsRead(s, t, f, i, state), NEW to \in Int, i <= to,
         \A k \in i .. to - 1 : ~IsWord(t, k, "server")
  PROVE  /\ f \in Begins(t) /\ f \in Int /\ f < i /\ f < to
         /\ \A k \in f + 1 .. to - 1 : k \notin Begins(t)
         /\ (\A k \in i .. to - 1 : ~IsWord(t, k - 1, "listen")) => AddressRead(s, t, f, to - 1)
         /\ (\A k \in i .. to - 1 : ~IsWord(t, k - 1, "index")) => IndexRead(s, t, f, to - 1)
         /\ (/\ PathsUpTo(state, i) = i - 1
             /\ \A k \in i .. to - 1 : ~IsWord(t, k - 1, "location")) => PathsRead(s, t, f, to - 1)
<1>1. i \in Int
  BY PlaceOf
<1>2. f \in Begins(t) /\ f < i
  BY DEF IsRead
<1>3. f \in Int
  BY <1>1, <1>2, BeginsFinite
<1>4. i - 1 \in Int /\ to - 1 \in Int /\ i - 1 <= to - 1 /\ i - 1 + 1 = i /\ f < to
      /\ \A k \in f + 1 .. to - 1 : k \in f + 1 .. i - 1 \/ k \in i .. to - 1
  BY <1>1, <1>2, <1>3
<1>5. \A k \in f + 1 .. to - 1 : k \notin Begins(t)
  BY <1>4 DEF IsRead, Begins
<1>6. /\ AddressRead(s, t, f, i - 1) /\ IndexRead(s, t, f, i - 1)
      /\ PathsUpTo(state, i) = i - 1 => PathsRead(s, t, f, i - 1)
  BY DEF IsRead
<1>7. QED
  BY <1>2, <1>3, <1>4, <1>5, <1>6, ReadSame

LEMMA NextRead ==
  ASSUME NEW t, Len(t) \in Nat, NEW i \in 1 .. Len(t), NEW s, NEW f, NEW state, NEW next,
         IsRead(s, t, f, i, state), ~IsWord(t, i, "server"),
         ~IsWord(t, i - 1, "listen"), ~IsWord(t, i - 1, "index"),
         \/ PathsUpTo(next, i + 1) = PathsUpTo(state, i)
         \/ /\ PathsUpTo(state, i) = i - 1 /\ PathsUpTo(next, i + 1) = i
            /\ ~IsWord(t, i - 1, "location")
  PROVE  IsRead(s, t, f, i + 1, next)
<1>1. i \in Int /\ i + 1 \in Int /\ i <= i + 1 /\ i + 1 - 1 = i /\ \A k \in i .. i : k = i
  <2>1. i \in Int
    BY PlaceOf
  <2>2. QED
    BY <2>1
<1>2. /\ f \in Begins(t) /\ f < i + 1 /\ \A k \in f + 1 .. i : k \notin Begins(t)
      /\ AddressRead(s, t, f, i) /\ IndexRead(s, t, f, i)
      /\ PathsUpTo(state, i) = i - 1 /\ ~IsWord(t, i - 1, "location") => PathsRead(s, t, f, i)
  BY <1>1, ReadOn
<1>3. PathsRead(s, t, f, PathsUpTo(next, i + 1))
  <2>1. PathsRead(s, t, f, PathsUpTo(state, i))
    BY DEF IsRead
  <2>2. QED
    BY <1>2, <2>1
<1>4. QED
  BY <1>1, <1>2, <1>3 DEF IsRead

(* One token is read, and nothing of it is kept.                           *)
LEMMA StepOver ==
  ASSUME IInv, GInv, WInv, pc \in Looking \ {"listen", "index", "location_rbrace"},
         NEW next \in Looking, go(next), advance_token, UNCHANGED <<servers, server>>,
         \/ pc = "location" /\ next = "location_lbrace"
         \/ pc = "location_lbrace" /\ next = "location_rbrace"
         \/ /\ pc \notin {"location", "location_lbrace"}
            /\ next \notin {"location_lbrace", "location_rbrace"}
  PROVE  WInv'
<1>1. PICK t : t = Words
  OBVIOUS
<1>2. PICK i : i = current
  OBVIOUS
<1>3. pc' = next /\ tokens' = tokens
  BY DEF go
<1>4. ASSUME Grammatical(t)
      PROVE  \E f \in 1 .. Len(t) : IsRead(server, t, f, i + 1, next) /\ NumberOf(t, f) = Len(servers)
  <2>1. /\ i <= Len(t) /\ i \in 1 .. Len(t) /\ Len(t) \in Nat /\ Lexed(t)
        /\ Follows(t, i) /\ ~IsWord(t, i, "server")
    BY <1>1, <1>2, <1>4, InBlock
  <2>2. PICK f \in 1 .. Len(t) : IsRead(server, t, f, i, pc) /\ NumberOf(t, f) = Len(servers)
    BY <1>1, <1>2, <1>4, InBlock
  <2>3. /\ ~IsWord(t, i - 1, "listen") /\ ~IsWord(t, i - 1, "index")
        /\ pc # "location" => ~IsWord(t, i - 1, "location")
    BY <2>1, BeforeKinds
  <2>4. i \in Int
    BY <2>1, PlaceOf
  <2>5. \/ PathsUpTo(next, i + 1) = PathsUpTo(pc, i)
        \/ /\ PathsUpTo(pc, i) = i - 1 /\ PathsUpTo(next, i + 1) = i
           /\ ~IsWord(t, i - 1, "location")
    <3>1. CASE pc = "location" /\ next = "location_lbrace"
      BY <2>4, <3>1 DEF PathsUpTo
    <3>2. CASE pc = "location_lbrace" /\ next = "location_rbrace"
      BY <2>4, <3>2 DEF PathsUpTo
    <3>3. CASE /\ pc \notin {"location", "location_lbrace"}
               /\ next \notin {"location_lbrace", "location_rbrace"}
      <4>1. PathsUpTo(pc, i) = i - 1
        BY <3>3 DEF PathsUpTo, Looking
      <4>2. PathsUpTo(next, i + 1) = i
        BY <2>4, <3>3 DEF PathsUpTo
      <4>3. QED
        BY <2>3, <3>3, <4>1, <4>2
    <3>4. QED
      BY <3>1, <3>2, <3>3
  <2>6. IsRead(server, t, f, i + 1, next)
    BY <2>1, <2>2, <2>3, <2>5, NextRead
  <2>7. QED
    BY <2>2, <2>6
<1>5. Grammatical(t) => current' = i + 1
  <2>1. ASSUME Grammatical(t) PROVE i <= Len(t)
    BY <1>1, <1>2, <2>1, InBlock
  <2>2. i <= Len(t) => ~is_at_end
    BY <1>1, <1>2, Places
  <2>3. QED
    BY <1>2, <2>1, <2>2 DEF advance_token
<1>6. Grammatical(t) => \E f \in 1 .. Len(t) : /\ IsRead(server', t, f, current', pc')
                                               /\ NumberOf(t, f) = Len(servers)
  BY <1>3, <1>4, <1>5
<1>7. QED
  BY <1>1, <1>3, <1>6, BlockStep

(* '{' after server, ';', '{' after a path, the words that begin a         *)
(* directive or a location and a path.                                     *)
LEMMA TokensSteppedOver ==
  ASSUME IInv, GInv, WInv,
         \/ server_lbrace \/ semicolon \/ location_lbrace \/ location_begins \/ location_url
         \/ parse_server_directives("listen") \/ parse_server_directives("index")
  PROVE  WInv'
<1> USE DEF Looking
<1>1. CASE server_lbrace
  BY <1>1, StepOver, ThrowKeeps DEF server_lbrace, expected_token_type, blockVars
<1>2. CASE semicolon
  BY <1>2, StepOver, ThrowKeeps DEF semicolon, expected_token_type, blockVars
<1>3. CASE location_lbrace
  BY <1>3, StepOver, ThrowKeeps DEF location_lbrace, expected_token_type, blockVars
<1>4. CASE location_begins
  BY <1>4, StepOver DEF location_begins, InServer, blockVars
<1>5. CASE location_url
  BY <1>5, StepOver, ThrowKeeps DEF location_url, blockVars
<1>6. CASE parse_server_directives("listen")
  BY <1>6, StepOver DEF parse_server_directives, InServer, blockVars
<1>7. CASE parse_server_directives("index")
  BY <1>7, StepOver DEF parse_server_directives, InServer, blockVars
<1>8. QED
  BY <1>1, <1>2, <1>3, <1>4, <1>5, <1>6, <1>7

-----------------------------------------------------------------------------
(* What is kept.                                                           *)

LEMMA ServerFields ==
  ASSUME NEW srv \in Server
  PROVE  /\ \A x, new : new = [srv EXCEPT !.locations = x] =>
              /\ new.locations = x
              /\ new.port = srv.port /\ new.ip = srv.ip /\ new.index = srv.index
         /\ \A x, new : new = [srv EXCEPT !.index = x] =>
              /\ new.index = x
              /\ new.port = srv.port /\ new.ip = srv.ip /\ new.locations = srv.locations
<1> DEFINE Word == Seq(Piece)
<1> DEFINE Port == (0 .. MaxPort) \cup {Unset}
<1>1. srv \in [port : Port, ip : Word, index : Word, locations : SUBSET Word]
  BY Zenon DEF Server
<1> HIDE DEF Word, Port
<1>2. QED
  BY <1>1

(* The '}' of a location keeps its path.                                   *)
LEMMA PathKept ==
  ASSUME IInv, GInv, WInv, location_rbrace
  PROVE  WInv'
<1>1. PICK t : t = Words
  OBVIOUS
<1>2. PICK i : i = current
  OBVIOUS
<1>3. pc = "location_rbrace" /\ pc \in Looking
  BY DEF location_rbrace, Looking
<1>4. CASE ~is_token_type("RBRACE")
  BY <1>4, ThrowKeeps DEF location_rbrace
<1>5. CASE is_token_type("RBRACE")
  <2>1. /\ server' = [server EXCEPT !.locations = @ \cup {At(current - 2).value}]
        /\ pc' = "server" /\ tokens' = tokens /\ servers' = servers /\ advance_token
    BY <1>5 DEF location_rbrace, go
  <2>2. ASSUME Grammatical(t)
        PROVE  \E f \in 1 .. Len(t) : IsRead(server', t, f, i + 1, "server")
                                       /\ NumberOf(t, f) = Len(servers)
    <3>1. /\ i <= Len(t) /\ i \in 1 .. Len(t) /\ Len(t) \in Nat /\ Lexed(t)
          /\ Follows(t, i) /\ ~IsWord(t, i, "server")
      BY <1>1, <1>2, <1>3, <2>2, InBlock
    <3>2. PICK f \in 1 .. Len(t) : IsRead(server, t, f, i, pc) /\ NumberOf(t, f) = Len(servers)
      BY <1>1, <1>2, <1>3, <2>2, InBlock
    <3>3. IsA(t, i - 1, "LBRACE") /\ IsA(t, i - 2, "VALUE") /\ i - 2 > 0
      BY <1>3, <3>1 DEF Follows, IsA
    <3>4. /\ i \in Int /\ i + 1 \in Int /\ i - 1 \in 1 .. Len(t) /\ i - 2 \in 1 .. Len(t) /\ i - 3 \in Int
          /\ i - 3 <= Len(t) /\ i - 1 - 1 = i - 2 /\ i - 1 - 2 = i - 3
          /\ i - 2 - 1 = i - 3 /\ i + 1 - 1 = i /\ i <= i + 1 /\ i - 2 <= i /\ i - 3 <= i - 2
          /\ \A k \in i .. i : k = i
          /\ \A k \in i - 2 + 1 .. i : k - 1 = i - 2 \/ k - 1 = i - 1
          /\ i - 1 <= Len(t) /\ i - 2 <= Len(t)
      <4> DEFINE N == Len(t)
      <4>1. i \in 1 .. N /\ N \in Nat /\ i - 2 > 0
        BY <3>1, <3>3
      <4> HIDE DEF N
      <4>2. /\ i \in Int /\ i + 1 \in Int /\ i - 1 \in 1 .. N /\ i - 2 \in 1 .. N /\ i - 3 \in Int
            /\ i - 3 <= N /\ i - 1 - 1 = i - 2 /\ i - 1 - 2 = i - 3
            /\ i - 2 - 1 = i - 3 /\ i + 1 - 1 = i /\ i <= i + 1 /\ i - 2 <= i /\ i - 3 <= i - 2
            /\ \A k \in i .. i : k = i
            /\ \A k \in i - 2 + 1 .. i : k - 1 = i - 2 \/ k - 1 = i - 1
            /\ i - 1 <= N /\ i - 2 <= N
        BY <4>1
      <4>3. QED
        BY <4>2 DEF N
    <3>5. KindAt(t, i - 1) = "LBRACE" /\ KindAt(t, i - 2) = "VALUE"
      BY <3>1, <3>3, <3>4, Kinds
    <3>6. KindAt(t, i - 3) = "location"
      <4> DEFINE j == i - 1
      <4>1. j \in 1 .. Len(t) /\ MayStand(t, j) /\ j - 1 = i - 2 /\ j - 2 = i - 3
        BY <2>2, <3>4 DEF Grammatical
      <4> HIDE DEF j
      <4>2. KindAt(t, j - 1) = "VALUE" =>
              (KindAt(t, j - 2) # "location" /\ KindAt(t, j) # "VALUE" => KindAt(t, j) = "SEMICOLON")
        BY <3>1, <4>1, MayFollow
      <4>3. KindAt(t, j) = "LBRACE"
        BY <3>5 DEF j
      <4>4. QED
        BY <3>5, <4>1, <4>2, <4>3
    <3>7. IsWord(t, i - 3, "location")
      BY <3>1, <3>4, <3>6, Kinds
    <3>8. /\ ~IsWord(t, i - 1, "listen") /\ ~IsWord(t, i - 1, "index")
          /\ ~IsWord(t, i - 1, "location") /\ ~IsWord(t, i - 2, "location")
          /\ ~IsWord(t, i - 1, "server") /\ ~IsWord(t, i - 2, "server")
      BY <3>1, <3>4, <3>5, Kinds
    <3>9. /\ f \in Begins(t) /\ f \in Int /\ f < i /\ f < i + 1
          /\ \A k \in f + 1 .. i : k \notin Begins(t)
          /\ AddressRead(server, t, f, i) /\ IndexRead(server, t, f, i)
      <4> DEFINE to == i + 1
      <4>1. to \in Int /\ i <= to /\ to - 1 = i
        BY <3>4
      <4>2. \A k \in i .. i : /\ ~IsWord(t, k, "server") /\ ~IsWord(t, k - 1, "listen")
                              /\ ~IsWord(t, k - 1, "index")
        BY <3>1, <3>4, <3>8
      <4> HIDE DEF to
      <4>3. /\ f \in Begins(t) /\ f \in Int /\ f < i /\ f < to
            /\ \A k \in f + 1 .. to - 1 : k \notin Begins(t)
            /\ AddressRead(server, t, f, to - 1) /\ IndexRead(server, t, f, to - 1)
        BY <3>1, <3>2, <4>1, <4>2, ReadOn
      <4>4. QED
        BY <4>1, <4>3 DEF to
    <3>10. At(current - 2).value = t[i - 2].value
      <4>1. tokens[i - 2] = t[i - 2]
        BY <1>1, <3>4, WordsProperties DEF GInv
      <4>2. ~Beyond(i - 2)
        <5>1. ~Beyond(i)
          BY <1>1, <1>2, <1>3, <3>1, Places
        <5> DEFINE n == Len(tokens)
        <5>2. n \in Nat /\ ~(i > n)
          BY <5>1, LenTypes DEF IInv, Beyond
        <5>3. ~(i - 2 > n)
          <6> HIDE DEF n
          <6>1. QED
            BY <3>4, <5>2
        <5>4. QED
          BY <5>3 DEF Beyond
      <4>3. QED
        BY <1>2, <4>1, <4>2 DEF At
    <3>11. /\ server'.locations = server.locations \cup {t[i - 2].value}
           /\ server'.port = server.port /\ server'.ip = server.ip /\ server'.index = server.index
      <4>1. server \in Server
        BY DEF IInv, TypeOK
      <4> DEFINE more == server.locations \cup {t[i - 2].value}
      <4>2. server' = [server EXCEPT !.locations = more]
        BY <2>1, <3>10
      <4> HIDE DEF more
      <4>3. /\ server'.locations = more
            /\ server'.port = server.port /\ server'.ip = server.ip /\ server'.index = server.index
        BY <4>1, <4>2, ServerFields
      <4>4. QED
        BY <4>3 DEF more
    <3>12. AddressRead(server', t, f, i) /\ IndexRead(server', t, f, i)
      BY <3>9, <3>11 DEF AddressRead, IndexRead
    <3>13. PathsRead(server', t, f, i)
      <4>1. PathsRead(server, t, f, i - 3)
        BY <1>3, <3>2 DEF IsRead, PathsUpTo
      <4>2. f <= i - 2
        <5>1. f # i - 1
          BY <3>8, <3>9 DEF Begins
        <5>2. QED
          BY <3>4, <3>9, <5>1
      <4> DEFINE j == i - 2
      <4>3. j \in Int /\ j - 1 = i - 3 /\ f <= j
        BY <3>4, <4>2
      <4> HIDE DEF j
      <4>4. IsWord(t, j - 1, "location") /\ PathsRead(server, t, f, j - 1)
            /\ server'.locations = server.locations \cup {t[j].value}
        BY <3>7, <3>11, <4>1, <4>3 DEF j
      <4>5. PathsRead(server', t, f, j)
        BY <3>9, <4>3, <4>4, PathsNext
      <4>6. j <= i /\ \A k \in j + 1 .. i : ~IsWord(t, k - 1, "location")
        BY <3>4, <3>8 DEF j
      <4>7. QED
        BY <3>4, <3>9, <4>3, <4>5, <4>6, ReadSame
    <3>14. PathsUpTo("server", i + 1) = i
      BY <3>4 DEF PathsUpTo
    <3>15. IsRead(server', t, f, i + 1, "server")
      BY <3>4, <3>9, <3>12, <3>13, <3>14 DEF IsRead
    <3>16. QED
      BY <3>2, <3>15
  <2>3. Grammatical(t) => current' = i + 1
    <3>1. ASSUME Grammatical(t) PROVE i <= Len(t)
      BY <1>1, <1>2, <1>3, <3>1, InBlock
    <3>2. i <= Len(t) => ~is_at_end
      BY <1>1, <1>2, <1>3, Places
    <3>3. QED
      BY <1>2, <2>1, <3>1, <3>2 DEF advance_token
  <2>4. Grammatical(t) => \E f \in 1 .. Len(t) : /\ IsRead(server', t, f, current', pc')
                                                 /\ NumberOf(t, f) = Len(servers)
    BY <2>1, <2>2, <2>3
  <2>5. pc' \in Looking
    BY <2>1 DEF Looking
  <2>6. QED
    BY <1>1, <1>3, <2>1, <2>4, <2>5, BlockStep
<1>6. QED
  BY <1>4, <1>5

(* The value of listen is kept.                                            *)
LEMMA AddressKept ==
  ASSUME IInv, GInv, WInv, parse_listen_directive
  PROVE  WInv'
<1>1. PICK t : t = Words
  OBVIOUS
<1>2. PICK i : i = current
  OBVIOUS
<1>3. pc = "listen" /\ pc \in Looking
  BY DEF parse_listen_directive, Looking
<1>4. CASE ~is_listen_value(At(current).value)
  BY <1>4, ThrowKeeps DEF parse_listen_directive
<1>5. CASE is_listen_value(At(current).value)
  <2>1. /\ pc' = "semicolon" /\ tokens' = tokens /\ servers' = servers /\ advance_token
    BY <1>5 DEF parse_listen_directive, go
  <2>2. ASSUME Grammatical(t)
        PROVE  \E f \in 1 .. Len(t) : IsRead(server', t, f, i + 1, "semicolon")
                                       /\ NumberOf(t, f) = Len(servers)
    <3>1. /\ i <= Len(t) /\ i \in 1 .. Len(t) /\ Len(t) \in Nat /\ Lexed(t)
          /\ Follows(t, i) /\ ~IsWord(t, i, "server")
      BY <1>1, <1>2, <1>3, <2>2, InBlock
    <3>2. PICK f \in 1 .. Len(t) : IsRead(server, t, f, i, pc) /\ NumberOf(t, f) = Len(servers)
      BY <1>1, <1>2, <1>3, <2>2, InBlock
    <3>3. IsWord(t, i - 1, "listen")
      BY <1>3, <3>1 DEF Follows
    <3>4. ~IsWord(t, i - 1, "index") /\ ~IsWord(t, i - 1, "location")
      BY <1>3, <3>1, BeforeKinds
    <3>5. /\ i \in Int /\ i + 1 \in Int /\ i <= i + 1 /\ i + 1 - 1 = i
          /\ \A k \in i .. i : k = i
      <4>1. i \in Int
        BY <3>1, PlaceOf
      <4>2. QED
        BY <4>1
    <3>6. /\ f \in Begins(t) /\ f \in Int /\ f < i /\ f < i + 1
          /\ \A k \in f + 1 .. i : k \notin Begins(t)
          /\ IndexRead(server, t, f, i) /\ PathsRead(server, t, f, i)
      <4> DEFINE to == i + 1
      <4>1. to \in Int /\ i <= to /\ to - 1 = i
        BY <3>5
      <4>2. \A k \in i .. i : /\ ~IsWord(t, k, "server") /\ ~IsWord(t, k - 1, "index")
                              /\ ~IsWord(t, k - 1, "location")
        BY <3>1, <3>4, <3>5
      <4>3. PathsUpTo(pc, i) = i - 1
        BY <1>3 DEF PathsUpTo
      <4> HIDE DEF to
      <4>4. /\ f \in Begins(t) /\ f \in Int /\ f < i /\ f < to
            /\ \A k \in f + 1 .. to - 1 : k \notin Begins(t)
            /\ IndexRead(server, t, f, to - 1) /\ PathsRead(server, t, f, to - 1)
        BY <3>1, <3>2, <4>1, <4>2, <4>3, ReadOn
      <4>5. QED
        BY <4>1, <4>4 DEF to
    <3>7. At(current) = t[i] /\ tokens[i] = t[i] /\ i \in 1 .. Len(tokens)
      <4>1. At(current) = t[i] /\ ~Beyond(i)
        BY <1>1, <1>2, <1>3, <3>1, Places
      <4>2. At(current) = tokens[i]
        BY <1>2, <4>1 DEF At
      <4>3. i \in 1 .. Len(tokens)
        <5> DEFINE n == Len(tokens)
        <5>1. n \in Nat /\ ~(i > n) /\ i \in 1 .. n + 1
          BY <1>2, <4>1, LenTypes DEF IInv, Beyond
        <5> HIDE DEF n
        <5>2. i \in 1 .. n
          BY <5>1
        <5>3. QED
          BY <5>2 DEF n
      <4>4. QED
        BY <4>1, <4>2, <4>3
    <3>8. t[i].value # <<>>
      <4> DEFINE tok == t[i]
      <4>1. Typed(tok) /\ tok.type # "EOF" /\ is_listen_value(tok.value)
        BY <1>5, <3>1, <3>7 DEF Lexed
      <4>2. tok.type = "VALUE"
        <5> HIDE DEF tok
        <5>1. QED
          BY <4>1, ListenIsValue
      <4>3. QED
        BY <3>7, <4>2 DEF WInv, ValuesNotEmpty
    <3>9. /\ server'.port = WrittenPort(t[i].value) /\ server'.ip = WrittenAddress(t[i].value)
          /\ server'.index = server.index /\ server'.locations = server.locations
      <4> DEFINE number == Number(PortOf(t[i].value)[1])
      <4> DEFINE host == IpOf(t[i].value)
      <4>1. server' = [server EXCEPT !.port = number, !.ip = host]
        BY <1>5, <3>7, <3>8 DEF parse_listen_directive
      <4> DEFINE Word == Seq(Piece)
      <4> DEFINE Port == (0 .. MaxPort) \cup {Unset}
      <4>2. server \in [port : Port, ip : Word, index : Word, locations : SUBSET Word]
        BY Zenon DEF IInv, TypeOK, Server
      <4> HIDE DEF number, host, Word, Port
      <4>3. /\ server'.port = number /\ server'.ip = host
            /\ server'.index = server.index /\ server'.locations = server.locations
        BY <4>1, <4>2
      <4>4. /\ Number(PortOf(t[i].value)[1]) = WrittenPort(t[i].value)
            /\ IpOf(t[i].value) = WrittenAddress(t[i].value)
        BY <1>5, <3>1, <3>7, <3>8, ValueOfToken, WordsOfListen
      <4>5. QED
        BY <4>3, <4>4 DEF number, host
    <3>10. AddressRead(server', t, f, i)
      <4>1. f <= i
        BY <3>5, <3>6
      <4>2. QED
        BY <3>3, <3>5, <3>6, <3>9, <4>1, AddressNext
    <3>11. IndexRead(server', t, f, i) /\ PathsRead(server', t, f, i)
      BY <3>6, <3>9 DEF IndexRead, PathsRead
    <3>12. PathsUpTo("semicolon", i + 1) = i
      BY <3>5 DEF PathsUpTo
    <3>13. IsRead(server', t, f, i + 1, "semicolon")
      BY <3>5, <3>6, <3>10, <3>11, <3>12 DEF IsRead
    <3>14. QED
      BY <3>2, <3>13
  <2>3. Grammatical(t) => current' = i + 1
    <3>1. ASSUME Grammatical(t) PROVE i <= Len(t)
      BY <1>1, <1>2, <1>3, <3>1, InBlock
    <3>2. i <= Len(t) => ~is_at_end
      BY <1>1, <1>2, <1>3, Places
    <3>3. QED
      BY <1>2, <2>1, <3>1, <3>2 DEF advance_token
  <2>4. Grammatical(t) => \E f \in 1 .. Len(t) : /\ IsRead(server', t, f, current', pc')
                                                 /\ NumberOf(t, f) = Len(servers)
    BY <2>1, <2>2, <2>3
  <2>5. pc' \in Looking
    BY <2>1 DEF Looking
  <2>6. QED
    BY <1>1, <1>3, <2>1, <2>4, <2>5, BlockStep
<1>6. QED
  BY <1>4, <1>5

(* The first usable file is kept, and all values are stepped over.         *)
LEMMA IndexKept ==
  ASSUME IInv, GInv, WInv, parse_index_directive
  PROVE  WInv'
<1>1. PICK t : t = Words
  OBVIOUS
<1>2. PICK i : i = current
  OBVIOUS
<1>3. PICK a : a = AfterValues
  OBVIOUS
<1>4. pc = "index" /\ pc \in Looking
  BY DEF parse_index_directive, Looking
<1> DEFINE usable == Usable(current, AfterValues - 1)
<1>5. CASE usable = {}
  BY <1>5, ThrowKeeps DEF parse_index_directive
<1>6. CASE usable # {}
  <2>1. /\ pc' = "semicolon" /\ tokens' = tokens /\ servers' = servers /\ current' = a
        /\ server' = [server EXCEPT !.index = tokens[Earliest(usable)].value]
    BY <1>3, <1>6 DEF parse_index_directive, go, Earliest
  <2>2. ASSUME Grammatical(t)
        PROVE  \E f \in 1 .. Len(t) : IsRead(server', t, f, a, "semicolon")
                                       /\ NumberOf(t, f) = Len(servers)
    <3>1. /\ i <= Len(t) /\ i \in 1 .. Len(t) /\ Len(t) \in Nat /\ Lexed(t)
      BY <1>1, <1>2, <1>4, <2>2, InBlock
    <3>2. PICK f \in 1 .. Len(t) : IsRead(server, t, f, i, pc) /\ NumberOf(t, f) = Len(servers)
      BY <1>1, <1>2, <1>4, <2>2, InBlock
    <3>3. /\ a \in i .. Len(t) + 1
          /\ \A k \in i .. a - 1 : KindAt(t, k) = "VALUE" /\ k \in 1 .. Len(t) /\ t[k] = tokens[k]
          /\ a <= Len(t) => t[a].type # "VALUE"
          /\ i - 1 \in 1 .. Len(t) /\ KindAt(t, i - 1) = "index" /\ IsWord(t, i - 1, "index")
      BY <1>1, <1>2, <1>3, <1>4, <3>1, ValuesOfIndex
    <3>4. usable = UsableIn(t, i, a - 1)
      BY <1>2, <1>3, <3>3 DEF Usable, UsableIn
    <3>5. /\ i \in Int /\ a \in Int /\ i < a /\ i <= a - 1 /\ i <= a /\ a - 1 \in Int
          /\ i .. a - 1 \subseteq Nat
          /\ \A k \in i .. a - 1 : k - 1 = i - 1 \/ k - 1 \in i .. a - 1
          /\ \A k \in i + 1 .. a - 1 : k - 1 \in i .. a - 1
      <4>1. PICK k : k \in i .. a - 1
        BY <1>6, <3>4 DEF UsableIn
      <4> DEFINE N == Len(t)
      <4>2. i \in 1 .. N /\ a \in i .. N + 1 /\ N \in Nat
        BY <3>1, <3>3
      <4> HIDE DEF N, usable
      <4>3. QED
        BY <4>1, <4>2
    <3>6. \A k \in i .. a - 1 : /\ IsA(t, k, "VALUE") /\ ~IsWord(t, k, "server")
                                /\ ~IsWord(t, k, "listen") /\ ~IsWord(t, k, "index")
                                /\ ~IsWord(t, k, "location")
      <4> TAKE k \in i .. a - 1
      <4>1. KindAt(t, k) = "VALUE" /\ k \in Int /\ k <= Len(t)
        BY <3>1, <3>3, PlaceOf
      <4>2. QED
        BY <3>1, <4>1, Kinds
    <3>7. ~IsWord(t, i - 1, "listen") /\ ~IsWord(t, i - 1, "location")
      <4>1. i - 1 \in Int /\ i - 1 <= Len(t)
        BY <3>1, PlaceOf
      <4>2. QED
        BY <3>1, <3>3, <4>1, Kinds
    <3>8. \A k \in i .. a - 1 : ~IsWord(t, k - 1, "listen") /\ ~IsWord(t, k - 1, "location")
      BY <3>5, <3>6, <3>7
    <3>9. /\ f \in Begins(t) /\ f \in Int /\ f < i /\ f < a
          /\ \A k \in f + 1 .. a - 1 : k \notin Begins(t)
          /\ AddressRead(server, t, f, a - 1) /\ PathsRead(server, t, f, a - 1)
      <4>1. PathsUpTo(pc, i) = i - 1
        BY <1>4 DEF PathsUpTo
      <4>2. QED
        BY <3>1, <3>2, <3>5, <3>6, <3>8, <4>1, ReadOn
    <3>10. Earliest(usable) \in i .. a - 1
      <4>1. usable \subseteq i .. a - 1
        BY <3>4 DEF UsableIn
      <4> HIDE DEF usable
      <4>2. usable \subseteq Nat /\ usable # {}
        BY <1>6, <3>5, <4>1
      <4>3. \E x \in usable : \A y \in usable : x <= y
        BY <4>2, LeastNatural
      <4>4. Earliest(usable) \in usable
        BY <4>3 DEF Earliest
      <4>5. QED
        BY <4>1, <4>4
    <3>11. /\ server'.index = t[Earliest(UsableIn(t, i, a - 1))].value
           /\ server'.port = server.port /\ server'.ip = server.ip
           /\ server'.locations = server.locations
      <4> DEFINE file == tokens[Earliest(usable)].value
      <4>1. server' = [server EXCEPT !.index = file] /\ server \in Server
        BY <2>1 DEF IInv, TypeOK
      <4>2. file = t[Earliest(UsableIn(t, i, a - 1))].value
        BY <3>3, <3>4, <3>10
      <4> HIDE DEF file, usable
      <4>3. /\ server'.index = file /\ server'.port = server.port /\ server'.ip = server.ip
            /\ server'.locations = server.locations
        BY <4>1, ServerFields
      <4>4. QED
        BY <4>2, <4>3
    <3>12. IndexRead(server', t, f, a - 1)
      <4>1. f <= i /\ (a <= Len(t) => ~IsA(t, a, "VALUE"))
        BY <3>3, <3>5, <3>9 DEF IsA
      <4>2. IndexRead(server', t, f, i)
        BY <3>1, <3>3, <3>5, <3>6, <3>9, <3>11, <4>1, IndexNext
      <4>3. \A k \in i + 1 .. a - 1 : ~IsWord(t, k - 1, "index")
        BY <3>5, <3>6
      <4>4. QED
        BY <3>5, <3>9, <4>2, <4>3, ReadSame
    <3>13. AddressRead(server', t, f, a - 1) /\ PathsRead(server', t, f, a - 1)
      BY <3>9, <3>11 DEF AddressRead, PathsRead
    <3>14. PathsUpTo("semicolon", a) = a - 1
      BY DEF PathsUpTo
    <3>15. IsRead(server', t, f, a, "semicolon")
      BY <3>9, <3>12, <3>13, <3>14 DEF IsRead
    <3>16. QED
      BY <3>2, <3>15
  <2>3. Grammatical(t) => \E f \in 1 .. Len(t) : /\ IsRead(server', t, f, current', pc')
                                                 /\ NumberOf(t, f) = Len(servers)
    BY <2>1, <2>2
  <2>4. pc' \in Looking
    BY <2>1 DEF Looking
  <2>5. QED
    BY <1>1, <1>4, <2>1, <2>3, <2>4, BlockStep
<1>7. QED
  BY <1>5, <1>6

-----------------------------------------------------------------------------
(* Blocks begin and end.                                                   *)

LEMMA BlockBegins ==
  ASSUME IInv, GInv, WInv, config_server
  PROVE  WInv'
<1>1. PICK t : t = Words
  OBVIOUS
<1>2. PICK i : i = current
  OBVIOUS
<1>3. /\ pc = "config" /\ AtServer /\ ~is_at_end /\ advance_token /\ tokens' = tokens
      /\ pc' = "server_lbrace" /\ server' = unread_server /\ servers' = servers
  BY DEF config_server, AtServer, go, new_server
<1>4. i <= Len(t)
  BY <1>1, <1>2, <1>3, Places
<1>5. /\ Lexed(t) /\ Len(t) \in Nat /\ i \in 1 .. Len(t) /\ Follows(t, i)
      /\ KindAt(t, i) = "server"
  BY <1>1, <1>2, <1>3, <1>4, Situation DEF AtServer
<1>6. /\ i \in Int /\ i + 1 - 1 = i /\ i < i + 1
      /\ (\A k \in i .. i : k = i) /\ \A k \in i + 1 .. i : FALSE
  <2>1. i \in Int
    BY <1>5, PlaceOf
  <2>2. QED
    BY <2>1
<1>7. i \in Begins(t)
  BY <1>4, <1>5, <1>6, Kinds DEF Begins
<1>8. /\ ~IsWord(t, i - 1, "listen") /\ ~IsWord(t, i - 1, "index")
      /\ ~IsWord(t, i - 1, "location")
  BY <1>3, <1>5, BeforeKinds
<1>9. /\ After(t, "listen", i, i) = {} /\ After(t, "index", i, i) = {}
      /\ After(t, "location", i, i) = {}
  BY <1>6, <1>8 DEF After
<1>10. /\ AddressRead(unread_server, t, i, i) /\ IndexRead(unread_server, t, i, i)
       /\ PathsRead(unread_server, t, i, i)
  BY <1>9 DEF AddressRead, IndexRead, PathsRead, unread_server
<1>11. PathsUpTo("server_lbrace", i + 1) = i
  BY <1>6 DEF PathsUpTo
<1>12. IsRead(unread_server, t, i, i + 1, "server_lbrace")
  BY <1>6, <1>7, <1>10, <1>11 DEF IsRead
<1>13. Grammatical(t) => NumberOf(t, i) = Len(servers)
  BY <1>1, <1>2, <1>3 DEF WInv, Written
<1>14. current' = i + 1
  BY <1>2, <1>3 DEF advance_token
<1>15. Grammatical(t) => \E f \in 1 .. Len(t) : /\ IsRead(server', t, f, current', pc')
                                                /\ NumberOf(t, f) = Len(servers)
  BY <1>3, <1>5, <1>12, <1>13, <1>14
<1>16. pc' \in Looking
  BY <1>3 DEF Looking
<1>17. QED
  BY <1>1, <1>3, <1>15, <1>16, BlockStep

(* A server is added when its block is read.                               *)
LEMMA BlockEnds ==
  ASSUME IInv, GInv, WInv, server_rbrace
  PROVE  WInv'
<1>1. PICK t : t = Words
  OBVIOUS
<1>2. PICK i : i = current
  OBVIOUS
<1>3. /\ pc = "server" /\ pc \in Looking /\ is_token_type("RBRACE") /\ tokens' = tokens
      /\ pc' = "config" /\ advance_token /\ servers' = Append(servers, server)
  BY DEF server_rbrace, go, Looking
<1> DEFINE m == Len(servers)
<1>4. /\ m \in Nat /\ Len(servers') = m + 1 /\ servers'[m + 1] = server
      /\ \A n \in 1 .. m : servers'[n] = servers[n]
  <2>1. servers \in Seq(Server) /\ server \in Server
    BY DEF IInv, TypeOK
  <2>2. QED
    BY <1>3, <2>1, AppendProperties, LenProperties
<1>5. Words' = t
  BY <1>1, <1>3, WordsStay
<1>6. ASSUME Grammatical(t) PROVE Finished(servers', t) /\ NumberOf(t, current') = Len(servers')
  <2>1. /\ i <= Len(t) /\ i \in 1 .. Len(t) /\ Len(t) \in Nat /\ Lexed(t)
        /\ Follows(t, i) /\ ~IsWord(t, i, "server") /\ Finished(servers, t)
    BY <1>1, <1>2, <1>3, <1>6, InBlock
  <2>2. PICK f \in 1 .. Len(t) : IsRead(server, t, f, i, pc) /\ NumberOf(t, f) = m
    BY <1>1, <1>2, <1>3, <1>6, InBlock
  <2>3. KindAt(t, i) = "RBRACE" /\ ~is_at_end
    BY <1>1, <1>2, <1>3, <2>1, Situation
  <2>4. ClosesServer(t, i)
    BY <1>3, <2>1, <2>3, ServerCloses DEF Follows
  <2>5. /\ ~IsWord(t, i - 1, "listen") /\ ~IsWord(t, i - 1, "index")
        /\ ~IsWord(t, i - 1, "location")
    BY <1>3, <2>1, BeforeKinds
  <2>6. /\ i \in Int /\ i + 1 \in Int /\ i <= i + 1 /\ i + 1 - 1 = i
        /\ \A k \in i .. i : k = i
    <3>1. i \in Int
      BY <2>1, PlaceOf
    <3>2. QED
      BY <3>1
  <2>7. /\ f \in Begins(t) /\ f \in Int /\ f < i /\ f < i + 1
        /\ \A k \in f + 1 .. i : k \notin Begins(t)
        /\ AddressRead(server, t, f, i) /\ IndexRead(server, t, f, i) /\ PathsRead(server, t, f, i)
    <3> DEFINE to == i + 1
    <3>1. to \in Int /\ i <= to /\ to - 1 = i
      BY <2>6
    <3>2. \A k \in i .. i : /\ ~IsWord(t, k, "server") /\ ~IsWord(t, k - 1, "listen")
                            /\ ~IsWord(t, k - 1, "index") /\ ~IsWord(t, k - 1, "location")
      BY <2>1, <2>5, <2>6
    <3>3. PathsUpTo(pc, i) = i - 1
      BY <1>3 DEF PathsUpTo
    <3> HIDE DEF to
    <3>4. /\ f \in Begins(t) /\ f \in Int /\ f < i /\ f < to
          /\ \A k \in f + 1 .. to - 1 : k \notin Begins(t)
          /\ AddressRead(server, t, f, to - 1) /\ IndexRead(server, t, f, to - 1)
          /\ PathsRead(server, t, f, to - 1)
      BY <2>1, <2>2, <3>1, <3>2, <3>3, ReadOn
    <3>5. QED
      BY <3>1, <3>4 DEF to
  <2>8. i = Len(t) \/ i + 1 \in Begins(t)
    <3> DEFINE N == Len(t)
    <3> DEFINE j == i + 1
    <3>1. i # N => j \in 1 .. N /\ j - 1 = i /\ j \in Int /\ j <= N
      <4>1. N \in Nat /\ i \in 1 .. N
        BY <2>1
      <4> HIDE DEF N
      <4>2. QED
        BY <4>1
    <3> HIDE DEF j
    <3>2. ASSUME i # N PROVE j \in Begins(t)
      <4>1. j \in 1 .. N /\ MayStand(t, j) /\ ClosesServer(t, j - 1)
        BY <1>6, <2>4, <3>1, <3>2 DEF Grammatical
      <4>2. KindAt(t, j) = "server"
        BY <2>1, <4>1, MayFollow
      <4>3. QED
        BY <2>1, <3>1, <3>2, <4>1, <4>2, Kinds DEF Begins
    <3>3. QED
      BY <3>2 DEF j
  <2>9. IsBlock(t, f, i)
    <3> DEFINE N == Len(t)
    <3>1. i \in f .. N
      <4>1. N \in Nat /\ i \in 1 .. N
        BY <2>1
      <4> HIDE DEF N
      <4>2. QED
        BY <2>7, <4>1
    <3>2. QED
      BY <2>7, <2>8, <3>1 DEF IsBlock
  <2>10. Finished(servers', t)
    <3> SUFFICES ASSUME NEW n \in 1 .. m + 1
                 PROVE  \E g, e \in 1 .. Len(t) :
                          /\ IsBlock(t, g, e) /\ NumberOf(t, g) = n - 1
                          /\ AddressRead(servers'[n], t, g, e) /\ IndexRead(servers'[n], t, g, e)
                          /\ PathsRead(servers'[n], t, g, e)
      BY <1>4 DEF Finished
    <3>1. CASE n \in 1 .. m
      BY <1>4, <2>1, <3>1 DEF Finished
    <3>2. CASE n \notin 1 .. m
      <4>1. n = m + 1 /\ n - 1 = m
        <5>1. m \in Nat
          BY <1>4
        <5> HIDE DEF m
        <5>2. QED
          BY <3>2, <5>1
      <4>2. servers'[n] = server
        BY <1>4, <4>1
      <4>3. QED
        BY <2>1, <2>2, <2>7, <2>9, <4>1, <4>2
    <3>3. QED
      BY <3>1, <3>2
  <2>11. current' = i + 1
    BY <1>2, <1>3, <2>3 DEF advance_token
  <2>12. NumberOf(t, i + 1) = m + 1
    <3> DEFINE j == i + 1
    <3>1. j \in Int /\ f < j /\ j - 1 = i
      BY <2>6, <2>7
    <3> HIDE DEF j
    <3>2. NumberOf(t, j) = NumberOf(t, f) + 1
      BY <2>1, <2>7, <3>1, NumberNext
    <3>3. QED
      BY <2>2, <3>2 DEF j
  <2>13. QED
    BY <1>4, <2>10, <2>11, <2>12
<1>7. ValuesNotEmpty' /\ ServersAsWritten'
  BY <1>3 DEF WInv, ValuesNotEmpty, ServersAsWritten
<1>8. Grammatical(t) => Written(t)'
  BY <1>3, <1>6 DEF Written, Looking
<1>9. QED
  BY <1>5, <1>7, <1>8 DEF WInv, Written

(* ServersAsWritten, of any servers and tokens.                            *)
AsWritten(all, t) ==
  /\ Len(all) = Cardinality({i \in 1 .. Len(t) : IsWord(t, i, "server")})
  /\ \A n \in 1 .. Len(all) :
       LET listens == {i \in Block(t, n) : IsWord(t, i - 1, "listen")}
           indexes == {i \in Block(t, n) : IsWord(t, i - 1, "index")}
           last    == Latest(indexes)
           files   == {i \in last .. Len(t) : /\ t[i].value \in Executable
                                              /\ \A j \in last .. i : IsA(t, j, "VALUE")}
       IN  /\ all[n].port =
                IF listens = {} THEN Unset ELSE WrittenPort(t[Latest(listens)].value)
           /\ all[n].ip = IF listens = {} THEN <<>> ELSE WrittenAddress(t[Latest(listens)].value)
           /\ all[n].index = IF indexes = {} THEN <<>> ELSE t[Earliest(files)].value
           /\ all[n].locations =
                {t[i].value : i \in {i \in Block(t, n) : IsWord(t, i - 1, "location")}}

LEMMA ReadsAsWritten ==
  ServersAsWritten <=> (pc = "accepted" /\ Grammatical(Words) => AsWritten(servers, Words))
BY Zenon DEF ServersAsWritten, AsWritten

LEMMA WillReadAsWritten ==
  ServersAsWritten' <=> (pc' = "accepted" /\ Grammatical(Words') => AsWritten(servers', Words'))
BY Zenon DEF ServersAsWritten, AsWritten

(* When all is read the servers are those of the blocks.                   *)
LEMMA AllWritten ==
  ASSUME NEW t, Len(t) \in Nat, NEW all, Len(all) \in Nat, Finished(all, t),
         NEW i, i = Len(t) + 1, NumberOf(t, i) = Len(all)
  PROVE  AsWritten(all, t)
<1>1. {j \in Begins(t) : j < i} = Begins(t)
  <2> DEFINE N == Len(t)
  <2>1. \A k \in 1 .. N : k < i
    <3>1. N \in Nat /\ i = N + 1
      OBVIOUS
    <3> HIDE DEF N
    <3>2. QED
      BY <3>1
  <2>2. QED
    BY <2>1 DEF Begins
<1>2. Len(all) = Cardinality({k \in 1 .. Len(t) : IsWord(t, k, "server")})
  BY <1>1 DEF NumberOf, Begins
<1>3. ASSUME NEW n \in 1 .. Len(all)
      PROVE  /\ all[n].port =
                  IF {k \in Block(t, n) : IsWord(t, k - 1, "listen")} = {} THEN Unset
                  ELSE WrittenPort(t[Latest({k \in Block(t, n) : IsWord(t, k - 1, "listen")})].value)
             /\ all[n].ip =
                  IF {k \in Block(t, n) : IsWord(t, k - 1, "listen")} = {} THEN <<>>
                  ELSE WrittenAddress(t[Latest({k \in Block(t, n) : IsWord(t, k - 1, "listen")})].value)
             /\ all[n].index =
                  IF {k \in Block(t, n) : IsWord(t, k - 1, "index")} = {} THEN <<>>
                  ELSE t[Earliest(FilesFrom(t, Latest({k \in Block(t, n) : IsWord(t, k - 1, "index")})))].value
             /\ all[n].locations =
                  {t[k].value : k \in {k \in Block(t, n) : IsWord(t, k - 1, "location")}}
  <2>1. PICK f, e \in 1 .. Len(t) :
          /\ IsBlock(t, f, e) /\ NumberOf(t, f) = n - 1
          /\ AddressRead(all[n], t, f, e) /\ IndexRead(all[n], t, f, e)
          /\ PathsRead(all[n], t, f, e)
    BY DEF Finished
  <2>2. Block(t, n) = f .. e
    BY <2>1, BlockIs
  <2>3. /\ After(t, "listen", f, e) = {k \in Block(t, n) : IsWord(t, k - 1, "listen")}
        /\ After(t, "index", f, e) = {k \in Block(t, n) : IsWord(t, k - 1, "index")}
        /\ After(t, "location", f, e) = {k \in Block(t, n) : IsWord(t, k - 1, "location")}
    BY <2>2 DEF After
  <2>4. QED
    BY <2>1, <2>3 DEF AddressRead, IndexRead, PathsRead
<1>4. QED
  BY <1>2, <1>3 DEF AsWritten, FilesFrom

LEMMA ConfigEnds ==
  ASSUME IInv, GInv, WInv, config_ends
  PROVE  WInv'
<1>1. PICK t : t = Words
  OBVIOUS
<1>2. PICK i : i = current
  OBVIOUS
<1>3. /\ pc = "config" /\ is_at_end /\ tokens' = tokens /\ servers' = servers
      /\ pc' \in {"accepted", "rejected"}
  BY DEF config_ends, go, blockVars
<1>4. Words' = t
  BY <1>1, <1>3, WordsStay
<1>5. Len(t) \in Nat /\ i = Len(t) + 1
  BY <1>1, <1>2, <1>3, Places
<1>6. Len(servers) \in Nat
  BY LenProperties DEF IInv, TypeOK
<1>7. ASSUME Grammatical(t) PROVE Finished(servers, t) /\ NumberOf(t, i) = Len(servers)
  BY <1>1, <1>2, <1>3, <1>7 DEF WInv, Written
<1>8. ServersAsWritten'
  <2>1. CASE ~Grammatical(t)
    BY <1>4, <2>1, WillReadAsWritten
  <2>2. CASE Grammatical(t)
    BY <1>3, <1>4, <1>5, <1>6, <1>7, <2>2, AllWritten, WillReadAsWritten
  <2>3. QED
    BY <2>1, <2>2
<1>9. ValuesNotEmpty'
  BY <1>3 DEF WInv, ValuesNotEmpty
<1>10. Written(t)'
  BY <1>3 DEF Written, Looking
<1>11. QED
  BY <1>4, <1>8, <1>9, <1>10 DEF WInv, Written

-----------------------------------------------------------------------------
(* The lexer's steps.                                                      *)

(* What is left to show while nothing is parsed.                           *)
LEMMA LexingKeeps ==
  ASSUME pc' \in {"open", "lex", "rejected"}, ValuesNotEmpty'
  PROVE  WInv'
BY DEF WInv, ServersAsWritten, Written, Looking

LEMMA TokensWritten ==
  ASSUME IInv, GInv, WInv, get_next_token
  PROVE  WInv'
<1>1. pc' = "lex"
  BY DEF get_next_token, token_EOF, token_delimiter, comment, token_word, has_more_tokens
<1>2. ASSUME NEW t, tokens' = Append(tokens, t), t.type = "VALUE" => t.value # <<>>
      PROVE  ValuesNotEmpty'
  <2> DEFINE n == Len(tokens)
  <2> DEFINE m == Len(tokens')
  <2>1. tokens \in Seq(Token) /\ n \in Nat
    BY LenTypes DEF IInv
  <2>2. m = n + 1 /\ (\A k \in 1 .. n : tokens'[k] = tokens[k]) /\ tokens'[n + 1] = t
    BY <1>2, <2>1, AppendProperties
  <2>3. \A k \in 1 .. m : k \in 1 .. n \/ k = n + 1
    <3> HIDE DEF n, m
    <3>1. QED
      BY <2>1, <2>2
  <2>4. QED
    BY <1>2, <2>2, <2>3 DEF WInv, ValuesNotEmpty
<1>3. CASE token_EOF
  BY <1>1, <1>2, <1>3, LexingKeeps DEF token_EOF, push_token
<1>4. CASE token_delimiter
  <2> DEFINE c == content[Here]
  <2> DEFINE t == [type |-> type_of_delimiter[c], value |-> <<c>>, at |-> Here]
  <2>1. tokens' = Append(tokens, t) /\ t.value # <<>>
    BY <1>4 DEF token_delimiter, push_token
  <2> HIDE DEF t
  <2>2. QED
    BY <1>1, <1>2, <2>1, LexingKeeps
<1>5. CASE comment
  <2>1. tokens' = tokens
    BY <1>5 DEF comment
  <2>2. ValuesNotEmpty'
    BY <2>1 DEF WInv, ValuesNotEmpty
  <2>3. QED
    BY <1>1, <2>2, LexingKeeps
<1>6. CASE token_word
  <2> DEFINE t == [type |-> type_of_word(read_word), value |-> read_word, at |-> Here]
  <2>1. tokens' = Append(tokens, t)
    BY <1>6 DEF token_word, push_token
  <2>2. t.value # <<>>
    BY <1>6, WordNotEmpty, LenTypes DEF IInv
  <2> HIDE DEF t
  <2>3. QED
    BY <1>1, <1>2, <2>1, <2>2, LexingKeeps
<1>7. QED
  BY <1>3, <1>4, <1>5, <1>6 DEF get_next_token

LEMMA LexerWrites ==
  ASSUME IInv, GInv, WInv, Lexer, UNCHANGED parserVars
  PROVE  WInv'
<1>1. CASE open_file_throws \/ open_file
  <2>1. tokens' = tokens /\ pc' \in {"lex", "rejected"}
    BY <1>1 DEF open_file_throws, open_file
  <2>2. ValuesNotEmpty'
    BY <2>1 DEF WInv, ValuesNotEmpty
  <2>3. QED
    BY <2>1, <2>2, LexingKeeps
<1>2. CASE get_next_token
  BY <1>2, TokensWritten
<1>3. CASE lexing_ends
  <2>1. /\ pc = "lex" /\ pc' = "config" /\ tokens' = tokens
        /\ current' = 1 /\ servers' = <<>>
    BY <1>3 DEF lexing_ends, GInv, NothingYet, IInv, StartsAtFirst, parserVars, blockVars
  <2>2. PICK t : t = Words'
    OBVIOUS
  <2>3. Finished(<<>>, t)
    BY DEF Finished
  <2>4. NumberOf(t, 1) = 0
    <3>1. \A j \in Begins(t) : ~(j < 1)
      <4> DEFINE N == Len(t)
      <4>1. \A j \in 1 .. N : ~(j < 1)
        <5> HIDE DEF N
        <5>1. QED
          OBVIOUS
      <4>2. QED
        BY <4>1 DEF Begins
    <3>2. {j \in Begins(t) : j < 1} = {}
      BY <3>1
    <3>3. QED
      BY <3>2, FS_EmptySet DEF NumberOf
  <2>5. Written(Words)'
    BY <2>1, <2>2, <2>3, <2>4 DEF Written, Looking
  <2>6. ValuesNotEmpty' /\ ServersAsWritten'
    BY <2>1 DEF WInv, ValuesNotEmpty, ServersAsWritten
  <2>7. QED
    BY <2>5, <2>6 DEF WInv
<1>4. QED
  BY <1>1, <1>2, <1>3 DEF Lexer

-----------------------------------------------------------------------------
LEMMA InitWInv == Init => WInv
<1> SUFFICES ASSUME Init PROVE WInv
  OBVIOUS
<1>1. pc = "open" /\ tokens = <<>>
  BY DEF Init, LexerInit
<1>2. QED
  BY <1>1 DEF WInv, ValuesNotEmpty, ServersAsWritten, Written, Looking

LEMMA StepWInv == IInv /\ GInv /\ WInv /\ [Next]_vars => WInv'
<1> SUFFICES ASSUME IInv, GInv, WInv, [Next]_vars PROVE WInv'
  OBVIOUS
<1>1. CASE UNCHANGED vars
  <2>1. /\ UNCHANGED <<pc, content, pos, tokens>>
        /\ UNCHANGED <<current, beyond, servers, server, has_location>>
    BY <1>1 DEF vars, lexerVars, parserVars, blockVars
  <2>2. PICK t : t = Words
    OBVIOUS
  <2>3. Words' = t
    BY <2>1, <2>2, WordsStay
  <2>4. ValuesNotEmpty' /\ ServersAsWritten'
    BY <2>1, <2>2, <2>3, ReadsAsWritten, WillReadAsWritten DEF WInv, ValuesNotEmpty
  <2>5. Written(t) => Written(t)'
    BY <2>1 DEF Written
  <2>6. QED
    BY <2>2, <2>3, <2>4, <2>5 DEF WInv, Written
<1>2. CASE Lexer /\ UNCHANGED parserVars
  BY <1>2, LexerWrites
<1>3. CASE config_throws \/ server_throws
  BY <1>3, ThrowKeeps DEF config_throws, server_throws
<1>4. CASE parse /\ ~config_throws /\ ~server_throws
  BY <1>4, ConfigEnds, BlockBegins, BlockEnds, TokensSteppedOver, PathKept, AddressKept, IndexKept
     DEF parse
<1>5. QED
  BY <1>1, <1>2, <1>3, <1>4 DEF Next, load_configuration, parse

(* Of any file of the language: load_configuration leaves one server for   *)
(* each block, in order, with the port and the address of the block's last *)
(* listen directive, the first usable file of its last index directive and *)
(* the paths of its locations, and what a block does not say as new_server *)
(* had it; nothing is carried from one block to the next.                  *)
THEOREM ServersCorrect == Spec => []ServersAsWritten
<1>1. Init => IInv /\ GInv /\ WInv
  BY InitIInv, InitGInv, InitWInv
<1>2. (IInv /\ GInv /\ WInv) /\ [Next]_vars => (IInv /\ GInv /\ WInv)'
  BY StepIInv, StepGInv, StepWInv
<1>3. IInv /\ GInv /\ WInv => ServersAsWritten
  BY DEF WInv
<1>4. QED
  BY <1>1, <1>2, <1>3, PTL DEF Spec
=============================================================================
