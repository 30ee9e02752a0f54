----------------------------- MODULE AutoExtras -----------------------------
(***************************************************************************)
(* The dictionaries: tokens the user gives, tokens that the first bit-flip  *)
(* stage collects from inputs, the list in which these compete, and the     *)
(* files that carry the list over to the next session.                     *)
(***************************************************************************)
EXTENDS Integers, Sequences, FiniteSets, SequencesExt, FiniteSetsExt

CONSTANTS
  Byte,           \* what inputs and tokens are made of
  Dictionaries,   \* what -x may name: [level, items], see load_extras below
  OldFiles,       \* what earlier sessions may have left: sequences of tokens
  Inputs,         \* inputs of entries, tuples of bytes
  Lower(_),       \* tolower()
  Builtin,        \* tuples of two or four bytes that equal an interesting value, or one swapped
  MaxEntries,     \* bound on the number of entries gone through
  MIN_AUTO_EXTRA, MAX_AUTO_EXTRA, USE_AUTO_EXTRAS, MAX_AUTO_EXTRAS, MAX_DICT_FILE

ASSUME AutoExtrasAssumption ==
  /\ {MIN_AUTO_EXTRA, MAX_AUTO_EXTRA, USE_AUTO_EXTRAS, MAX_AUTO_EXTRAS} \subseteq Nat \ {0}
  /\ MIN_AUTO_EXTRA > 1 /\ USE_AUTO_EXTRAS <= MAX_AUTO_EXTRAS \div 2
  /\ Inputs \subseteq Seq(Byte) /\ OldFiles \subseteq Seq(Seq(Byte))
  /\ \A dict \in Dictionaries :
       dict.items \in Seq([data : Seq(Byte), level : Nat, form : STRING])

VARIABLES
  extras,         \* the user's tokens
  a_extras,       \* the collected ones: records of data and hit_cnt
  auto_changed,
  files,          \* queue/.state/auto_extras: the content of auto_000000 and so on
  pc,             \* "load", "extras", "dry", "ready", "flip", "save", "write" or "fatal"
  at,             \* the next file to read or write
  input, cksums,  \* the entry in flip1, and a class for the checksum of each byte so far
  prev_cksum, a_collect, a_len,
  inherited,      \* history: tokens that load_auto() found
  collected,      \* history: what this entry gave to maybe_add_auto()
  saved,          \* history: what the saves so far have left in each place, << >> if nothing
  entries         \* history: entries gone through

vars == <<extras, a_extras, auto_changed, files, pc, at, input, cksums, prev_cksum, a_collect,
          a_len, inherited, collected, saved, entries>>
flip == <<input, cksums, prev_cksum, a_collect, a_len, collected>>
list == <<extras, a_extras, auto_changed, inherited>>

---------------------------------------------------------------------------
(* The user's dictionary. *)

\* An item is a line or a file: [data, level, form], where form is "good", "skip" (blank,
\* a comment, or not a regular file), "malformed" (no closing quote), or "bad" (wrong
\* further on, which matters only if the level is right).
Wanted(dict, item) == item.form # "skip" /\ (item.form = "malformed" \/ item.level <= dict.level)
Acceptable(item) == item.form = "good" /\ item.data # << >> /\ Len(item.data) <= MAX_DICT_FILE

WantedItems(dict) == {k \in DOMAIN dict.items : Wanted(dict, dict.items[k])}

\* What was read, in all orders.
Readings(dict) ==
  LET places == 1 .. Cardinality(WantedItems(dict))
  IN {[k \in places |-> dict.items[p[k]].data] : p \in Bijection(places, WantedItems(dict))}

\* A version that does not sort.
load_extras_unsorted(dict) == Readings(dict)

\* qsort() leaves the order of equals open.
load_extras(dict) ==
  {l \in Readings(dict) : \A j, k \in DOMAIN l : j < k => Len(l[j]) <= Len(l[k])}

\* Any of its mistakes is fatal, and so is a dictionary with nothing in it.
Unusable(dict) ==
  WantedItems(dict) = {} \/ \E k \in WantedItems(dict) : ~Acceptable(dict.items[k])

---------------------------------------------------------------------------
(* maybe_add_auto() *)

SameNoCase(s, t) == Len(s) = Len(t) /\ \A k \in DOMAIN s : Lower(s[k]) = Lower(t[k])

\* The search among the user's tokens begins with the first that is long enough, and
\* ends with the first that is longer.
InExtras(mem) ==
  LET from == Min({k \in DOMAIN extras : Len(extras[k]) >= Len(mem)} \cup {Len(extras) + 1})
  IN \E k \in from .. Len(extras) :
       SameNoCase(extras[k], mem) /\ \A j \in from .. k : Len(extras[j]) = Len(mem)

\* One byte all over, or a value that is tried anyway.
Dull(mem) ==
  \/ \A k \in DOMAIN mem : mem[k] = mem[1]
  \/ Len(mem) \in {2, 4} /\ mem \in Builtin

Rejected(mem) == Dull(mem) \/ InExtras(mem)

\* A version that sorts the whole list by length.
SortedByLength(l) ==
  {m \in {[k \in DOMAIN l |-> l[p[k]]] : p \in Bijection(DOMAIN l, DOMAIN l)} :
     \A j, k \in DOMAIN l : j < k => Len(m[j].data) <= Len(m[k].data)}

Top(l) == 1 .. Min({USE_AUTO_EXTRAS, Len(l)})

\* The two calls of qsort(), which leaves the order of equals open.
Sorted(l) ==
  {m \in {[k \in DOMAIN l |-> l[p[k]]] : p \in Bijection(DOMAIN l, DOMAIN l)} :
     /\ \A j, k \in DOMAIN l :
          j < k /\ (k \notin Top(l)) => m[j].hit_cnt >= m[k].hit_cnt
     /\ \A j, k \in Top(l) : j < k => Len(m[j].data) <= Len(m[k].data)}

New(mem) == [data |-> mem, hit_cnt |-> 0]
BottomHalf == MAX_AUTO_EXTRAS \div 2 + 1 .. MAX_AUTO_EXTRAS \div 2 + (MAX_AUTO_EXTRAS + 1) \div 2

Known(l, mem) == {k \in DOMAIN l : SameNoCase(l[k].data, mem)}

\* The lists that l may become.
maybe_add_auto(l, mem) ==
  IF Rejected(mem) THEN {l}
  ELSE IF Known(l, mem) # {} THEN Sorted([l EXCEPT ![Min(Known(l, mem))].hit_cnt = @ + 1])
  ELSE IF Len(l) < MAX_AUTO_EXTRAS THEN Sorted(Append(l, New(mem)))
  ELSE UNION {Sorted([l EXCEPT ![k] = New(mem)]) : k \in BottomHalf}

Add(mem) ==
  /\ a_extras' \in maybe_add_auto(a_extras, mem)
  /\ auto_changed' = (auto_changed \/ ~Rejected(mem))

---------------------------------------------------------------------------
Loadable(c) == Len(c) \in MIN_AUTO_EXTRA .. MAX_AUTO_EXTRA

Init ==
  /\ extras = << >> /\ a_extras = << >> /\ auto_changed = FALSE
  /\ files \in OldFiles /\ pc = "load" /\ at = 1
  /\ input = << >> /\ cksums = << >> /\ prev_cksum = 0 /\ a_collect = << >> /\ a_len = 0
  /\ collected = {} /\ inherited = {} /\ entries = 0
  /\ saved = [k \in DOMAIN files |->
                IF k <= USE_AUTO_EXTRAS /\ Loadable(files[k]) /\ ~Dull(files[k])
                THEN files[k] ELSE << >>]

\* A version that stops at an empty file.
MoreFilesTillEmpty == at \in DOMAIN files /\ at <= USE_AUTO_EXTRAS /\ files[at] # << >>

MoreFiles == at \in DOMAIN files /\ at <= USE_AUTO_EXTRAS

\* load_auto(), one file at a time.  Files that are too short or too long are passed over.
LoadAuto ==
  /\ pc = "load" /\ MoreFiles
  /\ IF Loadable(files[at]) THEN Add(files[at]) ELSE UNCHANGED <<a_extras, auto_changed>>
  /\ at' = at + 1 /\ inherited' = {a_extras'[k].data : k \in DOMAIN a_extras'}
  /\ UNCHANGED <<extras, files, pc, flip, saved, entries>>

\* pivot_inputs() of a resumed session deletes the old directory.
PivotInputs ==
  /\ pc = "load" /\ ~MoreFiles
  /\ files' = << >> /\ at' = 0 /\ pc' = "extras"
  /\ UNCHANGED <<list, flip, saved, entries>>

\* Only then comes the user's dictionary, if any.
LoadExtras ==
  /\ pc = "extras"
  /\ \/ pc' = "dry" /\ UNCHANGED extras
     \/ \E dict \in Dictionaries :
          IF Unusable(dict) THEN pc' = "fatal" /\ UNCHANGED extras
          ELSE pc' = "dry" /\ extras' \in load_extras(dict)
  /\ UNCHANGED <<a_extras, auto_changed, inherited, files, at, flip, saved, entries>>

\* After the dry run the list is saved for the first time, if there is one.
DryRunEnds ==
  /\ pc = "dry" /\ ~auto_changed
  /\ pc' = "ready"
  /\ UNCHANGED <<list, files, at, flip, saved, entries>>

\* save_auto(): now and then, if there was a change, and at the end of the session.  The first
\* save finds an empty directory.
BeginSave ==
  /\ pc \in {"dry", "ready"} /\ auto_changed
  /\ auto_changed' = FALSE /\ at' = 1 /\ pc' = "save"
  /\ saved' = (IF pc = "dry" THEN << >> ELSE saved)
  /\ UNCHANGED <<extras, a_extras, inherited, files, flip, entries>>

\* A file is emptied when it is opened, and then written.
Put(k, c) == [j \in DOMAIN files \cup {k} |-> IF j = k THEN c ELSE files[j]]

SaveOpen ==
  /\ pc = "save" /\ at \in Top(a_extras)
  /\ files' = Put(at, << >>)
  /\ pc' = "write"
  /\ UNCHANGED <<list, at, flip, saved, entries>>

SaveWrite ==
  /\ pc = "write"
  /\ files' = Put(at, a_extras[at].data)
  /\ at' = at + 1 /\ pc' = "save"
  /\ UNCHANGED <<list, flip, saved, entries>>

EndSave ==
  /\ pc = "save" /\ at \notin Top(a_extras)
  /\ saved' = [k \in Top(a_extras) |-> a_extras[k].data]
  /\ at' = 0 /\ pc' = "ready"
  /\ UNCHANGED <<list, files, flip, entries>>

\* What a session leaves that ends here: nothing between the end of load_auto() and the first
\* save; within a save, what it has written, and beyond that what the one before had left, but
\* for the file that is open.
Left ==
  IF pc \in {"extras", "dry", "fatal"} THEN << >>
  ELSE IF pc \in {"save", "write"}
  THEN [k \in DOMAIN saved \cup (1 .. IF pc = "write" THEN at ELSE at - 1) |->
          IF k < at THEN a_extras[k].data
          ELSE IF k = at /\ pc = "write" THEN << >> ELSE saved[k]]
  ELSE saved

\* The process ends or is killed, and is resumed.
Restart ==
  /\ pc # "load"
  /\ pc' = "load" /\ at' = 1
  /\ extras' = << >> /\ a_extras' = << >> /\ auto_changed' = FALSE
  /\ input' = << >> /\ cksums' = << >> /\ prev_cksum' = 0 /\ a_collect' = << >> /\ a_len' = 0
  /\ collected' = {} /\ inherited' = {}
  /\ saved' = Left
  /\ UNCHANGED <<files, entries>>

---------------------------------------------------------------------------
(* Collecting tokens from an entry. *)

BeginEntry ==
  /\ pc = "ready" /\ entries < MaxEntries
  /\ input' \in Inputs
  /\ cksums' = << >> /\ prev_cksum' = 0 /\ a_collect' = << >> /\ a_len' = 0 /\ collected' = {}
  /\ pc' = "flip" /\ entries' = entries + 1
  /\ UNCHANGED <<list, files, at, saved>>

Long == a_len \in MIN_AUTO_EXTRA .. MAX_AUTO_EXTRA

\* A version that does not look for the end of the input.
AtEndNever == FALSE

\* Is this the last byte?
AtEnd == Len(cksums) = Len(input) - 1

Extended(s, byte) == IF Len(s) < MAX_AUTO_EXTRA THEN Append(s, byte) ELSE s

\* The lowest bit of the next byte was flipped, and the path had checksum c; 0 is the
\* checksum of the entry itself.
FlipLowest(c) ==
  /\ pc = "flip" /\ Len(cksums) < Len(input)
  /\ cksums' = Append(cksums, c)
  /\ LET byte == input[Len(cksums) + 1]
         Collect(now) ==
           /\ collected' = collected \cup now
           /\ IF now = {} THEN UNCHANGED <<a_extras, auto_changed>> ELSE \E mem \in now : Add(mem)
     IN \/ /\ AtEnd /\ c = prev_cksum
           /\ Collect(IF a_len + 1 \in MIN_AUTO_EXTRA .. MAX_AUTO_EXTRA
                      THEN {Extended(a_collect, byte)} ELSE {})
           /\ IF c = 0 THEN a_collect' = Extended(a_collect, byte) /\ a_len' = a_len + 1
              ELSE /\ a_collect' = Extended(Extended(a_collect, byte), byte)
                   /\ a_len' = a_len + 2
           /\ UNCHANGED prev_cksum
        \/ /\ c # prev_cksum
           /\ Collect(IF Long THEN {a_collect} ELSE {})
           /\ a_collect' = (IF c = 0 THEN << >> ELSE <<byte>>) /\ a_len' = (IF c = 0 THEN 0 ELSE 1)
           /\ prev_cksum' = c
        \/ /\ ~AtEnd /\ c = prev_cksum
           /\ Collect({})
           /\ IF c = 0 THEN UNCHANGED <<a_collect, a_len>>
              ELSE a_collect' = Extended(a_collect, byte) /\ a_len' = a_len + 1
           /\ UNCHANGED prev_cksum
  /\ UNCHANGED <<extras, inherited, files, pc, at, input, saved, entries>>

\* The stage is through, or the entry is given up: a stop, a skip request or timeouts.
EndEntry ==
  /\ pc = "flip"
  /\ pc' = "ready"
  /\ UNCHANGED <<list, files, at, flip, saved, entries>>

Next ==
  \/ LoadAuto \/ PivotInputs \/ LoadExtras \/ DryRunEnds
  \/ BeginSave \/ SaveOpen \/ SaveWrite \/ EndSave \/ Restart
  \/ BeginEntry \/ (\E c \in 0 .. 2 : FlipLowest(c)) \/ EndEntry

Spec == Init /\ [][Next]_vars
---------------------------------------------------------------------------
\* The reference: the longest stretches of bytes that all lead to one path, and not to
\* the one the input takes as it is.
Stretches ==
  {r \in (DOMAIN cksums) \X (DOMAIN cksums) :
     /\ r[1] <= r[2] /\ cksums[r[1]] # 0
     /\ \A k \in r[1] .. r[2] : cksums[k] = cksums[r[1]]
     /\ r[1] > 1 => cksums[r[1] - 1] # cksums[r[1]]
     /\ r[2] < Len(cksums) => cksums[r[2] + 1] # cksums[r[1]]}

\* Tokens collected from an entry are exactly those of a fitting length (comment at 5123).
TokensAreRuns ==
  pc = "flip" /\ Len(cksums) = Len(input) =>
    collected = {SubSeq(input, r[1], r[2]) : r \in
                   {s \in Stretches : s[2] - s[1] + 1 \in MIN_AUTO_EXTRA .. MAX_AUTO_EXTRA}}

\* The token of a_extras[k] is lost in this step.
Evicted(k) == \A j \in DOMAIN a_extras' : a_extras'[j].data # a_extras[k].data

\* A session loses a token only to a new one when the list is full, and never one that was met
\* more often than any of the first half: that is what the random choice among the
\* rest (1853) relies on, while the tokens in use are sorted by their lengths instead.
MostUsedStay ==
  [][pc' # "load" \/ pc = "load" =>
       \A k \in DOMAIN a_extras : Evicted(k) =>
         \A j \in 1 .. MAX_AUTO_EXTRAS \div 2 :
           /\ j \in DOMAIN a_extras /\ ~Evicted(j)
           /\ a_extras[j].hit_cnt >= a_extras[k].hit_cnt]_vars

\* No collected token is listed twice, in whatever case, and none that the
\* user's dictionary has was collected, although the searches take short cuts.
NoDuplicates ==
  /\ \A j, k \in DOMAIN a_extras : SameNoCase(a_extras[j].data, a_extras[k].data) => j = k
  /\ \A j \in DOMAIN a_extras, k \in DOMAIN extras :
       SameNoCase(a_extras[j].data, extras[k]) => a_extras[j].data \in inherited

\* Whatever saves were cut short, and wherever: each token that is still in place is known to
\* the next session, in some case, when it has deleted the files and saved none.  So what a kill
\* can lose is the token of the file that is open (1892-1896), those whose old place was
\* written over before their new one, and between load_auto() and the first save all.
SavedSurvive ==
  pc \in {"extras", "dry"} =>
    \A k \in DOMAIN saved : saved[k] # << >> => Known(a_extras, saved[k]) # {}
============================================================================
