----------------------------- MODULE TextFilters ------------------------------
(***************************************************************************)
(* Functions on texts: what is taken out of them before they are shown,    *)
(* and whether they are what a form asks for.                              *)
(***************************************************************************)
EXTENDS Integers, Sequences, FiniteSets, SequencesExt, FiniteSetsExt

(***************************************************************************)
(* The word filter of yma-sensitive-filter: an automaton built from a list *)
(* of words (Aho and Corasick) that reads a text once.  A node of the trie *)
(* is named by the path that leads to it, the root by the empty path.      *)
(***************************************************************************)
CONSTANTS
  Letters,
  WordLength,             (* bound on the length of a word                 *)
  WordsPerList,           (* bound on the words of a list                  *)
  TextLength,             (* bound on the length of a text                 *)
  Replacements            (* the characters callers replace with, letters  *)
                          (* of the words among them                       *)

ASSUME WordBounds == WordLength \in Nat /\ TextLength \in Nat

\* build and insert: the trie holds the paths of all words, but of empty ones.
Built(words) == words \ {<<>>}
Nodes(words) == {<<>>} \cup UNION {Prefixes(w) : w \in Built(words)}
Own(words, node) == Built(words) \cap {node}

(***************************************************************************)
(* build_failure_links: the link of a node is found by following the links *)
(* of its parent until one has a child for the same letter.  The nodes are *)
(* taken level by level, so the links needed are there already.            *)
(***************************************************************************)
FailLinks(nodes) ==
  LET fail[node \in nodes] ==
        IF Len(node) <= 1 THEN <<>>
        ELSE LET down[n \in {m \in nodes : Len(m) < Len(node)}] ==
                   IF Append(n, Last(node)) \in nodes THEN Append(n, Last(node))
                   ELSE IF n = <<>> THEN <<>>
                   ELSE down[fail[n]]
             IN  down[fail[Front(node)]]
  IN  fail

\* Mutant of Outputs: a node does not get the outputs of its link.
OutputsOwn(words, fail) == [node \in DOMAIN fail |-> Own(words, node)]

\* The outputs of a node: its own word and the outputs of its link.
Outputs(words, fail) ==
  LET outputs[node \in DOMAIN fail] ==
        IF node = <<>> THEN {}
        ELSE Own(words, node) \cup outputs[fail[node]]
  IN  outputs

Build(words) ==
  LET fail == FailLinks(Nodes(words))
  IN  [fail |-> fail, outputs |-> Outputs(words, fail)]

GoTo(trie, current, ch) ==
  LET goto[n \in DOMAIN trie.fail] ==
        IF Append(n, ch) \in DOMAIN trie.fail THEN Append(n, ch)
        ELSE IF n = <<>> THEN <<>>
        ELSE goto[trie.fail[n]]
  IN  goto[current]

\* The node reached after each letter of the text.
Run(trie, text) ==
  LET at[i \in 0..Len(text)] == IF i = 0 THEN <<>> ELSE GoTo(trie, at[i - 1], text[i])
  IN  at

SensitiveWordMatch(word, last) ==
  [word |-> word, start_index |-> last - Len(word) + 1, end_index |-> last]

Search(trie, text) ==
  LET at == Run(trie, text)
  IN  UNION {{SensitiveWordMatch(w, i) : w \in trie.outputs[at[i]]} :
               i \in DOMAIN text}

HasSensitiveWords(trie, text) ==
  LET at == Run(trie, text)
  IN  \E i \in DOMAIN text : trie.outputs[at[i]] # {}

WordCount(trie) == Cardinality(UNION {trie.outputs[n] : n \in DOMAIN trie.fail})

FilterText(trie, text, replacement) ==
  LET matches == Search(trie, text)
  IN  [i \in DOMAIN text |->
         IF \E m \in matches : i \in m.start_index..m.end_index
           THEN replacement ELSE text[i]]

-----------------------------------------------------------------------------
Strings(n) == UNION {[1..k -> Letters] : k \in 0..n}
WordLists == {ws \in SUBSET Strings(WordLength) : Cardinality(ws) <= WordsPerList}

\* The places a word occurs at, looked for one by one.
Occurrences(words, text) ==
  {SensitiveWordMatch(w, i) : w \in Built(words), i \in DOMAIN text} \cap
  {[word |-> SubSeq(text, i, j), start_index |-> i, end_index |-> j] :
     i, j \in DOMAIN text}

\* Reading a text once, the automaton finds every occurrence of every word and
\* nothing else, overlapping or inside one another as they may be; what is replaced
\* is what occurrences cover.  Nothing is found in the filtered text when the
\* replacement occurs in no word; one that does can make a word of what is left.
WordsFound(words) ==
  LET trie == Build(words)
  IN  /\ WordCount(trie) = Cardinality(Built(words))
      /\ \A text \in Strings(TextLength) :
           LET found == Occurrences(words, text)
           IN  /\ Search(trie, text) = found
               /\ HasSensitiveWords(trie, text) <=> found # {}
               /\ \A replacement \in Replacements :
                    LET filtered == FilterText(trie, text, replacement)
                    IN  /\ \A i \in DOMAIN text : filtered[i] =
                             IF \E m \in found : i \in m.start_index..m.end_index
                               THEN replacement ELSE text[i]
                        /\ (\A w \in Built(words) : replacement \notin ToSet(w)) =>
                             Search(trie, filtered) = {}

-----------------------------------------------------------------------------
(***************************************************************************)
(* The masks of yma-data-masking.  A text of n characters is a sequence in *)
(* which every character is its own position, so that what a masked text   *)
(* still shows can be read off it; the characters a mask looks for (the at *)
(* of an address, the dots of an IP address) are values of their own.      *)
(***************************************************************************)
CONSTANTS
  At, Dot, Star,          (* '@', '.' and '*'                              *)
  MaxText                 (* bound on the length of a text                 *)

ASSUME NoCharacter ==
  /\ {At, Dot, Star} \cap Nat = {}
  /\ Star \notin {At, Dot}
  /\ MaxText \in Nat

Stars(n) == [i \in 1..n |-> Star]
First(text, n) == SubSeq(text, 1, n)
Final(text, n) == SubSeq(text, Len(text) - n + 1, Len(text))

\* Seven characters would show as six, eleven as seven.
MaskPhone(phone) ==
  IF Len(phone) < 7 THEN phone
  ELSE First(phone, 3) \o Stars(4) \o Final(phone, IF Len(phone) = 11 THEN 4 ELSE 3)

MaskIdCard(id) ==
  IF Len(id) < 7 THEN id
  ELSE First(id, 3) \o Stars(Len(id) - 6) \o Final(id, 3)

MaskBankCard(card) ==
  IF Len(card) < 9 THEN card ELSE First(card, 4) \o Stars(4) \o Final(card, 4)

MaskName(name) ==
  CASE Len(name) <= 1 -> name
    [] Len(name) = 2 -> First(name, 1) \o Stars(1)
    [] OTHER -> First(name, 1) \o Stars(Len(name) - 2) \o Final(name, 1)

\* The part before the first at is masked, an empty part or one of a single
\* character stays; without an at the text comes back as it is.
MaskEmail(email) ==
  LET at     == SelectInSeq(email, LAMBDA c : c = At)
      local  == First(email, at - 1)
      domain == SubSeq(email, at, Len(email))
  IN  IF at = 0 \/ Len(local) <= 1 THEN email
      ELSE First(local, 1) \o Stars(3) \o Final(local, 1) \o domain

MaskIp(ip) ==
  LET dot == SelectLastInSeq(ip, LAMBDA c : c = Dot)
  IN  IF dot = 0 THEN Stars(3) \o <<Dot>> \o Stars(3) \o <<Dot>> \o Stars(3)
                      \o <<Dot>> \o Stars(3)
      ELSE First(ip, dot) \o Stars(3)

MaskString(s, keepStart, keepEnd) ==
  IF Len(s) <= keepStart + keepEnd THEN s
  ELSE First(s, keepStart) \o Stars(Len(s) - keepStart - keepEnd) \o Final(s, keepEnd)

-----------------------------------------------------------------------------
Text(n) == [i \in 1..n |-> i]
\* A text with the character c at the places of a set.
Marked(n, places, c) == [i \in 1..n |-> IF i \in places THEN c ELSE i]

Shown(masked) == ToSet(masked) \cap Nat
Ends(n, start, end) == {i \in 1..n : i <= start \/ i > n - end}

\* Of a text that is long enough for its mask no more than the ends show; the
\* masks that keep the length are the general one; to mask what is masked
\* changes nothing, so that a value can pass through two layers that mask.
MasksHold(n, places) ==
  LET text  == Text(n)
      email == Marked(n, places, At)
      ip    == Marked(n, places, Dot)
  IN  /\ n >= 7 => /\ Shown(MaskPhone(text)) = Ends(n, 3, IF n = 11 THEN 4 ELSE 3)
                   /\ MaskIdCard(text) = MaskString(text, 3, 3)
      /\ n >= 9 => Shown(MaskBankCard(text)) = Ends(n, 4, 4)
      /\ n >= 3 => MaskName(text) = MaskString(text, 1, 1)
      /\ Shown(MaskIp(ip)) = Shown(ip) \ {i \in 1..n : \A p \in places : p < i}
      /\ places # {} =>
           \A i \in Shown(MaskEmail(email)) : i = 1 \/ \E p \in places : i >= p - 1
      /\ MaskPhone(MaskPhone(text)) = MaskPhone(text)
      /\ MaskIdCard(MaskIdCard(text)) = MaskIdCard(text)
      /\ MaskBankCard(MaskBankCard(text)) = MaskBankCard(text)
      /\ MaskName(MaskName(text)) = MaskName(text)
      /\ MaskIp(MaskIp(ip)) = MaskIp(ip)
      /\ MaskEmail(MaskEmail(email)) = MaskEmail(email)
      /\ \A start, end \in 0..n :
           LET masked == MaskString(text, start, end)
           IN  /\ Len(masked) = n
               /\ Shown(masked) = Ends(n, start, end)
               /\ MaskString(masked, start, end) = masked

-----------------------------------------------------------------------------
(***************************************************************************)
(* The validators of yma-validation.  Characters are members of small      *)
(* classes; digits are numbers.                                            *)
(***************************************************************************)
CONSTANTS
  Slash, Backslash, Nul, Period, Plain, Space,    (* characters            *)
  MaxInput                (* the length input is cut to, 1000 in the code  *)

ASSUME InputIsCut == MaxInput \in Nat

\* A text of any characters.
IsText(s) == s \in Seq(ToSet(s))

Digit == 0..9

-----------------------------------------------------------------------------
(* is_valid_id_card_cn *)

Weights == <<7, 9, 10, 5, 8, 4, 2, 1, 6, 3, 7, 9, 10, 5, 8, 4, 2>>
\* The check character, with ten for X.
CheckCodes == <<1, 0, 10, 9, 8, 7, 6, 5, 4, 3, 2>>

Expected(digits) ==
  CheckCodes[(FoldLeftDomain(LAMBDA sum, i : sum + digits[i] * Weights[i],
                             0, digits) % 11) + 1]

IsValidIdCard(digits, last) ==
  /\ Len(digits) = 17
  /\ \A i \in 1..17 : digits[i] \in Digit
  /\ last \in 0..10
  /\ last = Expected(digits)

\* Of the cards that differ from a valid one in one digit, or by an exchange
\* of two neighbours, none is valid.
CheckDigitCatches(digits) ==
  LET last == Expected(digits)
  IN  /\ IsValidIdCard(digits, last)
      /\ \A i \in 1..17, d \in Digit :
           IsValidIdCard([digits EXCEPT ![i] = d], last) <=> digits[i] = d
      /\ \A i \in 1..16 :
           LET swapped == [digits EXCEPT ![i] = digits[i + 1], ![i + 1] = digits[i]]
           IN  IsValidIdCard(swapped, last) <=> swapped = digits

-----------------------------------------------------------------------------
(* is_valid_ipv4: one of the four octets, by the pattern of the code, whose *)
(* alternatives are 25[0-5], 2[0-4]\d and [01]?\d\d?.                       *)

IsOctet(ds) ==
  \/ Len(ds) = 3 /\ ds[1] = 2 /\ ds[2] = 5 /\ ds[3] \in 0..5
  \/ Len(ds) = 3 /\ ds[1] = 2 /\ ds[2] \in 0..4
  \/ Len(ds) = 3 /\ ds[1] \in {0, 1}
  \/ Len(ds) \in {1, 2}

Value(ds) == FoldLeft(LAMBDA v, d : 10 * v + d, 0, ds)

\* The pattern takes just the numbers up to 255, with leading zeros as long as
\* there are no more than three digits.
OctetsHold(ds) == IsOctet(ds) <=> Len(ds) \in 1..3 /\ Value(ds) <= 255

-----------------------------------------------------------------------------
(* is_strong_password, by the number of characters of each class; "wide"   *)
(* ones are special ones of three bytes.                                   *)

Classes == {"upper", "lower", "digit", "special", "wide"}
Bytes(count) ==
  count["upper"] + count["lower"] + count["digit"] + count["special"] + 3 * count["wide"]
Characters(count) == Bytes(count) - 2 * count["wide"]

IsStrongPassword(count) ==
  /\ Bytes(count) \in 8..128
  /\ count["upper"] > 0
  /\ count["lower"] > 0
  /\ count["digit"] > 0
  /\ count["special"] + count["wide"] > 0

\* The length is that of the bytes: a password that passes may have fewer than
\* eight characters, but never fewer than five, one of which is then wide.
PasswordsHold(count) ==
  IsStrongPassword(count) =>
    /\ Characters(count) <= 128
    /\ Characters(count) < 8 => count["wide"] > 0 /\ Characters(count) >= 5

-----------------------------------------------------------------------------
(* sanitize_input *)

Trim(s) ==
  LET solid == {i \in DOMAIN s : s[i] # Space}
  IN  IF solid = {} THEN <<>> ELSE SubSeq(s, Min(solid), Max(solid))

SanitizeInput(s) ==
  IF Len(Trim(s)) > MaxInput THEN SubSeq(Trim(s), 1, MaxInput) ELSE Trim(s)

\* What was cleaned once stays as it is, unless the cut left a space at its end.
InputsCleaned(s) ==
  LET clean == SanitizeInput(s)
  IN  /\ Len(clean) <= MaxInput
      /\ SanitizeInput(clean) # clean =>
           Last(clean) = Space /\ Len(clean) = MaxInput /\ Len(Trim(s)) > MaxInput

-----------------------------------------------------------------------------
(* is_safe_filename *)

IsSafeFilename(name) ==
  /\ name # <<>>
  /\ Len(name) <= 255
  /\ \A i \in DOMAIN name : name[i] \notin {Slash, Backslash, Nul}
  /\ name[1] # Period
  /\ ~\E i \in 1..(Len(name) - 1) : name[i] = Period /\ name[i + 1] = Period

\* The components of a path, under either separator.
Components(path) ==
  LET cuts == {0, Len(path) + 1} \cup
              {i \in DOMAIN path : path[i] \in {Slash, Backslash}}
  IN  {SubSeq(path, i + 1, Min({j \in cuts : j > i}) - 1) :
         i \in cuts \ {Len(path) + 1}}

\* A safe name joined to a directory is a file in it: one component,
\* that is neither the directory nor its parent.
FilenamesHold(name) ==
  IsSafeFilename(name) =>
    /\ Components(name) = {name}
    /\ name \notin {<<>>, <<Period>>, <<Period, Period>>}

-----------------------------------------------------------------------------
(* yma-email: what a message must have before the server is asked to take  *)
(* it, and a batch of which some messages fail.  An address is good or it  *)
(* is not; whether the server takes a message is given.                    *)

\* A message as send looks at it.
Mails ==
  [to : Seq(BOOLEAN), cc : Seq(BOOLEAN), bcc : Seq(BOOLEAN),
   text : BOOLEAN, html : BOOLEAN, from : BOOLEAN, taken : BOOLEAN]

\* send: the first thing that is wrong, or the message is sent.
SendMail(message) ==
  LET addresses == message.to \o message.cc \o message.bcc
  IN  CASE message.to = <<>> -> "no recipient"
        [] message.to # <<>> /\ ~message.text /\ ~message.html -> "no body"
        [] message.to # <<>> /\ (message.text \/ message.html) /\ ~message.from ->
             "bad sender"
        [] OTHER ->
             IF \E i \in DOMAIN addresses : ~addresses[i] THEN "bad address"
             ELSE IF message.taken THEN "sent" ELSE "not taken"

\* send_batch: one message after the other, whatever became of the one before.
SendBatch(messages) ==
  FoldLeft(LAMBDA done, message :
             IF SendMail(message) = "sent" THEN [done EXCEPT !.sent = @ + 1]
             ELSE [done EXCEPT !.errors = Append(@, SendMail(message))],
           [sent |-> 0, errors |-> <<>>], messages)

\* A batch is as good as its messages alone: every message is either counted or
\* told why not, in their order, and none keeps another from being sent; a
\* message the server is given has a recipient, a body and good addresses only.
BatchHolds(messages) ==
  LET done == SendBatch(messages)
      good == {i \in DOMAIN messages : SendMail(messages[i]) = "sent"}
  IN  /\ done.sent = Cardinality(good)
      /\ done.sent + Len(done.errors) = Len(messages)
      /\ SendBatch(Reverse(messages)) = [done EXCEPT !.errors = Reverse(@)]
      /\ \A i \in good : /\ Len(messages[i].to) > 0
                          /\ (messages[i].text \/ messages[i].html)
                          /\ FALSE \notin ToSet(messages[i].to \o messages[i].cc \o messages[i].bcc)
=============================================================================
