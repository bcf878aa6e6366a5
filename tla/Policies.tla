------------------------------- MODULE Policies -------------------------------
(***************************************************************************)
(* The pure functions that decide what reaches x64dbg and what is told to  *)
(* the client: argument quoting, UTF-8, memory search, address ranges,     *)
(* patch records and scylla_hide.ini, each beside the definition that it   *)
(* must agree with.  An input grows symbol by symbol; a memory search goes *)
(* on page by page, as its client does.                                    *)
(***************************************************************************)
EXTENDS ScyllaHideConfig, SequencesExt

CONSTANTS
  Byte,              \* the bytes that UTF-8 tells apart
  MaxLength,         \* [kind -> Nat]: bound on an input's length
  MaxAddress,        \* the largest address
  MaxPatchSize,      \* the 16 bytes of a patch
  CandidateWindow,   \* kCandidateWindow of memory.search
  Cell,              \* the bytes that memory and patterns hold
  MaxPattern,        \* the longest pattern of a search
  MaxLimit           \* the largest page

VARIABLES input, search

vars == <<input, search>>

ASSUME PoliciesAssumption == /\ Byte \subseteq 0..255
                             /\ Cell \subseteq 0..255
                             /\ MaxAddress \in Nat \ {0}
                             /\ MaxPatchSize \in Nat \ {0}
                             /\ CandidateWindow \in Nat \ {0}
                             /\ MaxPattern \in Nat /\ MaxLimit \in Nat

Times(n, symbol) == [k \in 1..n |-> symbol]

\* A loop over s: what Put makes of start with s[1], s[2], ... in turn.  It is
\* FoldLeft, as a function of the number of turns.
Scan(Put(_, _), start, s) ==
  LET after[i \in 0..Len(s)] == IF i = 0 THEN start ELSE Put(after[i - 1], s[i])
  IN after[Len(s)]

\* The numbers from a on, n of them.
Counting(a, n) == [k \in 1..n |-> a + k - 1]

-----------------------------------------------------------------------------
(* launch_arguments.cpp.  Characters: "bs", "quote", "space", others.      *)

\* Mutant: a run of backslashes before the closing quote is left alone.
ClosingRunBare(run) == Times(run, "bs")

\* The backslashes that end an argument, before its closing quote.
ClosingRun(run) == Times(2 * run, "bs")

\* The next character of an argument: backslashes wait for what follows them.
QuotePut(s, c) ==
  CASE c = "bs" -> [s EXCEPT !.run = @ + 1]
    [] c = "quote" -> [out |-> s.out \o Times(2 * s.run + 1, "bs") \o <<c>>, run |-> 0]
    [] OTHER -> [out |-> s.out \o Times(s.run, "bs") \o <<c>>, run |-> 0]

QuoteWindowsArgument(value) ==
  LET scan == Scan(QuotePut, [out |-> <<"quote">>, run |-> 0], value)
  IN scan.out \o ClosingRun(scan.run) \o <<"quote">>

JoinPut(text, argument) ==
  (IF text = <<>> THEN text ELSE Append(text, "space")) \o QuoteWindowsArgument(argument)

RenderWindowsArguments(arguments) == Scan(JoinPut, <<>>, arguments)

EscapePut(out, c) == out \o (IF c \in {"bs", "quote"} THEN <<"bs", c>> ELSE <<c>>)

EscapeX64dbgCommandArgument(value) == Scan(EscapePut, <<>>, value)

\* How a Windows program splits its command line.
ArgvStart == [words |-> <<>>, word |-> <<>>, run |-> 0, quoted |-> FALSE, open |-> FALSE]

Plain(s) == [s EXCEPT !.word = @ \o Times(s.run, "bs"), !.run = 0]

\* Two backslashes before a quote are one; the odd one makes the quote plain.
ArgvQuote(s) ==
  LET half == [s EXCEPT !.word = @ \o Times(s.run \div 2, "bs"), !.run = 0, !.open = TRUE]
  IN IF s.run % 2 = 1 THEN [half EXCEPT !.word = Append(@, "quote")]
     ELSE IF s.quoted THEN [half EXCEPT !.quoted = FALSE]
     ELSE [half EXCEPT !.quoted = TRUE]

ArgvPut(s, c) ==
  CASE c = "bs" -> [s EXCEPT !.run = @ + 1, !.open = TRUE]
    [] c = "quote" -> ArgvQuote(s)
    [] c = "space" /\ ~s.quoted ->
         IF ~s.open THEN s
         ELSE [Plain(s) EXCEPT !.words = Append(@, Plain(s).word), !.word = <<>>, !.open = FALSE]
    [] OTHER -> [Plain(s) EXCEPT !.word = Append(@, c), !.open = TRUE]

CommandLineToArgv(line) ==
  LET end == Scan(ArgvPut, ArgvStart, line)
  IN IF end.open THEN Append(end.words, Plain(end).word) ELSE end.words

\* How x64dbg reads a quoted argument of a command: up to the first bare quote.
X64dbgStart == [out |-> <<>>, escaped |-> FALSE, done |-> FALSE]

X64dbgPut(s, c) ==
  IF s.done THEN s
  ELSE IF s.escaped THEN [s EXCEPT !.out = Append(@, c), !.escaped = FALSE]
  ELSE CASE c = "bs" -> [s EXCEPT !.escaped = TRUE]
         [] c = "quote" -> [s EXCEPT !.done = TRUE]
         [] OTHER -> [s EXCEPT !.out = Append(@, c)]

X64dbgArgument(text) == Scan(X64dbgPut, X64dbgStart, text).out

-----------------------------------------------------------------------------
(* utf8.cpp.  A text is a sequence of byte values.                         *)

IsContinuation(byte) == byte \in 128..191

\* No overlong form, no surrogate, nothing past U+10FFFF.
SecondValid(first, second) == /\ first = 224 => second >= 160
                              /\ first = 237 => second <= 159
                              /\ first = 240 => second >= 144
                              /\ first = 244 => second <= 143

ValidSequenceLength(value, offset) ==
  LET first == value[offset]
      wanted == IF first <= 127 THEN 1 ELSE IF first \in 194..223 THEN 2
                ELSE IF first \in 224..239 THEN 3 ELSE IF first \in 240..244 THEN 4 ELSE 5
  IN IF /\ offset + wanted - 1 <= Len(value)
        /\ \A k \in 1..wanted - 1 : IsContinuation(value[offset + k])
        /\ wanted > 1 => SecondValid(first, value[offset + 1])
        /\ wanted < 5
     THEN wanted ELSE 0

\* The offset after the sequence at next, once the loop has come to it; where
\* no sequence starts it stays.
Utf8Step(value, next, i) == IF next = i THEN i + ValidSequenceLength(value, i) ELSE next

IsValidUtf8(value) ==
  Scan(LAMBDA next, i : Utf8Step(value, next, i), 1, Counting(1, Len(value))) = Len(value) + 1

\* JsonString, less the quotes and the ASCII escapes: a byte that starts no
\* sequence becomes U+FFFD.
JsonStep(value, s, i) ==
  LET n == ValidSequenceLength(value, i)
  IN IF s.next # i THEN s
     ELSE IF n = 0 THEN [out |-> s.out \o <<239, 191, 189>>, next |-> i + 1]
     ELSE [out |-> s.out \o SubSeq(value, i, i + n - 1), next |-> i + n]

JsonText(value) ==
  Scan(LAMBDA s, i : JsonStep(value, s, i), [out |-> <<>>, next |-> 1],
       Counting(1, Len(value))).out

\* Utf8ContextAroundMatch: what is kept of value around value[offset+1 ..
\* offset+length], as <<start, end>>; refused unless both are valid UTF-8.
Utf8ContextAroundMatch(value, offset, length, contextBytes) ==
  LET matchEnd == offset + length
      low == IF offset > contextBytes THEN offset - contextBytes ELSE 0
      start == Min({s \in low..offset : s = offset \/ ~IsContinuation(value[s + 1])})
      high == Min({Len(value), matchEnd + contextBytes})
      end == Max({e \in matchEnd..high : IsValidUtf8(SubSeq(value, matchEnd + 1, e))})
  IN IF ~IsValidUtf8(value) \/ ~IsValidUtf8(SubSeq(value, offset + 1, matchEnd))
     THEN <<>> ELSE <<start, end>>

\* A Unicode scalar value, and its encoding.
Scalar(code) == code <= 1114111 /\ (code < 55296 \/ code > 57343)
Trailing(code, unit) == 128 + ((code \div unit) % 64)
Encode(code) ==
  IF code < 128 THEN <<code>>
  ELSE IF code < 2048 THEN <<192 + (code \div 64), Trailing(code, 1)>>
  ELSE IF code < 65536 THEN <<224 + (code \div 4096), Trailing(code, 64), Trailing(code, 1)>>
  ELSE <<240 + (code \div 262144), Trailing(code, 4096), Trailing(code, 64), Trailing(code, 1)>>

\* The code point whose bits are in these bytes, whatever else they are.
Bits(b) ==
  IF Len(b) = 1 THEN b[1]
  ELSE IF Len(b) = 2 THEN (b[1] % 32) * 64 + (b[2] % 64)
  ELSE IF Len(b) = 3 THEN (b[1] % 16) * 4096 + (b[2] % 64) * 64 + (b[3] % 64)
  ELSE (b[1] % 8) * 262144 + (b[2] % 64) * 4096 + (b[3] % 64) * 64 + (b[4] % 64)

IsEncoding(bytes) == Scalar(Bits(bytes)) /\ Encode(Bits(bytes)) = bytes

-----------------------------------------------------------------------------
(* memory_search.cpp and the paging of memory.search.  A cell of memory is *)
(* a value or unreadable; a pattern cell is a value or the wildcard.       *)

Unreadable == -1
Wildcard == -2

MatchesAt(memory, pattern, candidate) ==
  \A k \in DOMAIN pattern :
    /\ memory[candidate + k] # Unreadable
    /\ pattern[k] \in {Wildcard, memory[candidate + k]}

TotalCandidates(memory, pattern) == Max({0, Len(memory) - Len(pattern) + 1})

\* Mutant: a full page still counts the whole window as looked at.
LookedAtWindow(hits, limit, end) == end

\* nextCandidate: after the match that filled the page, or the window's end.
LookedAt(hits, limit, end) == IF Len(hits) >= limit THEN hits[limit] + 1 ELSE end

\* FindMemoryPattern from cursor: the first limit matches among the next count
\* candidates, and the candidate after the last one that was looked at.
FindMemoryPattern(memory, pattern, cursor, count, limit) ==
  LET hits == Scan(LAMBDA found, k : IF MatchesAt(memory, pattern, k) THEN Append(found, k)
                                     ELSE found,
                   <<>>, Counting(cursor, count))
  IN [offsets |-> SubSeq(hits, 1, Min({Len(hits), limit})),
      next |-> LookedAt(hits, limit, cursor + count)]

\* One memory.search call with the cursor of the last one.
SearchPage ==
  LET total == TotalCandidates(search.memory, search.pattern)
      count == Min({total - search.cursor, CandidateWindow})
      page == FindMemoryPattern(search.memory, search.pattern, search.cursor, count,
                                search.limit)
  IN /\ ~search.complete
     /\ search' = [search EXCEPT !.found = @ \o page.offsets, !.cursor = page.next,
                                 !.complete = page.next >= total]
     /\ UNCHANGED input

-----------------------------------------------------------------------------
(* Address ranges at the width of an address.                              *)

PatchRangeValid(address, size) ==
  size \in 1..MaxPatchSize /\ size - 1 <= MaxAddress - address

MemoryRangeContained(address, size, base, length) ==
  /\ size > 0 /\ length > 0 /\ address >= base
  /\ address - base < length
  /\ size <= length - (address - base)

\* Mutant: the ends are added up at the width of an address.
HalfOpenRangesOverlapWrapping(leftBase, leftSize, rightBase, rightSize) ==
  IF leftSize = 0 \/ rightSize = 0 THEN "no"
  ELSE IF /\ leftBase < (rightBase + rightSize) % (MaxAddress + 1)
          /\ rightBase < (leftBase + leftSize) % (MaxAddress + 1) THEN "yes" ELSE "no"

HalfOpenRangesOverlap(leftBase, leftSize, rightBase, rightSize) ==
  IF leftSize = 0 \/ rightSize = 0 THEN "no"
  ELSE IF leftBase > MaxAddress - leftSize \/ rightBase > MaxAddress - rightSize THEN "unknown"
  ELSE IF leftBase < rightBase + rightSize /\ rightBase < leftBase + leftSize THEN "yes"
  ELSE "no"

-----------------------------------------------------------------------------
(* patch_policy.cpp, NormalizeTrackedPatches.  A record is a patched byte  *)
(* of a module (0 when it has no name); "same" is original = patched.      *)

RecordBefore(left, right) ==
  left.address < right.address \/ (left.address = right.address /\ left.module < right.module)

Invalid == <<[module |-> 0, address |-> 0, size |-> 0]>>

Joins(last, record) ==
  record.address = last.address + last.size /\ record.module = last.module

\* std::sort: the records in an order that RecordBefore allows.  Which one it
\* is matters to no one: records that it ties are of one address, and refused.
Sorted(records) ==
  LET n == Len(records)
      order == CHOOSE p \in Bijection(1..n, 1..n) :
                 \A i, j \in 1..n : i < j => ~RecordBefore(records[p[j]], records[p[i]])
  IN [i \in 1..n |-> records[order[i]]]

\* One record more.
PatchPut(ranges, r) ==
  LET last == Last(ranges)
      canExtend == last.size <= MaxAddress - last.address
      fresh == [module |-> r.module, address |-> r.address, size |-> 1]
  IN IF ranges = Invalid \/ r.module = 0 \/ r.same THEN Invalid
     ELSE IF ranges = <<>> THEN <<fresh>>
     ELSE IF canExtend /\ Joins(last, r) THEN [ranges EXCEPT ![Len(ranges)].size = @ + 1]
     ELSE IF ~canExtend \/ r.address < last.address + last.size THEN Invalid
     ELSE Append(ranges, fresh)

NormalizeTrackedPatches(records) == Scan(PatchPut, <<>>, Sorted(records))

-----------------------------------------------------------------------------
(* The inputs.                                                             *)

Alphabet(kind) ==
  CASE kind = "arguments" -> {"a", "bs", "quote", "space", "next"}
    [] kind = "utf8" -> Byte
    [] kind = "memory" -> Cell \cup {Unreadable}
    [] kind = "ranges" -> 0..MaxAddress
    [] kind = "patches" -> [module : 0..2, address : 0..MaxAddress, same : BOOLEAN]
    [] kind = "ini" -> {Section(n) : n \in Name} \cup {CurrentProfile(n) : n \in Name}
                         \cup {OtherLine("")}

NoSearch == [memory |-> <<>>, pattern |-> <<>>, limit |-> 1, cursor |-> 0, found |-> <<>>,
             complete |-> TRUE]

Init ==
  /\ input \in [kind : DOMAIN MaxLength, text : {<<>>}]
  /\ search = NoSearch

Grow ==
  /\ Len(input.text) < MaxLength[input.kind]
  /\ \E symbol \in Alphabet(input.kind) : input' = [input EXCEPT !.text = Append(@, symbol)]
  /\ UNCHANGED search

\* ParseMemoryPattern wants one exact byte at least.
StartSearch ==
  /\ input.kind = "memory" /\ input.text # <<>> /\ search = NoSearch
  /\ \E pattern \in BoundedSeq(Cell \cup {Wildcard}, MaxPattern), limit \in 1..MaxLimit :
       /\ \E k \in DOMAIN pattern : pattern[k] # Wildcard
       /\ search' = [NoSearch EXCEPT !.memory = input.text, !.pattern = pattern,
                                     !.limit = limit, !.complete = FALSE]
  /\ input' = [input EXCEPT !.text = <<>>]

Next == (search = NoSearch /\ Grow) \/ StartSearch \/ SearchPage

Spec == Init /\ [][Next]_vars

-----------------------------------------------------------------------------
(* Properties                                                              *)

\* The arguments, cut at "next".
CutPut(words, c) == IF c = "next" THEN Append(words, <<>>)
                    ELSE [words EXCEPT ![Len(words)] = Append(@, c)]

Arguments == Scan(CutPut, <<<<>>>>, input.text)

\* The debuggee gets the very arguments that the client sent, and x64dbg takes
\* the rendered line for one argument, whatever quotes, blanks and backslashes
\* they hold (RenderWindowsArguments, EscapeX64dbgCommandArgument).
ArgumentsSurvive ==
  input.kind = "arguments" =>
    LET line == RenderWindowsArguments(Arguments)
    IN /\ CommandLineToArgv(line) = Arguments
       /\ X64dbgArgument(EscapeX64dbgCommandArgument(line) \o <<"quote", "a">>) = line

\* A sequence is accepted exactly when it encodes a Unicode scalar value in
\* its one shortest form (ValidSequenceLength); what JsonString emits is valid
\* UTF-8 and unchanged if it was; the context of a match, which begins between
\* characters, is cut between characters within its bound
\* (Utf8ContextAroundMatch).
Utf8IsSound ==
  input.kind = "utf8" =>
    LET value == input.text
        Piece(i, j) == SubSeq(value, i, j)
    IN /\ \A i \in DOMAIN value, n \in 1..4 :
            (ValidSequenceLength(value, i) = n)
              <=> (i + n - 1 <= Len(value) /\ IsEncoding(Piece(i, i + n - 1)))
       /\ IsValidUtf8(JsonText(value))
       /\ IsValidUtf8(value) => JsonText(value) = value
       /\ IsValidUtf8(value) =>
            \A offset, size, around \in 0..Len(value) :
              offset + size <= Len(value) /\ IsValidUtf8(Piece(1, offset)) =>
                LET kept == Utf8ContextAroundMatch(value, offset, size, around)
                IN kept # <<>> => /\ kept[1] \in offset - around..offset
                                  /\ kept[2] \in offset + size..offset + size + around
                                  /\ IsValidUtf8(Piece(kept[1] + 1, offset))
                                  /\ IsValidUtf8(Piece(offset + size + 1, kept[2]))

\* However its matches fall into windows and pages, a search that follows its
\* cursors reports every match of the scope once, in order (FindMemoryPattern,
\* memory.search).
PagesFindEachMatchOnce ==
  search # NoSearch =>
    LET total == TotalCandidates(search.memory, search.pattern)
        before == {k \in 0..search.cursor - 1 : MatchesAt(search.memory, search.pattern, k)}
    IN /\ search.cursor <= total
       /\ Range(search.found) = before
       /\ \A i, j \in DOMAIN search.found : i < j => search.found[i] < search.found[j]
       /\ search.complete => search.cursor = total

\* The range checks agree with the sets of addresses also at the top of the
\* address space, where an end does not fit an address (HalfOpenRangesOverlap,
\* MemoryRangeContained, PatchRangeValid).
RangesAreSets ==
  (input.kind = "ranges" /\ Len(input.text) = 4) =>
    LET a == input.text[1]  size == input.text[2]
        b == input.text[3]  length == input.text[4]
        left == a..a + size - 1
        right == b..b + length - 1
        overlap == HalfOpenRangesOverlap(a, size, b, length)
    IN /\ overlap = "yes" => left \cap right # {}
       /\ overlap = "no" => left \cap right = {}
       /\ overlap = "unknown" => a + size > MaxAddress \/ b + length > MaxAddress
       /\ MemoryRangeContained(a, size, b, length) <=> left # {} /\ left \subseteq right
       /\ PatchRangeValid(a, size) <=>
            left # {} /\ size <= MaxPatchSize /\ left \subseteq 0..MaxAddress

\* Tracked patches are refused exactly when a record is malformed or two are
\* of one address; otherwise the ranges cover every record once, and no two
\* neighbours could be one range (NormalizeTrackedPatches).
PatchesAreMaximalRuns ==
  input.kind = "patches" =>
    LET records == input.text
        ranges == NormalizeTrackedPatches(records)
        Covered(r) == {[module |-> r.module, address |-> x] : x \in r.address..r.address + r.size - 1}
        wellFormed == /\ \A i \in DOMAIN records : records[i].module # 0 /\ ~records[i].same
                      /\ \A i, j \in DOMAIN records :
                           records[i].address = records[j].address => i = j
    IN /\ ranges = Invalid <=> ~wellFormed
       /\ wellFormed =>
            /\ UNION {Covered(ranges[i]) : i \in DOMAIN ranges} =
                 {[module |-> records[i].module, address |-> records[i].address] :
                    i \in DOMAIN records}
            /\ \A i \in 1..Len(ranges) - 1 :
                 /\ ranges[i].address + ranges[i].size <= ranges[i + 1].address
                 /\ ranges[i].address + ranges[i].size = ranges[i + 1].address
                      => ranges[i].module # ranges[i + 1].module

\* Setting a profile in a text that parses changes one line at most, and gives a
\* text that parses and selects that profile; setting it again changes nothing
\* (SetScyllaHideProfile, ParseScyllaHideConfig).  Three requests are accepted
\* and leave a text that the parser refuses, or reads as another profile: for
\* SETTINGS, for a section with blanks inside its brackets, and for one whose
\* name makes the text exceed its bound.
SetProfileTakesEffect ==
  (input.kind = "ini" /\ ParseScyllaHideConfig(input.text) # "") =>
    \A requested \in Askable :
      Named(input.text, requested) # {} =>
        LET updated == SetScyllaHideProfile(input.text, requested)
            canonical == CanonicalProfile(input.text, requested)
        IN /\ Cardinality({i \in DOMAIN input.text : updated[i] # input.text[i]}) <= 1
           /\ (/\ ~EqualInsensitive(requested, "SETTINGS")
               /\ Trim[canonical] = canonical
               /\ Fits(updated))
              => /\ EqualInsensitive(ParseScyllaHideConfig(updated), requested)
                 /\ SetScyllaHideProfile(updated, requested) = updated

\* Text reaches its reader as it was meant: arguments, UTF-8 and the profile.
TextIsFaithful == ArgumentsSurvive /\ Utf8IsSound /\ SetProfileTakesEffect

\* Arithmetic on addresses agrees with the sets that they bound.
AddressesAreSets == RangesAreSets /\ PatchesAreMaximalRuns

=============================================================================
