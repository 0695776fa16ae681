---------------------------- MODULE SshIdentity -----------------------------
(***************************************************************************)
(* Which private keys an attempt tries: the IdentityFile directives of the *)
(* blocks of ~/.ssh/config that match the host, then the default names     *)
(* (rust-core/src/providers/russh.rs, host_pattern_matches to keys_in_dir),*)
(* next to a definition of the same result that scans nothing.             *)
(* A directive names a file after its ~ and % parts have been expanded.    *)
(***************************************************************************)
EXTENDS Naturals, SequencesExt

CONSTANTS KeyFile,   \* the files a key may be in
          Default,   \* the sequence of default names
          HostName   \* the host's name, a sequence of characters

ASSUME DefaultAssumption == Default \in Seq(KeyFile)
ASSUME HostNameAssumption == HostName \in Seq(STRING)

Star == "*"
One == "?"

HostLine(patterns) == [key |-> "host", patterns |-> patterns]
IdentityLine(f) == [key |-> "identityfile", file |-> f]
OtherLine == [key |-> "other"]
Wanted(g) == [negated |-> FALSE, glob |-> g]
Unwanted(g) == [negated |-> TRUE, glob |-> g]
ConfigLine == [key : {"host"}, patterns : Seq([negated : BOOLEAN, glob : Seq(STRING)])]
              \cup [key : {"identityfile"}, file : KeyFile] \cup {OtherLine}

\* m[<<i, j>>]: the pattern from its i-th character on matches the text from
\* its j-th on.
PatternMatches(g, text) ==
  LET m[p \in (1..Len(g) + 1) \X (1..Len(text) + 1)] ==
        LET i == p[1]
            j == p[2]
        IN  IF i > Len(g) THEN j > Len(text)
            ELSE \/ g[i] = Star /\ m[<<i + 1, j>>]
                 \/ /\ j <= Len(text)
                    /\ IF g[i] = Star THEN m[<<i, j + 1>>]
                       ELSE g[i] \in {One, text[j]} /\ m[<<i + 1, j + 1>>]
  IN  m[<<1, 1>>]

\* Mutant: a negated pattern only counts until another one matches.
ClauseMatchesLast(patterns) ==
  LET read(v, p) ==
        IF ~PatternMatches(p.glob, HostName) THEN v
        ELSE IF p.negated THEN "no" ELSE "yes"
  IN  FoldLeft(read, "none", patterns) = "yes"

\* The patterns are read in order; the first negated one that matches decides.
ClauseMatches(patterns) ==
  LET read(v, p) ==
        IF v = "no" \/ ~PatternMatches(p.glob, HostName) THEN v
        ELSE IF p.negated THEN "no" ELSE "yes"
  IN  FoldLeft(read, "none", patterns) = "yes"

IdentityFiles(config) ==
  LET read(acc, line) ==
        CASE line.key = "host" -> [acc EXCEPT !.active = ClauseMatches(line.patterns)]
          [] line.key = "identityfile" /\ acc.active ->
               [acc EXCEPT !.files = Append(@, line.file)]
          [] OTHER -> acc
  IN  FoldLeft(read, [active |-> FALSE, files |-> <<>>], config).files

\* Only files that exist, each once, at its first place.
KeysInDir(config, existing) ==
  LET add(out, f) ==
        IF f \in existing /\ ~Contains(out, f) THEN Append(out, f) ELSE out
  IN  FoldLeft(add, <<>>, IdentityFiles(config) \o Default)

(***************************************************************************)
(* The reference.                                                          *)
(***************************************************************************)
\* A pattern matches a text cut into one piece per character of the pattern:
\* any piece for "*", one character for "?", the character itself otherwise.
GlobMatches(g, text) ==
  \E cut \in [0..Len(g) -> 0..Len(text)] :
    /\ cut[0] = 0 /\ cut[Len(g)] = Len(text)
    /\ \A i \in 1..Len(g) :
         \/ g[i] = Star /\ cut[i - 1] <= cut[i]
         \/ cut[i] = cut[i - 1] + 1 /\ g[i] \in {One, text[cut[i]]}

BlockApplies(patterns) ==
  LET matching == {i \in DOMAIN patterns : GlobMatches(patterns[i].glob, HostName)} IN
  /\ \E i \in matching : ~patterns[i].negated
  /\ \A i \in matching : ~patterns[i].negated

\* The last Host line before line n, and whether there is one.
Blocks(config, n) == {i \in 1..n - 1 : config[i].key = "host"}
Applies(config, n) ==
  \E i \in Blocks(config, n) : /\ \A j \in Blocks(config, n) : j <= i
                               /\ BlockApplies(config[i].patterns)

\* Where a file is named: by a directive that applies, or in the defaults
\* that come after them.
Mentions(config, f) ==
  {n \in DOMAIN config : /\ config[n].key = "identityfile" /\ config[n].file = f
                         /\ Applies(config, n)}
  \cup {Len(config) + i : i \in {j \in DOMAIN Default : Default[j] = f}}

\* The keys tried are those of a matching block or of the defaults that exist,
\* each once, in the order of their first mention.
IsIdentityList(keys, config, existing) ==
  /\ \A f \in KeyFile : Contains(keys, f) <=> f \in existing /\ Mentions(config, f) # {}
  /\ \A i, j \in DOMAIN keys : i < j =>
       \E m \in Mentions(config, keys[i]) : \A n \in Mentions(config, keys[j]) : m < n
=============================================================================
