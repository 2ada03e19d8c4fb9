-------------------------------- MODULE URL --------------------------------
(***************************************************************************)
(* http::URL: a string is split at its first colon, at the slashes behind  *)
(* it, and from the end at '#' and '?'.                                    *)
(*                                                                         *)
(* A string is a sequence of tokens.  ":", "/", "?", "#", "[" and "]" are  *)
(* the characters the code looks for; a token of Numbers stands for some   *)
(* digits, and one of Names for characters that a host may have.           *)
(* What std::string::find does not find is at npos, of which npos + 1 is   *)
(* zero; positions begin with zero.                                        *)
(***************************************************************************)
EXTENDS Integers, SequencesExt

CONSTANT Names \* the tokens that are neither delimiters nor digits

Delimiters == {":", "/", "?", "#", "[", "]"}

Numbers == {"0", "1", "80", "1234"}

Tokens == Delimiters \cup Numbers \cup Names

String == Seq(Tokens)

npos == -1

-----------------------------------------------------------------------------
(* std::string_view *)

\* Where a character of cs is, from a position on.
Places(s, cs, from) == {i \in from .. Len(s) - 1 : s[i + 1] \in cs}

Find(s, c) == LET at == Places(s, {c}, 0) IN IF at = {} THEN npos ELSE Min(at)

FindLast(s, c) == LET at == Places(s, {c}, 0) IN IF at = {} THEN npos ELSE Max(at)

\* substr(i), and substr(0, i).
From(s, i) == SubSeq(s, i + 1, Len(s))

Until(s, i) == IF i = npos THEN s ELSE SubSeq(s, 1, i)

-----------------------------------------------------------------------------
checkHostname(v) == \A i \in DOMAIN v : v[i] \notin Delimiters

AllOfNumber(v) == \A i \in DOMAIN v : v[i] \in Numbers

checkIP(v) ==
    LET v6start == Find(v, "[")
        v6end == FindLast(v, "]")
    IN v6start # v6end => v6start # npos /\ v6end # npos /\ v6start <= v6end

tryPort(v) == v # <<>> /\ AllOfNumber(v)

tryHostPort(v, colonIndex) ==
    /\ tryPort(From(v, colonIndex + 1))
    /\ checkHostname(Until(v, colonIndex)) \/ checkIP(Until(v, colonIndex))

NoParts == [protocol |-> <<>>, host |-> <<>>, port |-> <<>>, path |-> <<>>,
            query |-> <<>>, ref |-> <<>>]

\* The tail of split, with the parts there are and the string that is left:
\* the reference, then the query, then the path.
SplitTail(parts, v) ==
    LET sharp == FindLast(v, "#")
        rest == Until(v, sharp)
        mark == Find(rest, "?")
    IN [parts EXCEPT
          !.ref = IF sharp = npos THEN <<>> ELSE From(v, sharp + 1),
          !.query = IF mark = npos THEN <<>> ELSE From(rest, mark + 1),
          !.path = Until(rest, mark)]

\* Mutant: the colon of the port is taken for the first there is.
SplitHost_First(parts, v) ==
    LET ends == Places(v, {"/", "?", "#"}, 2)
        end == IF ends = {} THEN Len(v) ELSE Min(ends)
        hostport == SubSeq(v, 3, end)
        colonIndex == Find(hostport, ":")
    IN IF colonIndex # npos /\ ~tryHostPort(hostport, colonIndex) THEN parts
       ELSE SplitTail([parts EXCEPT
                         !.host = Until(hostport, colonIndex),
                         !.port = IF colonIndex = npos THEN <<>>
                                  ELSE From(hostport, colonIndex + 1)],
                      From(v, end))

\* What follows "//": the host and its port end at the first of the delimiters.
SplitHost(parts, v) ==
    LET ends == Places(v, {"/", "?", "#"}, 2)
        end == IF ends = {} THEN Len(v) ELSE Min(ends)
        hostport == SubSeq(v, 3, end)
        colonIndex == FindLast(hostport, ":")
    IN IF colonIndex # npos /\ ~tryHostPort(hostport, colonIndex) THEN parts
       ELSE SplitTail([parts EXCEPT
                         !.host = Until(hostport, colonIndex),
                         !.port = IF colonIndex = npos THEN <<>>
                                  ELSE From(hostport, colonIndex + 1)],
                      From(v, end))

split(url) ==
    LET i == Find(url, ":")
        rest == From(url, i + 1)
        parts == [NoParts EXCEPT !.protocol = Until(url, i)]
    IN IF tryHostPort(url, i) THEN NoParts
       ELSE IF IsPrefix(<<"/", "/">>, rest) THEN SplitHost(parts, rest)
       ELSE SplitTail(parts, rest)

-----------------------------------------------------------------------------
(* The reference: <protocol>://<host>:<port>/<path>?<query>#<ref>          *)

Parts == [protocol : String, host : String, port : String,
          path : String, query : String, ref : String]

Without(v, cs) == \A i \in DOMAIN v : v[i] \notin cs

\* The parts a URL may be put together from.  The host is a name, or an address
\* in brackets; a path begins with a slash.
WellFormed(u) ==
    /\ u \in Parts
    /\ Without(u.protocol, {":"})
    /\ Without(u.host, {"/", "?", "#"})
    /\ Without(u.host, Delimiters) \/ (u.host[1] = "[" /\ u.host[Len(u.host)] = "]")
    /\ AllOfNumber(u.port)
    /\ u.path # <<>> => u.path[1] = "/"
    /\ Without(u.path, {"?", "#"})
    /\ Without(u.query, {"#"})
    /\ Without(u.ref, {"#"})

Optional(c, s) == IF s = <<>> THEN <<>> ELSE <<c>> \o s

Rendered(p) ==
    p.protocol \o <<":", "/", "/">> \o p.host \o Optional(":", p.port)
        \o p.path \o Optional("?", p.query) \o Optional("#", p.ref)

=============================================================================
