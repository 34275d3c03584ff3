------------------------------- MODULE Dates -------------------------------
(***************************************************************************)
(* How the expiry and deletion dates of sends are compared: as texts, with   *)
(* the one now_utc writes.  Clients choose the number of decimals and the    *)
(* zone; nothing normalises what they send.                                  *)
(*                                                                         *)
(* A text is a sequence of character codes.  The fields before the hour are  *)
(* equal, and a field of fixed width is one character.  There are Base       *)
(* seconds in an hour, and Base values of a digit; now_utc writes Decimals   *)
(* of them, clients up to Finest.                                            *)
(***************************************************************************)
EXTENDS Integers, Sequences

CONSTANTS
  Base,      \* values of a digit
  Decimals,  \* decimals that now_utc writes
  Finest,    \* bound: decimals that a client writes
  Hours      \* hours looked at

ASSUME DatesAssumption == /\ Base \in Nat \ {0, 1}
                          /\ Decimals \in Nat /\ Finest \in Nat
                          /\ Decimals <= Finest
                          /\ Hours \subseteq Nat \ {0}

\* Powers of Base.
Pow[n \in Nat] == IF n = 0 THEN 1 ELSE Base * Pow[n - 1]

\* Instants are counted in units of the finest decimal.
Unit(decimals) == Pow[Finest - decimals]
Second == Unit(0)
Hour == Base * Second

Code(d) == 48 + d
Dot == 46
Zulu == <<90>>

\* Zones: UTC, or an hour east or west of it.
Zone == {0, 1, -1}
Spelt(zone) == CASE zone = 0 -> {Zulu, <<43, Code(0)>>}
                 [] zone = 1 -> {<<43, Code(1)>>}
                 [] zone = -1 -> {<<45, Code(1)>>}

-----------------------------------------------------------------------------
\* A clock reads x, in units of its last decimal, the n-th.  Its fields are the
\* hour, numbered 0, the second, and the decimals.  Cut is the reading that is
\* left when what follows a field is cut off.
Cut(x, n, k) == x \div Pow[n + 1 - k]
Field(x, n, k) == IF k = 0 THEN Cut(x, n, 0) ELSE Cut(x, n, k) % Base

\* The place of a field in the text: a dot stands before the decimals.
Place(k) == IF k < 2 THEN k + 1 ELSE k + 2

Spell(x, n) ==
  [i \in 1 .. Place(n + 1) |->
     IF i = 3 THEN Dot ELSE Code(Field(x, n, IF i < 3 THEN i - 1 ELSE i - 2))]

\* The readings of a clock in the hours looked at.
Readings(n) == {h * Pow[n + 1] + m : h \in Hours, m \in 0 .. Pow[n + 1] - 1}

\* The text and the instant of a date that a client sends.
Dates ==
  UNION {{[zone |-> zone, decimals |-> n, text |-> Spell(x, n) \o z,
           instant |-> x * Unit(n) - zone * Hour] :
            x \in Readings(n), z \in Spelt(zone)} :
         n \in 0 .. Finest, zone \in Zone}

\* Mutant: now_utc leaves the decimals out.
NowInSeconds(t) == Spell(t \div Second, 0) \o Zulu

now_utc(t) == Spell(t \div Unit(Decimals), Decimals) \o Zulu

\* <= of Rust strings and of SQLite texts: a is the beginning of b, or the first
\* character in which they differ is the smaller one.
TextLeq(a, b) ==
  \/ Len(a) <= Len(b) /\ \A i \in DOMAIN a : a[i] = b[i]
  \/ \E i \in DOMAIN a \cap DOMAIN b :
       a[i] < b[i] /\ \A j \in 1 .. i - 1 : a[j] = b[j]

\* check_send_available, and the scheduled purge.
Passed(date, t) == TextLeq(date.text, now_utc(t))

\* Instants of an hour at which now_utc is called: its clock has Decimals too.
InstantsOf(hour) ==
  {hour * Hour + n * Unit(Decimals) : n \in 0 .. Pow[Decimals + 1] - 1}

\* Whether each date passes at its instant, give or take less than a unit of the
\* coarser of the two spellings and the distance of its zone from UTC: one in an
\* eastern zone passes late, one in a western zone early.
OnTimeIn(hour) ==
  \A date \in Dates, t \in InstantsOf(hour) :
    LET east == date.zone * Hour
        late == t - date.instant
    IN IF Passed(date, t) THEN -late < Unit(Decimals) - east
                          ELSE late < Unit(date.decimals) + east
=============================================================================
