------------------------------ MODULE Metadata ------------------------------
(***************************************************************************)
(* Dates, access modes and sizes as a client gives and reads them: MDTM,   *)
(* SITE CHMOD, SITE UMASK, REST, and the permissions and dates of a        *)
(* listing, for one file.  Calendar and clock are scaled: a date is one    *)
(* digit for the day, a time of day one for the hour and one for the       *)
(* minute, there are no seconds, and times are counted in minutes.         *)
(***************************************************************************)
EXTENDS Addresses

CONSTANTS
    HoursPerDay, MinutesPerHour,
    Inodes,        \* the file as an administrator made it, with any special bits
    Zones,         \* how far local time may be ahead of UTC, in minutes
    Now,           \* curr_time
    HalfYear,      \* 60*60*24*182
    StampTexts,    \* what stands before the name in the argument of MDTM
    ModeTexts,     \* arguments of SITE CHMOD and SITE UMASK
    SizeTexts,     \* arguments of REST
    SizeDigits,    \* 15
    OpenMode,      \* tunable_file_open_mode
    MaxRequests    \* bound: requests of the session

VARIABLES
    zone,          \* how far local time is ahead of UTC on this machine
    use_localtime, \* the tunable
    tz,            \* the environment's TZ, <<>> before it is set
    s_timezone,
    inode,         \* of the file: kind, time and mode
    umask,         \* s_current_umask
    said           \* the last request: its number, its argument and the reply

mvars == <<zone, use_localtime, tz, s_timezone, inode, umask, said>>

DateLen == 1       \* YYYYMMDD
StampLen == 3      \* YYYYMMDDhhmmss
Access == 0..8     \* the bits of 0777
Bits(n) == {i \in 0..11 : (n \div 2^i) % 2 = 1}
Minutes(f) == (f[1] * HoursPerDay + f[2]) * MinutesPerHour + f[3]
DigitOf(n) == CHOOSE c \in Digits(10) : Digit[c] = n
InBaseOf(s, b) == FoldLeft(LAMBDA v, c : v * b + Digit[c], 0, s)

MInit ==
    /\ zone \in Zones
    /\ use_localtime \in BOOLEAN
    /\ tz = <<>>
    /\ s_timezone = 0
    /\ inode \in Inodes
    /\ umask = Bits(7 * 8 + 7)
    /\ said = [nr |-> 0, what |-> "nothing", arg |-> <<>>, reply |-> <<>>]

Answer(what, arg, reply) ==
    /\ said.nr < MaxRequests
    /\ said' = [nr |-> said.nr + 1, what |-> what, arg |-> arg, reply |-> reply]

-----------------------------------------------------------------------------
(* The time zone.                                                          *)

\* strftime("%z"): how far local time is ahead, with its sign.
ZoneText ==
    LET size == IF zone < 0 THEN -zone ELSE zone IN
    <<IF zone < 0 THEN "-" ELSE "+", DigitOf(size \div MinutesPerHour), DigitOf(size % MinutesPerHour)>>

ZoneSize(t) == Digit[t[2]] * MinutesPerHour + Digit[t[3]]

\* Mutant: the sign of strftime is kept.
SignKept(c) == c

\* TZ says how far UTC is ahead of local time.
Inverted(c) == IF c = "+" THEN "-" ELSE "+"

\* vsf_sysutil_tzset, before the session is confined
Tzset ==
    /\ tz = <<>>
    /\ tz' = [ZoneText EXCEPT ![1] = Inverted(@)]
    /\ s_timezone' = IF tz'[1] = "-" THEN -ZoneSize(tz') ELSE ZoneSize(tz')
    /\ UNCHANGED <<zone, use_localtime, inode, umask, said>>

\* The C library's idea of local time, from TZ.
LocalOffset == IF tz[1] = "-" THEN ZoneSize(tz) ELSE -ZoneSize(tz)

Mktime(f) == Minutes(f) - LocalOffset

Gmtime(t) == <<t \div (HoursPerDay * MinutesPerHour), (t \div MinutesPerHour) % HoursPerDay, t % MinutesPerHour>>

Localtime(t) == Gmtime(t + LocalOffset)

-----------------------------------------------------------------------------
(* MDTM.                                                                   *)

\* handle_mdtm takes a first word for a date by its length.
IsDate(text) ==
    /\ text # <<>> /\ text[1] \in Digits(10)
    /\ \/ Len(text) \in {DateLen, StampLen}
       \/ Len(text) > StampLen + 1 /\ text[StampLen + 1] = "."

\* vsf_sysutil_parse_time: fixed columns, what is missing is zero.
ParseTime(text) ==
    LET Col(i, need) == IF Len(text) >= need THEN Atoi(<<text[i]>>) ELSE 0 IN
    Mktime(<<Col(1, DateLen), Col(2, StampLen), Col(3, StampLen)>>)

\* vsf_sysutil_setmodtime
Setmodtime(time) == inode' = [inode EXCEPT !.mtime = IF use_localtime THEN time ELSE time - s_timezone]

\* handle_mdtm with a date and the name of the file.  What is no date belongs to the
\* name, and there is no such file.
MdtmSet(text) ==
    /\ IF IsDate(text) THEN Setmodtime(ParseTime(text)) /\ Answer("set", text, "213")
       ELSE Answer("set", text, "550") /\ UNCHANGED inode
    /\ UNCHANGED <<zone, use_localtime, tz, s_timezone, umask>>

\* vsf_sysutil_statbuf_get_numeric_date
NumericDate == IF use_localtime THEN Localtime(inode.mtime) ELSE Gmtime(inode.mtime)

MdtmGet ==
    /\ Answer("get", <<>>, NumericDate)
    /\ UNCHANGED <<zone, use_localtime, tz, s_timezone, inode, umask>>

-----------------------------------------------------------------------------
(* A line of a listing.                                                    *)

\* vsf_sysutil_statbuf_get_date: the hour of what is recent, the year of what is not.
GetDate ==
    LET tm == NumericDate
        year == inode.mtime > Now \/ Now - inode.mtime > HalfYear
    IN  [year |-> year, fields |-> IF year THEN <<tm[1]>> ELSE tm]

\* vsf_sysutil_statbuf_get_perms.  Letter i is about bit 9 - i; the special bits are
\* shown in the place of an x.
KindLetter == [REG |-> "-", DIR |-> "d", LNK |-> "l", FIFO |-> "p", SOCK |-> "s", CHR |-> "c", BLK |-> "b"]
GetPerms ==
    <<KindLetter[inode.kind]>> \o
    [i \in 1..9 |->
        LET set == 9 - i \in inode.bits
            special == i % 3 = 0 /\ 12 - (i \div 3) \in inode.bits
        IN  IF special THEN (IF i = 9 THEN (IF set THEN "t" ELSE "T") ELSE IF set THEN "s" ELSE "S")
            ELSE IF set THEN <<"r", "w", "x">>[((i - 1) % 3) + 1] ELSE "-"]

\* build_dir_line: its permissions and date; the rest of the line is in Listing.
List ==
    /\ Answer("list", <<>>, [perms |-> GetPerms, date |-> GetDate])
    /\ UNCHANGED <<zone, use_localtime, tz, s_timezone, inode, umask>>

-----------------------------------------------------------------------------
(* Modes.                                                                  *)

\* vsf_sysutil_octal_to_uint
OctalOf(text) == InBaseOf(Leading(text, Digits(8)), 8)

\* vsf_sysutil_uint_to_octal, for a mask
OctalText(bits) ==
    LET digit(k) == (IF 3 * k + 2 \in bits THEN 4 ELSE 0) + (IF 3 * k + 1 \in bits THEN 2 ELSE 0)
                        + (IF 3 * k \in bits THEN 1 ELSE 0)
        places == {k \in 0..2 : \E j \in k..2 : digit(j) # 0}
    IN  <<"0">> \o [i \in 1..Cardinality(places) |-> DigitOf(digit(Cardinality(places) - i))]

\* handle_site_chmod with vsf_sysutil_chmod
Chmod(text) ==
    /\ inode' = [inode EXCEPT !.bits = Bits(OctalOf(text)) \cap Access]
    /\ Answer("chmod", text, "200")
    /\ UNCHANGED <<zone, use_localtime, tz, s_timezone, umask>>

\* vsf_sysutil_set_umask
SetUmask(mask) == umask' = Bits(mask) \cap Access

\* handle_site_umask
SiteUmask(text) ==
    /\ IF text = <<>> THEN UNCHANGED umask ELSE SetUmask(OctalOf(text))
    /\ Answer("umask", text, OctalText(umask'))
    /\ UNCHANGED <<zone, use_localtime, tz, s_timezone, inode>>

\* vsf_sysutil_create_file_exclusive and its relatives: an upload makes a new file, the
\* kernel takes the umask off.
Create ==
    /\ inode' = [kind |-> "REG", mtime |-> Now, bits |-> Bits(OpenMode) \ umask]
    /\ Answer("create", <<>>, "226")
    /\ UNCHANGED <<zone, use_localtime, tz, s_timezone, umask>>

-----------------------------------------------------------------------------
(* Sizes.                                                                  *)

\* vsf_sysutil_a_to_filesize_t, from the last digit to the first
AToFilesize(text) ==
    IF Len(text) > SizeDigits \/ \E i \in DOMAIN text : text[i] \notin Digits(10) THEN 0
    ELSE FoldLeft(LAMBDA v, i : v + Digit[text[Len(text) - i]] * 10^i, 0,
                  [i \in 1..Len(text) |-> i - 1])

Rest(text) ==
    /\ Answer("rest", text, AToFilesize(text))
    /\ UNCHANGED <<zone, use_localtime, tz, s_timezone, inode, umask>>

MNext ==
    \/ Tzset
    \/ /\ tz # <<>>
       /\ \/ \E t \in StampTexts : MdtmSet(t)
          \/ MdtmGet
          \/ List
          \/ \E t \in ModeTexts : Chmod(t)
          \/ \E t \in ModeTexts \cup {<<>>} : SiteUmask(t)
          \/ Create
          \/ \E t \in SizeTexts : Rest(t)
          \/ said.nr = MaxRequests /\ UNCHANGED mvars

-----------------------------------------------------------------------------
(* What the texts mean.                                                    *)

\* Minutes that the clock shown to clients is ahead of UTC.
Ahead == IF use_localtime THEN zone ELSE 0

\* <<day, hour, minute>> of a date that exists.
DateOf(text) ==
    IF Len(text) < StampLen THEN <<Digit[text[1]], 0, 0>>
    ELSE <<Digit[text[1]], Digit[text[2]], Digit[text[3]]>>
RealDate(text) ==
    /\ IsDate(text)
    /\ Len(text) >= StampLen => \A i \in 1..StampLen : text[i] \in Digits(10)
    /\ DateOf(text)[2] < HoursPerDay /\ DateOf(text)[3] < MinutesPerHour

TimesMeanWhatTheySay ==
    /\ said.what = "set" /\ RealDate(said.arg) => inode.mtime = Minutes(DateOf(said.arg)) - Ahead
    /\ said.what = "get" => Minutes(said.reply) = inode.mtime + Ahead
    /\ said.what = "list" /\ ~said.reply.date.year =>
           /\ Minutes(said.reply.date.fields) = inode.mtime + Ahead
           /\ inode.mtime \in Now - HalfYear..Now

ModesMeanWhatTheySay ==
    /\ said.what = "chmod" =>
           inode.bits = {i \in Access : \E k \in 0..2 : i \in 3 * k..3 * k + 2 /\
               LET s == Leading(said.arg, Digits(8)) IN
               Len(s) > k /\ i - 3 * k \in Bits(Digit[s[Len(s) - k]])}
    /\ said.what = "umask" => Bits(OctalOf(said.reply)) = umask
    /\ said.what = "create" => inode.bits \cap umask = {}
    /\ said.what = "list" =>
           /\ \A i \in Access : i \in inode.bits <=> said.reply.perms[10 - i] \notin {"-", "S", "T"}
           /\ \A i \in 9..11 : i \in inode.bits <=> said.reply.perms[10 - 3 * (i - 9)] \in {"s", "S", "t", "T"}

SizesMeanWhatTheySay ==
    said.what = "rest" /\ Len(said.arg) <= SizeDigits =>
        said.reply = Max({0, Number(said.arg, 10, 10^SizeDigits)})

\* What a client gives is understood and what it reads is the truth: an address that
\* has a meaning is parsed to just this address; a date set with MDTM, in UTC or in the
\* zone of the machine as configured, is the time the file gets, and MDTM and LIST show
\* it as that date again, although the zone goes through the sign of TZ; SITE CHMOD and
\* SITE UMASK do what their octal numbers say and never set a special bit; the letters
\* of a listing tell the mode; REST takes a number for what it is.
ArgumentsMeanWhatTheySay ==
    /\ AddressesMeanWhatTheySay
    /\ TimesMeanWhatTheySay
    /\ ModesMeanWhatTheySay
    /\ SizesMeanWhatTheySay
=============================================================================
