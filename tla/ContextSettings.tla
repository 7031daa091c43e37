-------------------------- MODULE ContextSettings --------------------------
(***************************************************************************)
(* The HTTP proxy a download or upload goes through, as ofono/modem.go     *)
(* reads it from a context's properties: OfonoContext.GetProxy (432-456)   *)
(* takes the Proxy entry of the Settings dictionary (settingsProxy,        *)
(* 376-398); a proxy written "host:port" is split at its colons and the   *)
(* second part parsed with strconv.ParseUint(port, 10, 16), falling back  *)
(* to port 80; a proxy without a colon takes the ProxyPort entry           *)
(* (settingsProxyPort, 400-422), 80 when it is missing or not a uint16.    *)
(*                                                                         *)
(* Strings are sequences of one-character strings. A D-Bus variant is a   *)
(* record [sig, val] with its signature: "s" string, "q" uint16, "u"       *)
(* uint32, "a{sv}" a dictionary given as a function from its keys.         *)
(***************************************************************************)
EXTENDS Naturals, Sequences, TLC
LOCAL INSTANCE SequencesExt

DigitChars == <<"0", "1", "2", "3", "4", "5", "6", "7", "8", "9">>

IsDigit(c) == \E d \in 1..10 : DigitChars[d] = c

DigitValue(c) == CHOOSE d \in 0..9 : DigitChars[d + 1] = c

\* the largest value of ParseUint's bitSize 16
MaxUint16 == 2^16 - 1

\* a key missing from a dictionary
Missing == [sig |-> "", val |-> 0]

(* strconv.ParseUint(s, 10, 16), as [ok, val]: digits accumulate left to *)
(* right; a non-digit is a syntax error with value 0, an accumulated value *)
(* above the maximum a range error with the maximum as value.             *)
RECURSIVE Accumulate(_, _)
Accumulate(s, n) ==
    IF s = <<>> THEN [ok |-> TRUE, val |-> n]
    ELSE IF ~IsDigit(Head(s)) THEN [ok |-> FALSE, val |-> 0]
    ELSE LET n1 == n * 10 + DigitValue(Head(s)) IN
         IF n1 > MaxUint16 THEN [ok |-> FALSE, val |-> MaxUint16]
         ELSE Accumulate(Tail(s), n1)

ParseUint16(s) == IF s = <<>> THEN [ok |-> FALSE, val |-> 0] ELSE Accumulate(s, 0)

\* strings.Split(s, sep) for a one-character separator
RECURSIVE Split(_, _)
Split(s, sep) ==
    LET i == SelectInSeq(s, LAMBDA c : c = sep) IN
    IF i = 0 THEN <<s>>
    ELSE <<SubSeq(s, 1, i - 1)>> \o Split(SubSeq(s, i + 1, Len(s)), sep)

\* Properties[PROP_SETTINGS][key], Missing when Settings is absent or is
\* not a dictionary, or has no such key
SettingsEntry(props, key) ==
    IF /\ "Settings" \in DOMAIN props
       /\ props["Settings"].sig = "a{sv}"
       /\ key \in DOMAIN props["Settings"].val
    THEN props["Settings"].val[key]
    ELSE Missing

\* settingsProxy: the Proxy string, empty when it is missing or no string
settingsProxy(props) ==
    LET v == SettingsEntry(props, "Proxy") IN IF v.sig = "s" THEN v.val ELSE <<>>

\* settingsProxyPort: the ProxyPort uint16, 80 otherwise
settingsProxyPort(props) ==
    LET v == SettingsEntry(props, "ProxyPort") IN IF v.sig = "q" THEN v.val ELSE 80

\* a variant of GetProxy that keeps what ParseUint returned on an error
GetProxyNoFallback(props) ==
    LET proxy == settingsProxy(props) IN
    IF proxy = <<>> THEN [host |-> <<>>, port |-> 0]
    ELSE IF ":" \in ToSet(proxy)
         THEN LET v == Split(proxy, ":") IN
              [host |-> v[1], port |-> ParseUint16(v[2]).val]
         ELSE [host |-> proxy, port |-> settingsProxyPort(props)]

\* GetProxy: the empty ProxyInfo when there is no proxy; never an error
GetProxy(props) ==
    LET proxy == settingsProxy(props) IN
    IF proxy = <<>> THEN [host |-> <<>>, port |-> 0]
    ELSE IF ":" \in ToSet(proxy)
         THEN LET v == Split(proxy, ":")
                  r == ParseUint16(v[2])
              IN [host |-> v[1], port |-> IF r.ok THEN r.val ELSE 80]
         ELSE [host |-> proxy, port |-> settingsProxyPort(props)]

-----------------------------------------------------------------------------
(* The reference: what a proxy setting means, stated without parsing.     *)

\* strconv.FormatUint(n, 10)
RECURSIVE Decimal(_)
Decimal(n) ==
    IF n < 10 THEN <<DigitChars[n + 1]>>
    ELSE Decimal(n \div 10) \o <<DigitChars[(n % 10) + 1]>>

\* the number a digit string denotes, digit by digit weighted by position
DecimalValue(t) ==
    FoldLeftDomain(LAMBDA acc, i : acc + DigitValue(t[i]) * 10^(Len(t) - i), 0, t)

\* a port text is a non-empty decimal number of at most 16 bits
IsPort(t) ==
    /\ t # <<>>
    /\ \A i \in DOMAIN t : IsDigit(t[i])
    /\ DecimalValue(t) <= MaxUint16

\* the properties of a context whose Settings hold the given Proxy and
\* ProxyPort entries
ProxyProps(text, portEntry) ==
    "Settings" :> [sig |-> "a{sv}",
                   val |-> ("Proxy" :> [sig |-> "s", val |-> text])
                           @@ IF portEntry = Missing THEN <<>>
                              ELSE "ProxyPort" :> portEntry]

(* The host and port a proxy text with at most one colon denotes: no      *)
(* proxy; a host on the port ProxyPort gives; or the host before the      *)
(* colon on the port after it, port 80 when that is no 16-bit number.     *)
ReferenceProxy(text, defaultPort) ==
    LET colon == SelectInSeq(text, LAMBDA c : c = ":") IN
    CASE text = <<>> -> [host |-> <<>>, port |-> 0]
      [] colon = 0 -> [host |-> text, port |-> defaultPort]
      [] OTHER ->
           LET t == SubSeq(text, colon + 1, Len(text)) IN
           [host |-> SubSeq(text, 1, colon - 1),
            port |-> IF IsPort(t) THEN DecimalValue(t) ELSE 80]

\* the ProxyPort entries a check ranges over: missing, of the wrong type,
\* a uint16
PortEntries == {Missing, [sig |-> "u", val |-> 8080], [sig |-> "q", val |-> 8080]}

(* GetProxy yields the coordinates the setting denotes: for every host in *)
(* Hosts written with every port 0..65535, for every port text in         *)
(* PortTexts (numbers past 16 bits and non-numbers included), and for a   *)
(* bare host or no proxy with every kind of ProxyPort entry.              *)
GetProxyMatchesReference(Hosts, PortTexts) ==
    /\ \A h \in Hosts, n \in 0..MaxUint16 :
          GetProxy(ProxyProps(h \o <<":">> \o Decimal(n), Missing))
            = [host |-> h, port |-> n]
    /\ \A h \in Hosts, t \in PortTexts :
          LET text == h \o <<":">> \o t IN
          GetProxy(ProxyProps(text, Missing)) = ReferenceProxy(text, 80)
    /\ \A text \in Hosts \cup {<<>>}, e \in PortEntries :
          GetProxy(ProxyProps(text, e))
            = ReferenceProxy(text, IF e.sig = "q" THEN e.val ELSE 80)
=============================================================================
