---------------------------- MODULE Descriptors -----------------------------
(***************************************************************************)
(* What libusb makes of the bytes of a configuration (descriptor.c): the   *)
(* tree of interfaces, alternate settings and endpoints.                   *)
(*                                                                         *)
(* The parser never looks past a header other than by its bLength, so the  *)
(* bytes after the configuration descriptor are a sequence of descriptors: *)
(*   type  "interface", "endpoint", "other" (class or vendor specific)     *)
(*         or "proper" (a device or configuration descriptor)              *)
(*   len   its bLength                                                     *)
(*   has   the bytes of it that are there: fewer than len where the buffer *)
(*         ends, more than len where that is below two                     *)
(*   num, eps   bInterfaceNumber and bNumEndpoints                         *)
(***************************************************************************)
EXTENDS Integers, Sequences, SequencesExt

CONSTANTS Descs,        \* the descriptors a buffer may hold
          MaxDescs,     \* and how many
          MaxEndpoints, \* USB_MAXENDPOINTS
          MaxInterfaces \* interfaces a configuration announces

ASSUME DescAssumption == MaxDescs \in Nat /\ MaxEndpoints \in Nat /\ MaxInterfaces \in Nat

VARIABLE buffer         \* what follows the configuration descriptor

Header == 2
InterfaceLength == 9
EndpointLength == 7

Size(b) == FoldLeft(LAMBDA n, d : n + d.has, 0, b)
Past(b, k) == SubSeq(b, k + 1, Len(b))
Failed == [ok |-> FALSE]

(***************************************************************************)
(* The loop that passes over class and vendor specific descriptors, the    *)
(* same in all three functions.                                            *)
(***************************************************************************)

Invalid(b) == Size(b) >= Header /\ Head(b).len < Header
Cut(b) == Size(b) >= Header /\ Head(b).len > Size(b)
Stops(b) == Size(b) < Header \/ Invalid(b) \/ Cut(b) \/ Head(b).type # "other"

Skipped(b) == CHOOSE k \in 0 .. Len(b) : Stops(Past(b, k)) /\ \A j \in 0 .. k - 1 : ~Stops(Past(b, j))

Rest(b) == Past(b, Skipped(b))

(* The descriptors passed over are kept as extra, unless one is cut short. *)
Extra(b) == IF Cut(Past(b, Skipped(b))) THEN <<>> ELSE SubSeq(b, 1, Skipped(b))

(***************************************************************************)
(* parse_endpoint, and the loop over the endpoints of an alternate setting.*)
(***************************************************************************)

NoEndpoint(b) == Head(b).type # "endpoint" \/ Head(b).len > Size(b)

(* One endpoint with what follows it, before the other endpoints.          *)
Endpoint(b, end, more) ==
    IF Head(b).len < EndpointLength \/ Invalid(end) \/ ~more.ok THEN Failed
    ELSE [more EXCEPT !.found = <<[desc |-> Head(b), extra |-> Extra(Past(b, 1))]>> \o @]

RECURSIVE Endpoints(_, _)
Endpoints(b, n) ==
    CASE n = 0 -> [ok |-> TRUE, found |-> <<>>, rest |-> b]
      [] n > 0 /\ Size(b) < Header -> Failed
      [] n > 0 /\ Size(b) >= Header /\ NoEndpoint(b) -> [ok |-> TRUE, found |-> <<>>, rest |-> b]
      [] OTHER -> LET end == Rest(Past(b, 1)) IN Endpoint(b, end, Endpoints(end, n - 1))

(***************************************************************************)
(* parse_interface: the alternate settings of one interface.               *)
(***************************************************************************)

(* Mutant: the next interface is taken for an alternate setting.           *)
Alternate_Any(b, number) == TRUE

Alternate(b, number) == Head(b).num = number

RECURSIVE Alternates(_)
MoreAlternates(b, number) ==
    IF Size(b) >= InterfaceLength /\ Head(b).type = "interface" /\ Alternate(b, number)
    THEN Alternates(b)
    ELSE [ok |-> TRUE, found |-> <<>>, rest |-> b]

(* One alternate setting: what follows it, its endpoints and those after.  *)
Setting(alt, end, eps, more) ==
    CASE alt.eps > MaxEndpoints \/ Invalid(end) -> Failed
      [] alt.eps <= MaxEndpoints /\ Cut(end) -> [ok |-> TRUE, found |-> <<alt>>, rest |-> end]
      [] OTHER ->
            IF ~eps.ok \/ ~more.ok THEN Failed
            ELSE [more EXCEPT !.found =
                    <<[alt EXCEPT !.eps = Len(eps.found), !.endpoints = eps.found]>> \o @]

SettingFrom(d, rest, end, eps) ==
    Setting([desc |-> d, extra |-> Extra(rest), eps |-> d.eps, endpoints |-> <<>>],
            end, eps, MoreAlternates(eps.rest, d.num))

Alternates(b) ==
    LET d == Head(b)
        rest == Past(b, 1)
    IN  CASE Size(b) < InterfaceLength \/ d.type # "interface" -> [ok |-> TRUE, found |-> <<>>, rest |-> b]
          [] Size(b) >= InterfaceLength /\ d.type = "interface" /\ d.len < InterfaceLength -> Failed
          [] Size(b) >= InterfaceLength /\ d.type = "interface" /\ d.len > Size(b) ->
                [ok |-> TRUE, found |-> <<>>, rest |-> b]
          [] OTHER -> SettingFrom(d, rest, Rest(rest), Endpoints(Rest(rest), d.eps))

(***************************************************************************)
(* parse_configuration, from the descriptor after its own on, for a        *)
(* bNumInterfaces of n.  The extra of the first interface is kept.         *)
(***************************************************************************)

Interface(b, alts, more) ==
    IF ~alts.ok THEN Failed
    ELSE IF alts.found = <<>> THEN [ok |-> TRUE, extra |-> Extra(b), interfaces |-> <<>>, rest |-> Rest(b)]
    ELSE IF ~more.ok THEN Failed
    ELSE [more EXCEPT !.extra = IF Extra(b) # <<>> THEN Extra(b) ELSE @,
                      !.interfaces = <<alts.found>> \o @]

RECURSIVE Configuration(_, _)
InterfaceFrom(b, n, alts) == Interface(b, alts, Configuration(alts.rest, n - 1))
Configuration(b, n) ==
    LET none == [ok |-> TRUE, extra |-> <<>>, interfaces |-> <<>>, rest |-> b]
    IN  CASE n = 0 -> none
          [] n > 0 /\ Invalid(Rest(b)) -> Failed
          [] n > 0 /\ Cut(Rest(b)) -> [none EXCEPT !.rest = Rest(b)]
          [] OTHER -> InterfaceFrom(b, n, Alternates(Rest(b)))

(* Buffers are enumerated a descriptor at a time, up to one at which every *)
(* loop stops.                                                             *)
Whole(d) == d.has = d.len
Valid(d) ==
    /\ Whole(d) /\ d.type # "proper"
    /\ d.type = "interface" => d.len >= InterfaceLength /\ d.eps <= MaxEndpoints
    /\ d.type = "endpoint" => d.len >= EndpointLength
InitBuffer == buffer = <<>>
AppendDesc ==
    /\ Len(buffer) < MaxDescs
    /\ buffer # <<>> => Valid(Last(buffer))
    /\ \E d \in Descs : buffer' = Append(buffer, d)
-----------------------------------------------------------------------------
(* The tree, written out again.                                            *)
OfEndpoint(e) == <<e.desc>> \o e.extra
OfAlternate(a) == <<a.desc>> \o a.extra \o FlattenSeq([i \in DOMAIN a.endpoints |-> OfEndpoint(a.endpoints[i])])
OfInterface(i) == FlattenSeq([k \in DOMAIN i |-> OfAlternate(i[k])])
OfConfiguration(c) == c.extra \o FlattenSeq([k \in DOMAIN c.interfaces |-> OfInterface(c.interfaces[k])])

(* Whatever the buffer, as long as it does not end within a descriptor     *)
(* whose length is there: the tree and what is left over are the buffer again, in its *)
(* order, so that no descriptor is lost, repeated or given to another      *)
(* parent; and bNumEndpoints is the length of the array of endpoints       *)
(* (parse_endpoint, parse_interface and parse_configuration, which hand    *)
(* on the bytes consumed).                                                 *)
EndsWhole == buffer = <<>> \/ Whole(Last(buffer)) \/ Last(buffer).has < Header
NothingDropped(n) ==
    LET c == Configuration(buffer, n)
    IN  EndsWhole /\ c.ok =>
            /\ OfConfiguration(c) \o c.rest = buffer
            /\ \A k \in DOMAIN c.interfaces : \A j \in DOMAIN c.interfaces[k] :
                  c.interfaces[k][j].eps = Len(c.interfaces[k][j].endpoints)

(* A buffer that follows the USB specification: every interface descriptor *)
(* is followed by as many endpoints as it announces.                       *)
IsInterface(k) == buffer[k].type = "interface"
EndpointsAfter(k) ==
    {j \in k + 1 .. Len(buffer) : buffer[j].type = "endpoint" /\ \A i \in k + 1 .. j : ~IsInterface(i)}
First(k) ==
    /\ IsInterface(k)
    /\ \A j \in 1 .. k - 1 : IsInterface(j) /\ (\A i \in j + 1 .. k - 1 : ~IsInterface(i)) => buffer[j].num # buffer[k].num
WellFormed ==
    \A k \in DOMAIN buffer :
        /\ Valid(buffer[k])
        /\ IsInterface(k) => buffer[k].eps = Cardinality(EndpointsAfter(k))
        /\ buffer[k].type = "endpoint" => \E j \in 1 .. k - 1 : IsInterface(j)
Announced == Cardinality({k \in DOMAIN buffer : First(k)})

(* A well-formed configuration is parsed to its end, each interface with   *)
(* all its alternate settings and no other.                                *)
ParsedWhole ==
    LET c == Configuration(buffer, Announced)
    IN  WellFormed =>
            /\ c.ok /\ (Announced > 0 => c.rest = <<>>) /\ Len(c.interfaces) = Announced
            /\ \A k \in DOMAIN c.interfaces : \A j \in DOMAIN c.interfaces[k] :
                  c.interfaces[k][j].desc.num = c.interfaces[k][1].desc.num

(* What the application is given is what the device sent (see the two      *)
(* parts).                                                                 *)
ParsesBack == ParsedWhole /\ \A n \in 0 .. MaxInterfaces : NothingDropped(n)
=============================================================================
