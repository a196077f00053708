-------------------------- MODULE Navigation_proofs --------------------------
(***************************************************************************)
(* Proofs about Navigation, for any servers, references, nesting of        *)
(* regions and length of the history: the address bar names what is shown, *)
(* and every control that is on the screen is answered.                    *)
(*                                                                         *)
(* Neither property is inductive, for each depends on what earlier swaps   *)
(* left in the page, and Back brings every page of the past onto the       *)
(* screen again.  The invariant says how a page can be nested at all: a    *)
(* control's region is around it (Anchored), forms are innermost           *)
(* (FormsLast) and stand at their own address (FormsOf), and the page      *)
(* keeps its main element unless the login form replaced it or Back made   *)
(* the page from a fragment (MainFirst, LoginOnly or bare).  The page on   *)
(* the screen and every one the history can restore are Sound.  Every      *)
(* template is shown to be a fragment of this shape (IsFragment, IsPage),  *)
(* every request to come from a control inside the region it changes       *)
(* (Sent), and a swap to keep the shape (Swap); each handler is then an    *)
(* instance.                                                               *)
(***************************************************************************)
EXTENDS Navigation, SequenceTheorems, WellFoundedInduction, TLAPS

\* Pages that exist once, and those that links with hx- attributes lead to.
Singles == {"home", "login", "logout", "password", "servers", "newServer", "errors",
            "unknown", "notice", "nothing"}
Browsed == {"servers", "newServer", "server", "containers", "errors", "error"}

\* Pages of a server, and the addresses of all pages.
OfServers == {"server", "containers", "logs", "testDocker"}

Urls == {u \in [page : Singles \union OfServers \union {"error"},
                of : Servers \union References \union {None}] :
            /\ u.page \in Singles => u.of = None
            /\ u.page \in OfServers => u.of \in Servers
            /\ u.page = "error" => u.of \in References}

\* Where the page with a form stands.
FormAddress(url) == CASE url.page = "servers"    -> NewServer
                      [] url.page = "testDocker" -> Url("server", url.of)
                      [] OTHER                   -> url

\* The controls of all templates.
IsPlain(c) == /\ c.target = "page"
              /\ \/ c = Link(c.url) /\ c.url.page \in Routed.GET
                 \/ c = Form(Url("logout", None))
IsHxLink(c) == /\ c = HxLink(c.url, c.target)
               /\ c.target \in {"main", "div", "section"}
               /\ c.url.page \in Browsed
IsHxForm(c) == /\ c = HxForm(c.url, c.target)
               /\ \/ c.url = Login /\ c.target \in {"main", "div"}
                  \/ c.url \in {Url("password", None), ServerList} /\ c.target = "div"
                  \/ c.url.page = "testDocker" /\ c.target = "#docker-summary"

Selectors == {"page", "main", "div", "section", "#docker-summary"}
Control == {c \in [method : {"GET", "POST"}, url : Urls, target : Selectors,
                   outer : BOOLEAN, push : BOOLEAN] :
               IsPlain(c) \/ IsHxLink(c) \/ IsHxForm(c)}

\* The elements of all templates, and of a page put together from them.
Element == {e \in [tag : {"main", "section", "div", "article"}, id : {None, "#docker-summary"},
                   shows : Urls, controls : SUBSET Control] :
               e.id # None => e.tag = "section"}

\* The region a control names is around it; "main" is the page's own.
Anchored(f, around) == \A i \in 1..Len(f) : \A c \in f[i].controls :
    c.target \in {"div", "#docker-summary"} =>
        \/ c.target \in around
        \/ \E k \in 1..i : c.target \in {f[k].tag, f[k].id}

FormFree(e) == \A c \in e.controls : ~IsHxForm(c)

\* Forms are innermost.
FormsLast(f) == \A i \in 1..Len(f) : i # Len(f) => FormFree(f[i])

\* What f shows innermost belongs to an address, and its forms do.
ShowsOnly(f, a) == \A k \in 1..Len(f) :
    (\A j \in 1..Len(f) : j > k => f[j].shows = Nothing)
        => f[k].shows \in {a, Notice, Nothing}
FormsOf(f, a) == \A i \in 1..Len(f) : \A c \in f[i].controls :
    IsHxForm(c) => FormAddress(c.url) = a

\* A page as it can be nested, and what it owes its address.
WellFormed(f) == f \in Seq(Element) /\ Anchored(f, {}) /\ FormsLast(f)
Fits(f, a) == ShowsOnly(f, a) /\ FormsOf(f, a)

\* Something is shown.
IsMeaningful(f) == \E k \in 1..Len(f) : f[k].shows # Nothing

\* The login form replaced the main element: of the htmx controls only itself is left.
LoginOnly(f) == \A i \in 1..Len(f) : \A c \in f[i].controls :
    c.target # "page" => c = HxForm(Login, "div")

\* The page has a main element.
MainFirst(f) == f # Blank /\ f[1].tag = "main"

\* A page that may be on the screen at the address a: with scripts it fits there.
Sound(f, a, isBare) ==
    /\ isBare \in BOOLEAN
    /\ WellFormed(f)
    /\ f = Blank \/ MainFirst(f) \/ LoginOnly(f) \/ isBare
    /\ scripted => Fits(f, a)

\* The addresses that may stand in the bar.
Places == Routed.GET \union Routed.POST \union {"unknown"}
Locations == {u \in Urls : u.page \in Places}

\* The inductive invariant.
IInv == /\ scripted \in BOOLEAN /\ registered \subseteq Servers
        /\ address \in Locations /\ path \in Locations
        /\ Sound(dom, path, bare)
        /\ \A e \in entries : e.url \in Locations /\ Sound(e.body, e.url, e.bare)

-----------------------------------------------------------------------------
(* The greatest and the least of some indices *)

\* A set of naturals has a least element.
LEMMA Least ==
    ASSUME NEW S, S \subseteq Nat, S # {}
    PROVE  \E m \in S : \A k \in S : m <= k
  <1>1. \E m \in S : \A k \in S : <<k, m>> \notin OpToRel(<, Nat)
    BY NatLessThanWellFounded, WFMin, Zenon
  <1>2. PICK m \in S : \A k \in S : <<k, m>> \notin OpToRel(<, Nat)
    BY <1>1
  <1>3. \A k \in S : ~(k < m)
    BY <1>2 DEF OpToRel
  <1> QED
    BY <1>3

\* A bounded one has a greatest element.
LEMMA Greatest ==
    ASSUME NEW n \in Nat, NEW S, S \subseteq 1..n, S # {}
    PROVE  \E m \in S : \A k \in S : m >= k
  <1> DEFINE Distances == {d \in Nat : \E k \in S : d = n - k}
  <1>1. \A k \in S : n - k \in Distances
    OBVIOUS
  <1>2. PICK d \in Distances : \A k \in Distances : d <= k
    BY <1>1, Least
  <1>3. PICK m \in S : d = n - m
    OBVIOUS
  <1>4. \A k \in S : m >= k
    BY <1>1, <1>2, <1>3
  <1> QED
    BY <1>4

\* A control's target is one of the elements its selector matches, if any does.
LEMMA TargetMatches ==
    ASSUME dom \in Seq(Element), NEW i, NEW target
    PROVE  /\ Matching(i, target) # {} => Target(i, target) \in Matching(i, target)
           /\ Target(i, target) # 0 => Matching(i, target) # {}
           /\ Matching(i, target) # {} /\ target = "#docker-summary" =>
                  \A k \in Matching(i, target) : Target(i, target) <= k
  <1> DEFINE M == Matching(i, target)
  <1>1. Len(dom) \in Nat /\ M \subseteq 1..Len(dom) /\ M \subseteq Nat
    BY DEF Matching
  <1>2. CASE M # {}
    <2>1. \E m \in M : \A k \in M : m <= k
      BY <1>1, <1>2, Least
    <2>2. \E m \in M : \A k \in M : m >= k
      BY <1>1, <1>2, Greatest
    <2> QED
      BY <1>2, <2>1, <2>2 DEF Target
  <1>3. CASE M = {}
    BY <1>3 DEF Target
  <1> QED
    BY <1>2, <1>3

-----------------------------------------------------------------------------
(* What fragments are built from *)

\* The addresses that exist once.
LEMMA NamedUrls ==
    /\ {Home, Login, ServerList, NewServer, ErrorList, Notice, Nothing} \subseteq Urls
    /\ Url("logout", None) \in Urls /\ Url("password", None) \in Urls
  <1>1. Home \in Urls /\ Login \in Urls /\ ServerList \in Urls /\ NewServer \in Urls
    BY DEF Home, Login, ServerList, NewServer, Url, Urls, OfServers, Singles
  <1>2. ErrorList \in Urls /\ Notice \in Urls /\ Nothing \in Urls
    BY DEF ErrorList, Notice, Nothing, Url, Urls, OfServers, Singles
  <1>3. Url("logout", None) \in Urls /\ Url("password", None) \in Urls
    BY DEF Url, Urls, OfServers, Singles
  <1> QED
    BY <1>1, <1>2, <1>3

\* The addresses of a server and of an error.
LEMMA UrlsOf ==
    /\ \A s \in Servers : /\ Url("server", s) \in Urls
                          /\ Url("containers", s) \in Urls
                          /\ Url("logs", s) \in Urls
                          /\ Url("testDocker", s) \in Urls
    /\ \A ref \in References : Url("error", ref) \in Urls
  <1>1. ASSUME NEW s \in Servers PROVE Url("server", s) \in Urls /\ Url("containers", s) \in Urls
    BY DEF Url, Urls, OfServers, Singles
  <1>2. ASSUME NEW s \in Servers PROVE Url("logs", s) \in Urls /\ Url("testDocker", s) \in Urls
    BY DEF Url, Urls, OfServers, Singles
  <1>3. ASSUME NEW ref \in References PROVE Url("error", ref) \in Urls
    BY DEF Url, Urls, OfServers, Singles
  <1> QED
    BY <1>1, <1>2, <1>3

\* A link without hx- attributes.
LEMMA LinkIs ==
    ASSUME NEW u \in Urls, u.page \in Routed.GET
    PROVE  Link(u) \in Control /\ ~IsHxForm(Link(u)) /\ Link(u).target = "page"
  BY DEF Link, Control, IsPlain, IsHxForm, HxForm, Form, Selectors

\* A link with them.
LEMMA HxLinkIs ==
    ASSUME NEW u \in Urls, u.page \in Browsed, NEW t \in {"main", "div", "section"}
    PROVE  HxLink(u, t) \in Control /\ ~IsHxForm(HxLink(u, t)) /\ HxLink(u, t).target = t
  BY DEF Link, HxLink, Control, IsHxLink, IsHxForm, HxForm, Form, Selectors

\* A form with them.
LEMMA HxFormIs ==
    ASSUME NEW u \in Urls, NEW t,
           \/ u = Login /\ t \in {"main", "div"}
           \/ u \in {Url("password", None), ServerList} /\ t = "div"
           \/ u.page = "testDocker" /\ t = "#docker-summary"
    PROVE  HxForm(u, t) \in Control /\ HxForm(u, t).target = t /\ HxForm(u, t).url = u
  BY DEF HxForm, Form, Control, IsHxForm, Selectors

\* The controls of an element find their region there or further out.
Holds(tag, controls, around) == \A c \in controls :
    c.target \in {"div", "#docker-summary"} => c.target \in around \union {tag}

\* Nothing in f belongs to another address.
AllShow(f, a) == \A k \in 1..Len(f) : f[k].shows \in {a, Notice, Nothing}

\* A template, or a part of one that stands inside certain regions.
Template(f, around, a) ==
    /\ f \in Seq(Element) /\ f # <<>>
    /\ Anchored(f, around) /\ FormsLast(f) /\ FormsOf(f, a) /\ AllShow(f, a)

\* The innermost element of a template.
LEMMA Innermost ==
    ASSUME NEW tag \in {"main", "section", "div", "article"}, NEW shows \in Urls,
           NEW controls \in SUBSET Control, NEW a, NEW around,
           shows \in {a, Notice, Nothing},
           Holds(tag, controls, around),
           \A c \in controls : IsHxForm(c) => FormAddress(c.url) = a
    PROVE  /\ Template(Region(tag, shows, controls), around, a)
           /\ tag = "main" => MainFirst(Region(tag, shows, controls))
           /\ shows # Nothing => IsMeaningful(Region(tag, shows, controls))
  <1> DEFINE e == [tag |-> tag, id |-> None, shows |-> shows, controls |-> controls]
  <1> DEFINE f == Region(tag, shows, controls)
  <1>1. e \in Element /\ f = <<e>>
    BY DEF Element, Region
  <1>2. f \in Seq(Element) /\ f # <<>> /\ Len(f) = 1 /\ f[1] = e
    BY <1>1
  <1>3. e.tag = tag /\ e.shows = shows /\ e.controls = controls
    OBVIOUS
  <1> HIDE DEF f, e
  <1>4. Anchored(f, around) /\ FormsLast(f) /\ FormsOf(f, a) /\ AllShow(f, a)
    BY <1>2, <1>3 DEF Holds, Anchored, FormsLast, AllShow, FormsOf
  <1>5. shows # Nothing => IsMeaningful(f)
    BY <1>2, <1>3 DEF IsMeaningful
  <1> QED
    BY <1>2, <1>3, <1>4, <1>5 DEF Template, MainFirst, Blank, f

\* An element around the rest of a template.
LEMMA Around ==
    ASSUME NEW e \in Element, NEW f, NEW a, NEW around,
           e.shows \in {a, Notice, Nothing}, FormFree(e),
           Holds(e.tag, e.controls, around),
           Template(f, around \union {e.tag, e.id}, a)
    PROVE  /\ Template(<<e>> \o f, around, a)
           /\ e.tag = "main" => MainFirst(<<e>> \o f)
           /\ e.shows # Nothing \/ IsMeaningful(f) => IsMeaningful(<<e>> \o f)
  <1> DEFINE g == <<e>> \o f
  <1>1. /\ f \in Seq(Element) /\ f # <<>> /\ Len(f) \in Nat
        /\ g \in Seq(Element) /\ Len(g) = Len(f) + 1 /\ g[1] = e
        /\ \A i \in 1..Len(f) : g[i + 1] = f[i]
        /\ \A i \in 2..Len(g) : g[i] = f[i - 1] /\ i - 1 \in 1..Len(f)
    BY DEF Template
  <1> HIDE DEF g
  <1>2. e.shows # Nothing \/ IsMeaningful(f) => IsMeaningful(g)
    BY <1>1 DEF IsMeaningful
  <1>3. Anchored(g, around)
    <2> SUFFICES ASSUME NEW i \in 1..Len(g), NEW c \in g[i].controls,
                        c.target \in {"div", "#docker-summary"}
                 PROVE  c.target \in around \/ \E k \in 1..i : c.target \in {g[k].tag, g[k].id}
      BY DEF Anchored
    <2>1. CASE i = 1
      BY <1>1, <2>1 DEF Holds
    <2>2. CASE i # 1
      <3>1. i - 1 \in 1..Len(f) /\ g[i] = f[i - 1]
        BY <1>1, <2>2
      <3>2. \/ c.target \in around \union {e.tag, e.id}
            \/ \E k \in 1..(i - 1) : c.target \in {f[k].tag, f[k].id}
        BY <3>1 DEF Template, Anchored
      <3>3. ASSUME NEW k \in 1..(i - 1) PROVE k + 1 \in 1..i /\ g[k + 1] = f[k]
        BY <1>1
      <3>4. 1 \in 1..i
        OBVIOUS
      <3> QED
        BY <1>1, <3>2, <3>3, <3>4
    <2> QED
      BY <2>1, <2>2
  <1>4. FormsLast(g)
    BY <1>1 DEF Template, FormsLast
  <1>5. AllShow(g, a)
    <2> SUFFICES ASSUME NEW k \in 1..Len(g) PROVE g[k].shows \in {a, Notice, Nothing}
      BY DEF AllShow
    <2>1. k = 1 \/ (g[k] = f[k - 1] /\ k - 1 \in 1..Len(f))
      BY <1>1
    <2> QED
      BY <1>1, <2>1 DEF Template, AllShow
  <1>6. FormsOf(g, a)
    <2> SUFFICES ASSUME NEW i \in 1..Len(g), NEW c \in g[i].controls, IsHxForm(c)
                 PROVE  FormAddress(c.url) = a
      BY DEF FormsOf
    <2>1. i # 1
      BY <1>1 DEF FormFree
    <2>2. i - 1 \in 1..Len(f) /\ g[i] = f[i - 1]
      BY <1>1, <2>1
    <2> QED
      BY <2>2 DEF Template, FormsOf
  <1>7. Template(g, around, a) /\ (e.tag = "main" => MainFirst(g))
    BY <1>1, <1>3, <1>4, <1>5, <1>6 DEF Template, MainFirst, Blank
  <1> QED
    BY <1>2, <1>7 DEF g

\* A template may stand inside more regions than it needs.
LEMMA Wider ==
    ASSUME NEW f, NEW a, NEW around, NEW more, around \subseteq more, Template(f, around, a)
    PROVE  Template(f, more, a)
  BY DEF Template, Anchored

\* The same, of a region.
LEMMA AroundRegion ==
    ASSUME NEW tag \in {"main", "section", "div", "article"}, NEW shows \in Urls,
           NEW controls \in SUBSET Control, NEW f, NEW a, NEW around,
           shows \in {a, Notice, Nothing},
           Holds(tag, controls, around),
           \A c \in controls : ~IsHxForm(c),
           Template(f, around \union {tag}, a)
    PROVE  /\ Template(Region(tag, shows, controls) \o f, around, a)
           /\ tag = "main" => MainFirst(Region(tag, shows, controls) \o f)
           /\ shows # Nothing \/ IsMeaningful(f) => IsMeaningful(Region(tag, shows, controls) \o f)
  <1> DEFINE e == [tag |-> tag, id |-> None, shows |-> shows, controls |-> controls]
  <1>1. e \in Element /\ Region(tag, shows, controls) = <<e>>
    BY DEF Element, Region
  <1>2. e.tag = tag /\ e.shows = shows /\ e.controls = controls /\ e.id = None
    OBVIOUS
  <1> HIDE DEF e
  <1>3. Template(f, around \union {e.tag, e.id}, a)
    BY <1>2, Wider
  <1>4. FormFree(e)
    BY <1>2 DEF FormFree
  <1> QED
    BY <1>1, <1>2, <1>3, <1>4, Around

\* A template put after what is left of a page.
LEMMA Inserted ==
    ASSUME NEW p \in Seq(Element), NEW f, NEW a,
           Anchored(p, {}), \A i \in 1..Len(p) : FormFree(p[i]),
           Template(f, {}, a), IsMeaningful(f)
    PROVE  WellFormed(p \o f) /\ Fits(p \o f, a)
  <1> DEFINE g == p \o f
  <1>1. /\ f \in Seq(Element) /\ f # <<>> /\ Len(f) \in Nat /\ Len(p) \in Nat
        /\ g \in Seq(Element) /\ Len(g) = Len(p) + Len(f)
        /\ \A i \in 1..Len(p) : g[i] = p[i]
        /\ \A i \in 1..Len(f) : g[Len(p) + i] = f[i]
        /\ \A i \in 1..Len(g) : i \in 1..Len(p) \/ (i - Len(p) \in 1..Len(f) /\ g[i] = f[i - Len(p)])
    BY DEF Template
  <1> HIDE DEF g
  <1>3. Anchored(g, {})
    <2> SUFFICES ASSUME NEW i \in 1..Len(g), NEW c \in g[i].controls,
                        c.target \in {"div", "#docker-summary"}
                 PROVE  \E k \in 1..i : c.target \in {g[k].tag, g[k].id}
      BY DEF Anchored
    <2>1. CASE i \in 1..Len(p)
      <3>1. PICK k \in 1..i : c.target \in {p[k].tag, p[k].id}
        BY <1>1, <2>1 DEF Anchored
      <3>2. k \in 1..Len(p)
        BY <2>1
      <3>3. g[k] = p[k]
        BY <1>1, <3>2
      <3> QED
        BY <3>1, <3>3
    <2>2. CASE i - Len(p) \in 1..Len(f) /\ g[i] = f[i - Len(p)]
      <3>1. PICK k \in 1..(i - Len(p)) : c.target \in {f[k].tag, f[k].id}
        BY <2>2 DEF Template, Anchored
      <3>2. Len(p) + k \in 1..i /\ g[Len(p) + k] = f[k]
        BY <1>1, <2>2
      <3> QED
        BY <3>1, <3>2
    <2> QED
      BY <1>1, <2>1, <2>2
  <1>4. FormsLast(g)
    <2> SUFFICES ASSUME NEW i \in 1..Len(g), i # Len(g) PROVE FormFree(g[i])
      BY DEF FormsLast
    <2>1. CASE i \in 1..Len(p)
      BY <1>1, <2>1
    <2>2. CASE i - Len(p) \in 1..Len(f) /\ g[i] = f[i - Len(p)]
      <3>1. i - Len(p) # Len(f)
        BY <1>1
      <3> QED
        BY <2>2, <3>1 DEF Template, FormsLast
    <2> QED
      BY <1>1, <2>1, <2>2
  <1>5. ShowsOnly(g, a)
    <2> SUFFICES ASSUME NEW i \in 1..Len(g),
                        \A j \in 1..Len(g) : j > i => g[j].shows = Nothing
                 PROVE  g[i].shows \in {a, Notice, Nothing}
      BY DEF ShowsOnly
    <2>1. CASE i \in 1..Len(p)
      <3>1. PICK k \in 1..Len(f) : f[k].shows # Nothing
        BY DEF IsMeaningful
      <3>2. g[Len(p) + k].shows # Nothing /\ Len(p) + k \in 1..Len(g) /\ Len(p) + k > i
        BY <1>1, <2>1, <3>1
      <3> QED
        BY <3>2
    <2>2. CASE i - Len(p) \in 1..Len(f) /\ g[i] = f[i - Len(p)]
      BY <2>2 DEF Template, AllShow
    <2> QED
      BY <1>1, <2>1, <2>2
  <1>6. FormsOf(g, a)
    <2> SUFFICES ASSUME NEW i \in 1..Len(g), NEW c \in g[i].controls, IsHxForm(c)
                 PROVE  FormAddress(c.url) = a
      BY DEF FormsOf
    <2>1. i \notin 1..Len(p)
      BY <1>1 DEF FormFree
    <2>2. i - Len(p) \in 1..Len(f) /\ g[i] = f[i - Len(p)]
      BY <1>1, <2>1
    <2> QED
      BY <2>2 DEF Template, FormsOf
  <1>7. WellFormed(g) /\ Fits(g, a)
    BY <1>1, <1>3, <1>4, <1>5, <1>6 DEF WellFormed, Fits
  <1> QED
    BY <1>7 DEF g

-----------------------------------------------------------------------------
(* The templates *)

\* An answer to htmx, and a whole page, that belong to the address a.
IsFragment(f, a) == Template(f, {}, a) /\ IsMeaningful(f)
IsPage(f, a) == Template(f, {}, a) /\ MainFirst(f)

\* A page from its main element and the rest.
LEMMA MainAround ==
    ASSUME NEW shows \in Urls, NEW controls \in SUBSET Control, NEW f, NEW a,
           shows \in {a, Notice, Nothing},
           \A c \in controls : ~IsHxForm(c) /\ c.target \in {"page", "main", "section"},
           Template(f, {"main"}, a)
    PROVE  /\ IsPage(Region("main", shows, controls) \o f, a)
           /\ shows # Nothing => IsMeaningful(Region("main", shows, controls) \o f)
  <1> DEFINE g == Region("main", shows, controls) \o f
  <1>1. Holds("main", controls, {})
    BY DEF Holds
  <1>2. Template(f, {} \union {"main"}, a) /\ \A c \in controls : ~IsHxForm(c)
    BY Wider
  <1> QED
    BY <1>1, <1>2, AroundRegion DEF IsPage

\* A notice with links fits every address.
LEMMA NoticeIs ==
    ASSUME NEW controls \in SUBSET Control, NEW a,
           \A c \in controls : ~IsHxForm(c) /\ c.target \in {"page", "div"}
    PROVE  LET f == Region("div", Notice, controls) IN
           IsFragment(f, a) /\ IsPage(Main({}) \o f, a)
  <1> DEFINE f == Region("div", Notice, controls)
  <1> DEFINE g == Region("main", Nothing, {}) \o f
  <1>1. Notice \in Urls /\ Nothing \in Urls /\ Notice # Nothing
    BY NamedUrls DEF Notice, Nothing, Url
  <1>2. Holds("div", controls, {}) /\ Holds("main", {}, {})
    BY DEF Holds
  <1>3. Template(f, {}, a) /\ IsMeaningful(f)
    BY <1>1, <1>2, Innermost
  <1>4. Template(f, {"main"}, a)
    BY <1>3, Wider
  <1>5. {} \in SUBSET Control /\ \A c \in {} : ~IsHxForm(c) /\ c.target \in {"page", "main", "section"}
    OBVIOUS
  <1> HIDE DEF f
  <1>6. IsPage(Region("main", Nothing, {}) \o f, a)
    BY <1>1, <1>4, <1>5, MainAround
  <1> QED
    BY <1>3, <1>6 DEF IsFragment, Main, f

\* Pages with a region between the main element and the fragment.
LEMMA PageAround ==
    ASSUME NEW controls \in SUBSET Control, NEW tag \in {"section", "div"}, NEW f, NEW a,
           \A c \in controls : ~IsHxForm(c) /\ c.target \in {"page", "main", "section"},
           Template(f, {}, a)
    PROVE  IsPage(Main(controls) \o Region(tag, Nothing, {}) \o f, a)
  <1> DEFINE inner == Region(tag, Nothing, {})
  <1>1. Nothing \in Urls
    BY NamedUrls
  <1>2. Holds(tag, {}, {"main"}) /\ {} \in SUBSET Control /\ \A c \in {} : ~IsHxForm(c)
    BY DEF Holds
  <1>3. Template(f, {"main"} \union {tag}, a)
    BY Wider
  <1>4. Template(inner \o f, {"main"}, a)
    BY <1>1, <1>2, <1>3, AroundRegion
  <1>5. IsPage(Region("main", Nothing, controls) \o (inner \o f), a)
    BY <1>1, <1>4, MainAround
  <1>6. Main(controls) \in Seq(Element) /\ inner \in Seq(Element) /\ f \in Seq(Element)
    BY <1>1 DEF Main, Region, Element, Template
  <1>7. Main(controls) \o (inner \o f) = Main(controls) \o inner \o f
    BY <1>6, ConcatAssociative
  <1> QED
    BY <1>5, <1>7 DEF Main

\* The templates of view, auth, diagnosticpages, containerpages and serverpages:
\* each is a fragment or a page of the address it is served at.
LEMMA HomeIs ==
    ASSUME NEW isAdmin \in BOOLEAN
    PROVE  IsFragment(HomePage(isAdmin), Home) /\ IsPage(HomePage(isAdmin), Home)
  <1> DEFINE controls ==
        {Link(Home), Form(Url("logout", None)), Link(ServerList), Link(Url("password", None))}
        \union {Link(url) : url \in IF isAdmin THEN {ErrorList} ELSE {}}
  <1>1. Home \in Urls /\ Home # Nothing
    BY NamedUrls DEF Home, Nothing, Url
  <1>2. /\ \A u \in {Home, ServerList, Url("password", None), ErrorList} :
               u \in Urls /\ u.page \in Routed.GET
        /\ Form(Url("logout", None)) \in Control
        /\ Form(Url("logout", None)).target = "page"
        /\ ~IsHxForm(Form(Url("logout", None)))
    BY NamedUrls
       DEF Home, ServerList, ErrorList, Url, Routed, Control, IsPlain, IsHxForm, HxForm,
           Form, Selectors
  <1>3. \A c \in controls : c \in Control /\ ~IsHxForm(c) /\ c.target = "page"
    BY <1>2, LinkIs
  <1>4. Holds("main", controls, {})
    BY <1>3 DEF Holds
  <1> HIDE DEF controls
  <1>5. /\ Template(Region("main", Home, controls), {}, Home)
        /\ MainFirst(Region("main", Home, controls))
        /\ IsMeaningful(Region("main", Home, controls))
    BY <1>1, <1>3, <1>4, Innermost
  <1> QED
    BY <1>5 DEF IsFragment, IsPage, HomePage, controls

\* Notices without a reference belong to every address.
LEMMA NoticesAre ==
    ASSUME NEW a
    PROVE  /\ IsFragment(NotFoundFragment, a) /\ IsPage(NotFoundPage, a)
           /\ IsFragment(DeniedFragment, a) /\ IsPage(DeniedPage, a)
           /\ IsFragment(FailureFragment, a) /\ IsPage(FailurePage, a)
           /\ IsFragment(ErrorNotFoundFragment, a) /\ IsPage(ErrorNotFoundPage, a)
           /\ IsFragment(ServerNotFoundFragment, a) /\ IsPage(ServerNotFoundPage, a)
  <1>1. \A u \in {Home, Login, ErrorList, ServerList} : u \in Urls /\ u.page \in Routed.GET
    BY NamedUrls DEF Home, Login, ErrorList, ServerList, Url, Routed
  <1>2. \A u \in {Home, Login} :
            Link(u) \in Control /\ ~IsHxForm(Link(u)) /\ Link(u).target \in {"page", "div"}
    BY <1>1, LinkIs
  <1>3. \A u \in {ErrorList, ServerList} :
            /\ HxLink(u, "div") \in Control /\ ~IsHxForm(HxLink(u, "div"))
            /\ HxLink(u, "div").target \in {"page", "div"}
    BY <1>1, HxLinkIs DEF Browsed, ErrorList, ServerList, Url
  <1>4. IsFragment(NotFoundFragment, a) /\ IsPage(NotFoundPage, a)
    BY <1>2, NoticeIs DEF NotFoundFragment, NotFoundPage
  <1>5. IsFragment(DeniedFragment, a) /\ IsPage(DeniedPage, a)
    BY <1>2, NoticeIs DEF DeniedFragment, DeniedPage
  <1>6. IsFragment(FailureFragment, a) /\ IsPage(FailurePage, a)
    BY NoticeIs DEF FailureFragment, FailurePage
  <1>7. IsFragment(ErrorNotFoundFragment, a) /\ IsPage(ErrorNotFoundPage, a)
    BY <1>3, NoticeIs DEF ErrorNotFoundFragment, ErrorNotFoundPage
  <1>8. IsFragment(ServerNotFoundFragment, a) /\ IsPage(ServerNotFoundPage, a)
    BY <1>3, NoticeIs DEF ServerNotFoundFragment, ServerNotFoundPage
  <1> QED
    BY <1>4, <1>5, <1>6, <1>7, <1>8

\* The login and the password form.
LEMMA AuthTemplates ==
    /\ IsFragment(LoginFragment, Login) /\ IsPage(LoginPage, Login)
    /\ IsFragment(PasswordFragment, Url("password", None))
    /\ IsPage(PasswordPage, Url("password", None))
  <1> DEFINE P == Url("password", None)
  <1> DEFINE form(t) == {HxForm(Login, t)}
  <1> DEFINE passwordForm == {HxForm(P, "div")}
  <1>1. /\ Login \in Urls /\ P \in Urls /\ Nothing \in Urls /\ Home \in Urls
        /\ Login # Nothing /\ P # Nothing /\ Login.page \notin {"servers", "testDocker"}
        /\ P.page \notin {"servers", "testDocker"} /\ Home.page \in Routed.GET
    BY NamedUrls DEF Login, Nothing, Url, Routed, Home
  <1>2. FormAddress(Login) = Login /\ FormAddress(P) = P
    BY <1>1 DEF FormAddress
  <1>3. /\ form("main") \in SUBSET Control /\ form("div") \in SUBSET Control
        /\ passwordForm \in SUBSET Control
        /\ HxForm(Login, "main").target = "main" /\ HxForm(Login, "div").target = "div"
        /\ HxForm(P, "div").target = "div"
        /\ HxForm(Login, "main").url = Login /\ HxForm(Login, "div").url = Login
        /\ HxForm(P, "div").url = P
    BY <1>1, HxFormIs
  <1>4. /\ Holds("section", form("main"), {"main"}) /\ Holds("section", form("div"), {"div"})
        /\ Holds("div", passwordForm, {}) /\ Holds("div", {}, {}) /\ {} \in SUBSET Control
    BY <1>3 DEF Holds
  <1>5. \A c \in {Link(Home)} :
            c \in Control /\ ~IsHxForm(c) /\ c.target \in {"page", "main", "section"}
    BY <1>1, LinkIs
  <1> HIDE DEF P
  <1>6. Template(Section(form("main")), {"main"}, Login)
    BY <1>1, <1>2, <1>3, <1>4, Innermost DEF Section
  <1>7. IsPage(LoginPage, Login)
    BY <1>1, <1>5, <1>6, MainAround DEF LoginPage
  <1>8. Template(Section(form("div")), {"div"}, Login)
    BY <1>1, <1>2, <1>3, <1>4, Innermost DEF Section
  <1>9. Template(Section(form("div")), {} \union {"div"}, Login)
    BY <1>8, Wider
  <1>10. IsFragment(LoginFragment, Login)
    BY <1>1, <1>4, <1>9, AroundRegion DEF LoginFragment, IsFragment
  <1>11. Template(Region("div", P, passwordForm), {}, P) /\ IsMeaningful(Region("div", P, passwordForm))
    BY <1>1, <1>2, <1>3, <1>4, Innermost
  <1>12. Template(Region("div", P, passwordForm), {"main"}, P)
    BY <1>11, Wider
  <1>13. IsPage(Region("main", Nothing, {}) \o Region("div", P, passwordForm), P)
    BY <1>1, <1>12, MainAround
  <1> QED
    BY <1>7, <1>10, <1>11, <1>13 DEF P, PasswordFragment, PasswordPage, IsFragment, Main

\* The Error Log, empty or not.
LEMMA ErrorListIs ==
    ASSUME NEW shown \in SUBSET References
    PROVE  IsFragment(ErrorListFragment(shown), ErrorList) /\ IsPage(ErrorListPage(shown), ErrorList)
  <1> DEFINE rows == {HxLink(Url("error", ref), "section") : ref \in shown}
  <1> DEFINE f == ErrorListFragment(shown)
  <1>1. /\ ErrorList \in Urls /\ ErrorList # Nothing /\ Nothing \in Urls /\ Home \in Urls
        /\ Home.page \in Routed.GET
    BY NamedUrls DEF ErrorList, Nothing, Url, Home, Routed
  <1>2. \A ref \in References : Url("error", ref) \in Urls /\ Url("error", ref).page \in Browsed
    BY UrlsOf DEF Url, Browsed
  <1>3. \A c \in rows : c \in Control /\ ~IsHxForm(c) /\ c.target = "section"
    BY <1>2, HxLinkIs
  <1>4. Holds("div", rows, {}) /\ Holds("div", {}, {"div"}) /\ {} \in SUBSET Control
    BY <1>3 DEF Holds
  <1>5. \A c \in {Link(Home)} :
            c \in Control /\ ~IsHxForm(c) /\ c.target \in {"page", "main", "section"}
    BY <1>1, LinkIs
  <1> HIDE DEF rows
  <1>6. Template(Region("div", ErrorList, rows), {}, ErrorList)
        /\ IsMeaningful(Region("div", ErrorList, rows))
    BY <1>1, <1>3, <1>4, Innermost
  <1>7. Template(Div({}), {"div"}, ErrorList)
    BY <1>1, <1>4, Innermost DEF Div
  <1>8. Template(Div({}), {} \union {"div"}, ErrorList)
    BY <1>7, Wider
  <1>9. Template(Region("div", ErrorList, rows) \o Div({}), {}, ErrorList)
        /\ IsMeaningful(Region("div", ErrorList, rows) \o Div({}))
    BY <1>1, <1>3, <1>4, <1>8, AroundRegion
  <1>10. Region("div", ErrorList, rows) \o <<>> = Region("div", ErrorList, rows)
    BY <1>6, ConcatEmptySeq DEF Template
  <1>11. Template(f, {}, ErrorList) /\ IsMeaningful(f)
    BY <1>6, <1>9, <1>10 DEF ErrorListFragment, rows
  <1>12. IsPage(Main({Link(Home)}) \o Section({}) \o f, ErrorList)
    BY <1>5, <1>11, PageAround DEF Section
  <1> QED
    BY <1>11, <1>12 DEF IsFragment, ErrorListPage

\* The detail of an error.
LEMMA ErrorDetailIs ==
    ASSUME NEW ref \in References
    PROVE  LET a == Url("error", ref) IN
           IsFragment(ErrorDetailFragment(ref), a) /\ IsPage(ErrorDetailPage(ref), a)
  <1> DEFINE a == Url("error", ref)
  <1> DEFINE f == Region("article", a, {})
  <1>1. a \in Urls /\ a # Nothing /\ ErrorList \in Urls /\ ErrorList.page \in Browsed
    BY UrlsOf, NamedUrls DEF Nothing, Url, ErrorList, Browsed
  <1>2. Holds("article", {}, {}) /\ {} \in SUBSET Control
    BY DEF Holds
  <1>3. \A c \in {HxLink(ErrorList, "main")} :
            c \in Control /\ ~IsHxForm(c) /\ c.target \in {"page", "main", "section"}
    BY <1>1, HxLinkIs
  <1> HIDE DEF a
  <1>4. Template(f, {}, a) /\ IsMeaningful(f)
    BY <1>1, <1>2, Innermost
  <1>5. IsPage(Main({HxLink(ErrorList, "main")}) \o Region("div", Nothing, {}) \o f, a)
    BY <1>3, <1>4, PageAround
  <1> QED
    BY <1>4, <1>5 DEF a, IsFragment, ErrorDetailFragment, ErrorDetailPage, Div

\* The link to the Error Log is a plain one.
LEMMA SeeErrorLogIs ==
    ASSUME NEW ref \in References \union {None}
    PROVE  \A c \in SeeErrorLog(ref) : c \in Control /\ ~IsHxForm(c) /\ c.target = "page"
  <1>1. \A r \in References : Url("error", r) \in Urls /\ Url("error", r).page \in Routed.GET
    BY UrlsOf DEF Url, Routed
  <1>2. \A r \in {ref} \ {None} : r \in References
    OBVIOUS
  <1> QED
    BY <1>1, <1>2, LinkIs DEF SeeErrorLog

\* The Docker summary, which replaces itself when a test was sent.
LEMMA DockerSummaryIs ==
    ASSUME NEW server \in Servers, NEW ref \in References \union {None}
    PROVE  IsFragment(DockerSummary(server, ref), Url("server", server))
  <1> DEFINE a == Url("server", server)
  <1> DEFINE e == [tag |-> "section", id |-> "#docker-summary", shows |-> a,
                   controls |-> SeeErrorLog(ref)]
  <1> DEFINE list == HxLink(Url("containers", server), "main")
  <1> DEFINE test == HxForm(Url("testDocker", server), "#docker-summary")
  <1> DEFINE f == Region("div", Nothing, {list, test})
  <1>1. /\ a \in Urls /\ a # Nothing /\ Nothing \in Urls
        /\ Url("containers", server) \in Urls /\ Url("containers", server).page \in Browsed
        /\ Url("testDocker", server) \in Urls /\ Url("testDocker", server).page = "testDocker"
        /\ FormAddress(Url("testDocker", server)) = a
    BY UrlsOf, NamedUrls DEF Nothing, Url, Browsed, FormAddress
  <1>2. /\ list \in Control /\ ~IsHxForm(list) /\ list.target = "main"
        /\ test \in Control /\ test.target = "#docker-summary" /\ FormAddress(test.url) = a
    BY <1>1, HxLinkIs, HxFormIs
  <1>3. e \in Element
    BY <1>1, SeeErrorLogIs DEF Element
  <1>4. /\ e.tag = "section" /\ e.id = "#docker-summary" /\ e.shows = a
        /\ e.controls = SeeErrorLog(ref)
    OBVIOUS
  <1> HIDE DEF a, list, test, e
  <1>5. Holds("div", {list, test}, {} \union {e.tag, e.id}) /\ {list, test} \in SUBSET Control
    BY <1>2, <1>4 DEF Holds
  <1>6. Template(f, {} \union {e.tag, e.id}, a)
    BY <1>1, <1>2, <1>5, Innermost
  <1>7. FormFree(e) /\ Holds(e.tag, e.controls, {})
    BY <1>4, SeeErrorLogIs DEF FormFree, Holds
  <1> HIDE DEF f
  <1>8. Template(<<e>> \o f, {}, a) /\ IsMeaningful(<<e>> \o f)
    BY <1>1, <1>3, <1>4, <1>6, <1>7, Around
  <1> QED
    BY <1>8 DEF IsFragment, DockerSummary, Div, f, e, list, test, a

\* The containers of a server, as a page and inside the main element.
LEMMA ContainerListIs ==
    ASSUME NEW server \in Servers, NEW isEmpty \in BOOLEAN, NEW canViewLogs \in BOOLEAN
    PROVE  LET a == Url("containers", server) IN
           /\ IsFragment(ContainerListMain(server, isEmpty, canViewLogs), a)
           /\ IsPage(ContainerListPage(server, isEmpty, canViewLogs), a)
  <1> DEFINE a == Url("containers", server)
  <1> DEFINE rows == IF isEmpty THEN {Link(a)} ELSE ContainerTableRow(server, canViewLogs)
  <1> DEFINE back == {HxLink(Url("server", server), "main")}
  <1> DEFINE f == Region("div", Nothing, rows)
  <1>1. /\ a \in Urls /\ a # Nothing /\ Nothing \in Urls /\ a.page \in Routed.GET
        /\ Url("server", server) \in Urls /\ Url("server", server).page \in Browsed
        /\ Url("logs", server) \in Urls /\ Url("logs", server).page \in Routed.GET
    BY UrlsOf, NamedUrls DEF Nothing, Url, Browsed, Routed
  <1>2. \A c \in rows : c \in Control /\ ~IsHxForm(c) /\ c.target = "page"
    BY <1>1, LinkIs DEF ContainerTableRow
  <1>3. \A c \in back : c \in Control /\ ~IsHxForm(c) /\ c.target \in {"page", "main", "section"}
    BY <1>1, HxLinkIs
  <1> HIDE DEF a, rows, back
  <1>4. /\ Holds("div", rows, {"div"}) /\ rows \in SUBSET Control
        /\ Holds("div", {}, {"section"}) /\ Holds("section", {}, {"main"})
        /\ {} \in SUBSET Control /\ \A c \in {} : ~IsHxForm(c)
    BY <1>2 DEF Holds
  <1>5. Template(f, {"div"}, a)
    BY <1>1, <1>2, <1>4, Innermost
  <1>6. Template(f, {"section"} \union {"div"}, a) /\ f \in Seq(Element)
    BY <1>5, Wider DEF Template
  <1> DEFINE g == Region("div", Nothing, {}) \o f
  <1> HIDE DEF f
  <1>7. Template(g, {"section"}, a)
    BY <1>1, <1>4, <1>6, AroundRegion
  <1>8. Template(g, {"main"} \union {"section"}, a) /\ g \in Seq(Element)
    BY <1>7, Wider DEF Template
  <1> DEFINE h == Region("section", Nothing, {}) \o g
  <1> HIDE DEF g
  <1>9. Template(h, {"main"}, a)
    BY <1>1, <1>4, <1>8, AroundRegion
  <1> DEFINE m == Region("main", a, back)
  <1>10. IsPage(m \o h, a)
    BY <1>1, <1>3, <1>9, MainAround
  <1>12. IsMeaningful(m \o h)
    BY <1>1, <1>3, <1>9, MainAround
  <1>13. m \in Seq(Element) /\ Section({}) \in Seq(Element)
    BY <1>1, <1>3 DEF Section, Region, Element
  <1>14. m \o h = m \o Section({}) \o g
    BY <1>8, <1>13, ConcatAssociative DEF Section, h
  <1>15. IsFragment(m \o Section({}) \o g, a) /\ IsPage(m \o Section({}) \o g, a)
    BY <1>10, <1>12, <1>14 DEF IsFragment, IsPage
  <1> QED
    BY <1>15
       DEF ContainerListMain, ContainerListPage, ContainerListFragment, Div, a, rows, back, f, g, m

\* The logs, which are a page in every case.
LEMMA LogsIs ==
    ASSUME NEW server \in Servers
    PROVE  LET a == Url("logs", server) IN
           IsFragment(LogsPage(server), a) /\ IsPage(LogsPage(server), a)
  <1> DEFINE a == Url("logs", server)
  <1> DEFINE back == {Link(Url("containers", server))}
  <1>1. /\ a \in Urls /\ a # Nothing /\ Nothing \in Urls
        /\ Url("containers", server) \in Urls /\ Url("containers", server).page \in Routed.GET
    BY UrlsOf, NamedUrls DEF Nothing, Url, Routed
  <1>2. \A c \in back : c \in Control /\ ~IsHxForm(c) /\ c.target \in {"page", "main", "section"}
    BY <1>1, LinkIs
  <1> HIDE DEF a, back
  <1>3. Holds("section", {}, {"main"}) /\ {} \in SUBSET Control
    BY DEF Holds
  <1>4. Template(Section({}), {"main"}, a)
    BY <1>1, <1>3, Innermost DEF Section
  <1>5. /\ IsPage(Region("main", a, back) \o Section({}), a)
        /\ IsMeaningful(Region("main", a, back) \o Section({}))
    BY <1>1, <1>2, <1>4, MainAround
  <1> QED
    BY <1>5 DEF IsFragment, IsPage, LogsPage, a, back

\* A failure of Docker, with a reference or without.
LEMMA DockerErrorIs ==
    ASSUME NEW server \in Servers, NEW ref \in References \union {None}, NEW a
    PROVE  IsFragment(DockerErrorFragment(server, ref), a) /\ IsPage(DockerErrorPage(server, ref), a)
  <1> DEFINE controls == SeeErrorLog(ref) \union {Link(Url("server", server))}
  <1>1. Url("server", server) \in Urls /\ Url("server", server).page \in Routed.GET
    BY UrlsOf DEF Url, Routed
  <1>2. \A c \in controls : c \in Control /\ ~IsHxForm(c) /\ c.target \in {"page", "div"}
    BY <1>1, LinkIs, SeeErrorLogIs
  <1> HIDE DEF controls
  <1>3. IsFragment(Region("div", Notice, controls), a)
        /\ IsPage(Main({}) \o Region("div", Notice, controls), a)
    BY <1>2, NoticeIs
  <1> QED
    BY <1>3 DEF DockerErrorFragment, DockerErrorPage, controls

\* The form for a new server.
LEMMA ServerFormIs ==
    IsFragment(ServerFormFragment, NewServer) /\ IsPage(ServerFormPage, NewServer)
  <1> DEFINE form == {HxForm(ServerList, "div")}
  <1> DEFINE back == {HxLink(ServerList, "main")}
  <1> DEFINE f == Region("div", NewServer, form)
  <1>1. /\ NewServer \in Urls /\ NewServer # Nothing /\ ServerList \in Urls
        /\ ServerList.page \in Browsed /\ FormAddress(ServerList) = NewServer
    BY NamedUrls DEF NewServer, ServerList, Nothing, Url, Browsed, FormAddress
  <1>2. form \in SUBSET Control /\ \A c \in form : c.target = "div" /\ c.url = ServerList
    BY <1>1, HxFormIs
  <1>3. \A c \in back : c \in Control /\ ~IsHxForm(c) /\ c.target \in {"page", "main", "section"}
    BY <1>1, HxLinkIs
  <1> HIDE DEF form, back
  <1>4. Holds("div", form, {})
    BY <1>2 DEF Holds
  <1>5. Template(f, {}, NewServer) /\ IsMeaningful(f)
    BY <1>1, <1>2, <1>4, Innermost
  <1>6. IsPage(Main(back) \o Region("div", Nothing, {}) \o f, NewServer)
    BY <1>3, <1>5, PageAround
  <1> QED
    BY <1>5, <1>6 DEF IsFragment, ServerFormFragment, ServerFormPage, Div, form, back

\* The list of servers, empty or not.
LEMMA ServerListIs ==
    ASSUME NEW shown \in SUBSET Servers
    PROVE  IsFragment(ServerListFragment(shown), ServerList) /\ IsPage(ServerListPage(shown), ServerList)
  <1> DEFINE rows == {HxLink(Url("server", server), "section") : server \in shown}
  <1> DEFINE first == {HxLink(NewServer, "div")}
  <1> DEFINE links == {Link(Home), HxLink(NewServer, "main")}
  <1> DEFINE f == ServerListFragment(shown)
  <1>1. /\ ServerList \in Urls /\ ServerList # Nothing /\ Nothing \in Urls
        /\ Home \in Urls /\ Home.page \in Routed.GET
        /\ NewServer \in Urls /\ NewServer.page \in Browsed
    BY NamedUrls DEF ServerList, NewServer, Nothing, Url, Home, Routed, Browsed
  <1>2. \A s \in Servers : Url("server", s) \in Urls /\ Url("server", s).page \in Browsed
    BY UrlsOf DEF Url, Browsed
  <1>3. \A c \in rows : c \in Control /\ ~IsHxForm(c) /\ c.target = "section"
    BY <1>2, HxLinkIs
  <1>4. \A c \in first : c \in Control /\ ~IsHxForm(c) /\ c.target = "div"
    BY <1>1, HxLinkIs
  <1>5. \A c \in links : c \in Control /\ ~IsHxForm(c) /\ c.target \in {"page", "main", "section"}
    BY <1>1, LinkIs, HxLinkIs
  <1> HIDE DEF rows, first, links
  <1>6. Holds("div", rows, {}) /\ Holds("div", first, {"div"}) /\ first \in SUBSET Control
    BY <1>3, <1>4 DEF Holds
  <1>7. Template(Region("div", ServerList, rows), {}, ServerList)
        /\ IsMeaningful(Region("div", ServerList, rows))
    BY <1>1, <1>3, <1>6, Innermost
  <1>8. Template(Div(first), {"div"}, ServerList)
    BY <1>1, <1>4, <1>6, Innermost DEF Div
  <1>9. Template(Div(first), {} \union {"div"}, ServerList)
    BY <1>8, Wider
  <1>10. Template(Region("div", ServerList, rows) \o Div(first), {}, ServerList)
         /\ IsMeaningful(Region("div", ServerList, rows) \o Div(first))
    BY <1>1, <1>3, <1>6, <1>9, AroundRegion
  <1>11. Region("div", ServerList, rows) \o <<>> = Region("div", ServerList, rows)
    BY <1>7, ConcatEmptySeq DEF Template
  <1>12. Template(f, {}, ServerList) /\ IsMeaningful(f)
    BY <1>7, <1>10, <1>11 DEF ServerListFragment, rows, first
  <1>13. IsPage(Main(links) \o Section({}) \o f, ServerList)
    BY <1>5, <1>12, PageAround DEF Section
  <1> QED
    BY <1>12, <1>13 DEF IsFragment, ServerListPage, links

\* The detail of a server, with a Docker summary or without.
LEMMA ServerDetailIs ==
    ASSUME NEW server \in Servers, NEW ref \in References \union {None}
    PROVE  LET a == Url("server", server) IN
           IsFragment(ServerDetailFragment(server, ref), a) /\ IsPage(ServerDetailPage(server, ref), a)
  <1> DEFINE a == Url("server", server)
  <1> DEFINE back == {HxLink(ServerList, "main")}
  <1> DEFINE r == Region("div", a, {})
  <1> DEFINE f == ServerDetailFragment(server, ref)
  <1>1. /\ a \in Urls /\ a # Nothing /\ ServerList \in Urls /\ ServerList.page \in Browsed
    BY UrlsOf, NamedUrls DEF Nothing, Url, ServerList, Browsed
  <1>2. \A c \in back : c \in Control /\ ~IsHxForm(c) /\ c.target \in {"page", "main", "section"}
    BY <1>1, HxLinkIs
  <1>3. Template(DockerSummary(server, ref), {}, a)
    BY DockerSummaryIs DEF IsFragment
  <1> HIDE DEF a, back
  <1>4. Holds("div", {}, {}) /\ {} \in SUBSET Control /\ \A c \in {} : ~IsHxForm(c)
    BY DEF Holds
  <1>5. Template(r, {}, a) /\ IsMeaningful(r)
    BY <1>1, <1>4, Innermost
  <1>6. Template(DockerSummary(server, ref), {} \union {"div"}, a)
    BY <1>3, Wider
  <1>7. Template(r \o DockerSummary(server, ref), {}, a) /\ IsMeaningful(r \o DockerSummary(server, ref))
    BY <1>1, <1>4, <1>6, AroundRegion
  <1>8. r \o <<>> = r
    BY <1>5, ConcatEmptySeq DEF Template
  <1>9. Template(f, {}, a) /\ IsMeaningful(f)
    BY <1>5, <1>7, <1>8 DEF ServerDetailFragment, a
  <1>10. IsPage(Main(back) \o Region("div", Nothing, {}) \o f, a)
    BY <1>2, <1>9, PageAround
  <1> QED
    BY <1>9, <1>10 DEF IsFragment, ServerDetailPage, Div, a, back

\* A failure of the server handlers.
LEMMA ServerErrorIs ==
    ASSUME NEW ref \in References, NEW a
    PROVE  IsFragment(ServerErrorFragment(ref), a) /\ IsPage(ServerErrorPage(ref), a)
  <1> DEFINE controls == {Link(Url("error", ref))}
  <1>1. Url("error", ref) \in Urls /\ Url("error", ref).page \in Routed.GET
    BY UrlsOf DEF Url, Routed
  <1>2. \A c \in controls : c \in Control /\ ~IsHxForm(c) /\ c.target \in {"page", "div"}
    BY <1>1, LinkIs
  <1> HIDE DEF controls
  <1>3. IsFragment(Region("div", Notice, controls), a)
        /\ IsPage(Main({}) \o Region("div", Notice, controls), a)
    BY <1>2, NoticeIs
  <1> QED
    BY <1>3 DEF ServerErrorFragment, ServerErrorPage, controls

\* The notice that a server was created and its audit row is incomplete.
LEMMA AuditIncompleteIs ==
    ASSUME NEW server \in Servers, NEW ref \in References, NEW a
    PROVE  /\ IsFragment(ServerAuditIncompleteFragment(server, ref), a)
           /\ IsPage(ServerAuditIncompletePage(server, ref), a)
  <1> DEFINE links == {Link(Url("server", server)), Link(Url("error", ref))}
  <1> DEFINE f == Region("div", Notice, {}) \o Div(links)
  <1>1. /\ Url("error", ref) \in Urls /\ Url("error", ref).page \in Routed.GET
        /\ Url("server", server) \in Urls /\ Url("server", server).page \in Routed.GET
        /\ Notice \in Urls /\ Notice # Nothing /\ Nothing \in Urls
    BY UrlsOf, NamedUrls DEF Url, Routed, Notice, Nothing
  <1>2. \A c \in links : c \in Control /\ ~IsHxForm(c) /\ c.target = "page"
    BY <1>1, LinkIs
  <1> HIDE DEF links
  <1>3. /\ Holds("div", links, {"div"}) /\ links \in SUBSET Control
        /\ Holds("div", {}, {}) /\ {} \in SUBSET Control /\ \A c \in {} : ~IsHxForm(c)
    BY <1>2 DEF Holds
  <1>4. Template(Div(links), {"div"}, a)
    BY <1>1, <1>2, <1>3, Innermost DEF Div
  <1>5. Template(Div(links), {} \union {"div"}, a)
    BY <1>4, Wider
  <1>6. Template(f, {}, a) /\ IsMeaningful(f)
    BY <1>1, <1>3, <1>5, AroundRegion
  <1>7. Template(f, {"main"}, a)
    BY <1>6, Wider
  <1>8. \A c \in {} : ~IsHxForm(c) /\ c.target \in {"page", "main", "section"}
    OBVIOUS
  <1> HIDE DEF f
  <1>9. IsPage(Region("main", Nothing, {}) \o f, a)
    BY <1>1, <1>3, <1>7, <1>8, MainAround
  <1> QED
    BY <1>6, <1>9
       DEF IsFragment, ServerAuditIncompleteFragment, ServerAuditIncompletePage, Main, f, links

-----------------------------------------------------------------------------
(* Requests *)

\* The element htmx finds for a control is around the control.
LEMMA TargetIsAround ==
    ASSUME WellFormed(dom), NEW i \in 1..Len(dom), NEW c \in dom[i].controls,
           c.target # "page", Target(i, c.target) # 0
    PROVE  LET k == Target(i, c.target) IN
           k \in 1..i /\ c.target \in {dom[k].tag, dom[k].id}
  <1> DEFINE t == c.target
  <1> DEFINE k == Target(i, t)
  <1>1. /\ dom \in Seq(Element) /\ Len(dom) \in Nat /\ dom[i] \in Element
        /\ c \in Control /\ t \in {"main", "div", "section", "#docker-summary"}
        /\ \A j \in 1..Len(dom) : dom[j] \in Element
    BY DEF WellFormed, Element, Control, Selectors
  <1>2. k \in Matching(i, t)
    BY <1>1, TargetMatches
  <1>3. \A j \in 1..Len(dom) : dom[j].id = t => t = "#docker-summary"
    BY <1>1, NoneIsNoSelector DEF Element
  <1>4. k \in 1..Len(dom) /\ t \in {dom[k].tag, dom[k].id}
        /\ (k <= i \/ dom[k].id = t)
    BY <1>2 DEF Matching
  <1>5. CASE t # "#docker-summary"
    BY <1>1, <1>3, <1>4, <1>5
  <1>6. CASE t = "#docker-summary"
    <2>1. PICK j \in 1..i : t \in {dom[j].tag, dom[j].id}
      BY <1>6 DEF WellFormed, Anchored
    <2>2. j \in 1..Len(dom) /\ dom[j] \in Element
      BY <1>1, <2>1
    <2>3. dom[j].id = t
      BY <1>6, <2>1, <2>2 DEF Element
    <2>4. j \in Matching(i, t)
      BY <2>2, <2>3 DEF Matching
    <2>5. k <= j
      BY <1>1, <1>6, <2>4, TargetMatches
    <2> QED
      BY <1>1, <1>4, <2>2, <2>5
  <1> QED
    BY <1>5, <1>6

\* Where an htmx request comes from: a control inside the element it will change.
ComesFrom(r, i, c) ==
    /\ scripted
    /\ IsHxLink(c) \/ IsHxForm(c)
    /\ r.method = c.method /\ r.url = c.url /\ r.outer = c.outer /\ r.push = c.push
    /\ r.at \in 1..i /\ c.target \in {dom[r.at].tag, dom[r.at].id}
IsSwap(r) == \E i \in 1..Len(dom) : \E c \in dom[i].controls : ComesFrom(r, i, c)

\* Every control on the screen is of a route.
LEMMA ControlIsRouted ==
    ASSUME NEW c \in Control
    PROVE  c.url.page \in Routed[c.method] /\ c.method \in {"GET", "POST"}
  <1>1. CASE IsPlain(c)
    BY <1>1 DEF IsPlain, Link, Form, Routed, Url
  <1>2. CASE IsHxLink(c)
    BY <1>2 DEF IsHxLink, HxLink, Link, Routed, Browsed
  <1>3. CASE IsHxForm(c)
    <2>1. c.method = "POST"
      BY <1>3 DEF IsHxForm, HxForm, Form
    <2>2. c.url.page \in {"login", "password", "servers", "testDocker"}
      BY <1>3 DEF IsHxForm, Login, ServerList, Url
    <2> QED
      BY <2>1, <2>2 DEF Routed
  <1> QED
    BY <1>1, <1>2, <1>3 DEF Control

\* The addresses that a user may type are locations.
LEMMA AddressesAre == Addresses \subseteq Locations
  <1>1. /\ Url("password", None) \in Urls /\ Url("unknown", None) \in Urls
        /\ {Home, Login, ServerList, NewServer, ErrorList} \subseteq Urls
    BY NamedUrls DEF Url, Urls, OfServers, Singles
  <1>2. \A s \in Servers : \A page \in {"server", "containers"} : Url(page, s) \in Urls
    BY UrlsOf
  <1>3. \A s \in DockerServers : Url("logs", s) \in Urls
    BY UrlsOf, DockerServersAreServers
  <1>4. \A ref \in References : Url("error", ref) \in Urls
    BY UrlsOf
  <1>5. \A u \in Addresses : u.page \in Places
    BY DEF Addresses, Places, Routed, Url, Home, Login, ServerList, NewServer, ErrorList
  <1> QED
    BY <1>1, <1>2, <1>3, <1>4, <1>5 DEF Addresses, Locations

\* What htmx saves is as sound as what was on the screen.
LEMMA SnapshotsAreSound ==
    ASSUME IInv
    PROVE  \A e \in Snapshots : e.url \in Locations /\ Sound(e.body, e.url, e.bare)
  <1> DEFINE s == [url |-> path, body |-> dom, bare |-> bare]
  <1>1. s.url = path /\ s.body = dom /\ s.bare = bare
    OBVIOUS
  <1> HIDE DEF s
  <1>2. s.url \in Locations /\ Sound(s.body, s.url, s.bare)
    BY <1>1 DEF IInv
  <1> QED
    BY <1>2 DEF IInv, Snapshots, s

\* A request is a visit, a plain link or form, one to restore a page, or comes from
\* a control inside the region it changes.  The one plain form that scripts leave is
\* the logout.
LEMMA Sent ==
    ASSUME IInv, NEW r \in Requests
    PROVE  /\ r.url \in Locations /\ r.method \in {"GET", "POST"}
           /\ r.at = 0 \/ IsSwap(r)
           /\ r.at = 0 /\ scripted /\ r.method = "POST" => r.url.page = "logout"
           /\ r.restore => r.at = 0 /\ r.method = "GET"
  <1>1. CASE r \in Visits
    <2>1. PICK url \in Addresses \union {address} : r = Visit(url)
      BY <1>1 DEF Visits
    <2>2. url \in Locations
      BY AddressesAre DEF IInv
    <2> QED
      BY <2>1, <2>2 DEF Visit, Load
  <1>2. CASE r \in Restores
    <2>1. PICK e \in Elsewhere : r = [Visit(e.url) EXCEPT !.restore = TRUE]
      BY <1>2 DEF Restores
    <2>2. e.url \in Locations
      BY SnapshotsAreSound DEF Elsewhere
    <2>3. r.url = e.url /\ r.method = "GET" /\ r.at = 0
      BY <2>1 DEF Visit, Load
    <2> QED
      BY <2>2, <2>3
  <1>3. CASE r \in Clicks
    <2>1. PICK x \in Controls :
             \/ ~IsEnhanced(x[2]) /\ r = Load(x[2].method, x[2].url)
             \/ /\ IsEnhanced(x[2]) /\ Target(x[1], x[2].target) # 0
                /\ r = [method |-> x[2].method, url |-> x[2].url,
                        at |-> Target(x[1], x[2].target),
                        outer |-> x[2].outer, push |-> x[2].push, restore |-> FALSE]
      BY <1>3 DEF Clicks
    <2> DEFINE i == x[1]
    <2> DEFINE c == x[2]
    <2>2. i \in 1..Len(dom) /\ c \in dom[i].controls
      BY <2>1 DEF Controls
    <2>3. c \in Control
      BY <2>2 DEF IInv, Sound, WellFormed, Element
    <2>4. c.url \in Urls /\ (IsPlain(c) \/ IsHxLink(c) \/ IsHxForm(c))
      BY <2>3 DEF Control
    <2> HIDE DEF i, c
    <2>5. c.url \in Locations /\ c.method \in {"GET", "POST"}
      BY <2>3, <2>4, ControlIsRouted DEF Locations, Places, Routed
    <2>6. CASE ~IsEnhanced(c)
      <3>1. r.url = c.url /\ r.at = 0 /\ r.method = c.method /\ r.restore = FALSE
        BY <2>1, <2>6 DEF c, Load
      <3>2. scripted => c.target = "page"
        BY <2>6 DEF IsEnhanced
      <3>3. scripted => IsPlain(c)
        BY <2>4, <3>2 DEF IsHxLink, IsHxForm
      <3>4. IsPlain(c) /\ c.method = "POST" => c.url.page = "logout"
        BY DEF IsPlain, Link, Form, Url
      <3> QED
        BY <2>5, <3>1, <3>3, <3>4
    <2>7. CASE IsEnhanced(c)
      <3>1. /\ Target(i, c.target) # 0 /\ r.at = Target(i, c.target) /\ r.method = c.method
            /\ r.url = c.url /\ r.outer = c.outer /\ r.push = c.push /\ r.restore = FALSE
        BY <2>1, <2>7 DEF c, i
      <3>2. scripted /\ c.target # "page"
        BY <2>7 DEF IsEnhanced
      <3>3. IsHxLink(c) \/ IsHxForm(c)
        BY <2>4, <3>2 DEF IsPlain
      <3>4. r.at \in 1..i /\ c.target \in {dom[r.at].tag, dom[r.at].id}
        BY <2>2, <3>1, <3>2, TargetIsAround DEF IInv, Sound
      <3>5. IsSwap(r)
        BY <2>2, <3>1, <3>2, <3>3, <3>4 DEF IsSwap, ComesFrom
      <3>6. r.at # 0
        BY <2>2, <3>4
      <3> QED
        BY <2>5, <3>1, <3>5, <3>6
    <2> QED
      BY <2>6, <2>7
  <1> QED
    BY <1>1, <1>2, <1>3 DEF Requests

\* What the kinds of controls fix of a request.
LEMMA SwapIs ==
    ASSUME IInv, NEW r, IsSwap(r)
    PROVE  /\ scripted /\ r.at \in 1..Len(dom) /\ r.outer \in BOOLEAN
           /\ r.method = "GET" => r.push /\ r.url.page \in Browsed
           /\ r.method = "POST" => /\ ~r.push /\ path = FormAddress(r.url)
                                   /\ r.url.page \in {"login", "password", "servers", "testDocker"}
           /\ MainFirst(dom) /\ r.outer /\ r.at = 1 => r.method = "POST" /\ r.url = Login
           /\ ~MainFirst(dom) /\ ~bare => r.method = "POST" /\ r.url = Login /\ LoginOnly(dom)
  <1>a. PICK i \in 1..Len(dom) : \E c \in dom[i].controls : ComesFrom(r, i, c)
    BY DEF IsSwap
  <1>b. PICK c \in dom[i].controls : ComesFrom(r, i, c)
    BY <1>a
  <1>1. /\ scripted
        /\ IsHxLink(c) \/ IsHxForm(c)
        /\ r.method = c.method /\ r.url = c.url /\ r.outer = c.outer /\ r.push = c.push
        /\ r.at \in 1..i /\ c.target \in {dom[r.at].tag, dom[r.at].id}
    BY <1>b DEF ComesFrom
  <1>2. /\ dom \in Seq(Element) /\ Len(dom) \in Nat /\ r.at \in 1..Len(dom)
        /\ dom[r.at] \in Element /\ dom # Blank
    BY <1>1 DEF IInv, Sound, WellFormed, Blank
  <1>3. CASE IsHxLink(c)
    <2>1. /\ c.method = "GET" /\ c.push /\ c.outer = FALSE /\ c.url.page \in Browsed
          /\ c.target # "page"
      BY <1>3 DEF IsHxLink, HxLink, Link
    <2>2. c # HxForm(Login, "div")
      BY <2>1 DEF HxForm, Form
    <2>3. ~LoginOnly(dom)
      BY <1>1, <2>1, <2>2 DEF LoginOnly
    <2>4. MainFirst(dom) \/ bare
      BY <1>2, <2>3 DEF IInv, Sound
    <2> QED
      BY <1>1, <1>2, <2>1, <2>4
  <1>4. CASE IsHxForm(c)
    <2>1. c.method = "POST" /\ c.push = FALSE /\ c.outer = TRUE /\ c.target # "page"
      BY <1>4 DEF IsHxForm, HxForm, Form
    <2>2. path = FormAddress(r.url)
      BY <1>1, <1>4 DEF IInv, Sound, Fits, FormsOf
    <2>3. r.url.page \in {"login", "password", "servers", "testDocker"}
      BY <1>1, <1>4 DEF IsHxForm, Login, Url, ServerList
    <2>4. ASSUME MainFirst(dom), r.at = 1 PROVE r.url = Login
      <3>1. dom[1].tag = "main" /\ dom[1].id = None
        BY <1>2, <2>4 DEF MainFirst, Element
      <3>2. c.target \in {"main", None}
        BY <1>1, <2>4, <3>1
      <3> QED
        BY <1>1, <1>4, <3>2, NoneIsNoSelector DEF IsHxForm
    <2>5. ASSUME ~MainFirst(dom), ~bare PROVE r.url = Login /\ LoginOnly(dom)
      <3>1. LoginOnly(dom)
        BY <1>2, <2>5 DEF IInv, Sound
      <3>2. c = HxForm(Login, "div")
        BY <1>1, <2>1, <3>1 DEF LoginOnly
      <3> QED
        BY <1>1, <3>1, <3>2 DEF HxForm, Form
    <2> QED
      BY <1>1, <1>2, <2>1, <2>2, <2>3, <2>4, <2>5
  <1> QED
    BY <1>1, <1>3, <1>4

\* What a swap leaves of the page.
Left(at, outer) ==
    SubSeq(dom, 1, at - 1)
    \o (IF outer THEN <<>> ELSE <<[dom[at] EXCEPT !.shows = Nothing, !.controls = {}]>>)

\* What is left has no forms, and keeps the main element unless that was replaced.
LEMMA LeftIs ==
    ASSUME WellFormed(dom), NEW at \in 1..Len(dom), NEW outer \in BOOLEAN
    PROVE  LET p == Left(at, outer) IN
           /\ p \in Seq(Element) /\ Anchored(p, {}) /\ \A i \in 1..Len(p) : FormFree(p[i])
           /\ MainFirst(dom) /\ ~(outer /\ at = 1) => MainFirst(p)
           /\ LoginOnly(dom) \/ (outer /\ at = 1) => LoginOnly(p)
  <1> DEFINE q == SubSeq(dom, 1, at - 1)
  <1> DEFINE e == [dom[at] EXCEPT !.shows = Nothing, !.controls = {}]
  <1> DEFINE p == Left(at, outer)
  <1>1. /\ dom \in Seq(Element) /\ Len(dom) \in Nat /\ dom[at] \in Element
        /\ \A i \in 1..Len(dom) : i # Len(dom) => FormFree(dom[i])
    BY DEF WellFormed, FormsLast
  <1>2. e \in Element /\ e.tag = dom[at].tag /\ e.id = dom[at].id /\ e.controls = {}
    BY <1>1, NamedUrls DEF Element
  <1>3. /\ q \in Seq(Element) /\ Len(q) = at - 1
        /\ \A i \in 1..(at - 1) : q[i] = dom[i]
    BY <1>1, SubSeqProperties
  <1> HIDE DEF p, q, e
  <1>4. /\ p \in Seq(Element) /\ Len(p) \in Nat
        /\ Len(p) = IF outer THEN at - 1 ELSE at
        /\ \A i \in 1..(at - 1) : p[i] = dom[i]
        /\ ~outer => p[at] = e
    <2>1. CASE outer
      <3>1. p = q
        BY <1>3, <2>1, ConcatEmptySeq DEF p, Left, q
      <3> QED
        BY <1>1, <1>3, <2>1, <3>1
    <2>2. CASE ~outer
      <3>1. p = q \o <<e>>
        BY <2>2 DEF p, Left, q, e
      <3>2. <<e>> \in Seq(Element) /\ Len(<<e>>) = 1 /\ <<e>>[1] = e
        BY <1>2
      <3>3. /\ p \in Seq(Element) /\ Len(p) = Len(q) + Len(<<e>>)
            /\ \A i \in 1..Len(p) :
                  p[i] = IF i <= Len(q) THEN q[i] ELSE <<e>>[i - Len(q)]
        BY <1>3, <3>1, <3>2, ConcatProperties
      <3>4. Len(p) = at /\ at \in Nat /\ Len(q) = at - 1
        BY <1>1, <1>3, <3>2, <3>3
      <3>5. \A i \in 1..(at - 1) : p[i] = dom[i]
        BY <1>3, <3>3, <3>4
      <3>6. p[at] = e
        <4>1. at \in 1..Len(p) /\ ~(at <= Len(q)) /\ at - Len(q) = 1
          BY <3>4
        <4>2. p[at] = <<e>>[at - Len(q)]
          BY <3>3, <4>1
        <4> QED
          BY <3>2, <4>1, <4>2
      <3> QED
        BY <2>2, <3>3, <3>4, <3>5, <3>6
    <2> QED
      BY <2>1, <2>2
  <1>5. \A i \in 1..Len(p) :
          \/ i \in 1..(at - 1) /\ p[i] = dom[i] /\ i # Len(dom)
          \/ ~outer /\ i = at /\ p[i].controls = {} /\ p[i].tag = dom[i].tag
    BY <1>1, <1>2, <1>4
  <1>6. Anchored(p, {})
    <2> SUFFICES ASSUME NEW i \in 1..Len(p), NEW c \in p[i].controls,
                        c.target \in {"div", "#docker-summary"}
                 PROVE  \E k \in 1..i : c.target \in {p[k].tag, p[k].id}
      BY DEF Anchored
    <2>1. i \in 1..(at - 1) /\ p[i] = dom[i] /\ i \in 1..Len(dom)
      BY <1>1, <1>5
    <2>2. PICK k \in 1..i : c.target \in {dom[k].tag, dom[k].id}
      BY <2>1 DEF WellFormed, Anchored
    <2>3. k \in 1..(at - 1)
      BY <2>1
    <2>4. p[k] = dom[k]
      BY <1>4, <2>3
    <2> QED
      BY <2>2, <2>4
  <1>7. \A i \in 1..Len(p) : FormFree(p[i])
    BY <1>1, <1>5 DEF FormFree
  <1>8. ASSUME MainFirst(dom), ~(outer /\ at = 1) PROVE MainFirst(p)
    <2>1. 1 \in 1..Len(p)
      BY <1>4, <1>8
    <2>2. p # <<>> /\ p[1].tag = "main"
      BY <1>4, <1>5, <1>8, <2>1 DEF MainFirst
    <2> QED
      BY <2>2 DEF MainFirst, Blank
  <1>9. LoginOnly(dom) \/ (outer /\ at = 1) => LoginOnly(p)
    BY <1>1, <1>4, <1>5 DEF LoginOnly
  <1> QED
    BY <1>4, <1>6, <1>7, <1>8, <1>9 DEF p

-----------------------------------------------------------------------------
(* Answers *)

\* A step that leaves a sound page on the screen, and sound ones in the history.
LEMMA Keeps ==
    ASSUME scripted \in BOOLEAN, UNCHANGED scripted, registered' \subseteq Servers,
           address' \in Locations, path' \in Locations,
           NEW f, NEW a, NEW isBare, Sound(f, a, isBare), dom' = f, path' = a, bare' = isBare,
           \A e \in entries' : e.url \in Locations /\ Sound(e.body, e.url, e.bare)
    PROVE  IInv'
  <1>1. Sound(dom, path, bare)'
    BY DEF Sound, WellFormed, Fits, MainFirst, LoginOnly, Anchored, FormsLast, ShowsOnly,
           FormsOf, FormFree
  <1>2. \A e \in entries' : e.url \in Locations /\ Sound(e.body, e.url, e.bare)'
    BY DEF Sound
  <1> QED
    BY <1>1, <1>2 DEF IInv

\* A new page.
LEMMA LoadKeeps ==
    ASSUME IInv, NEW page, NEW a, IsPage(page, a), NEW url \in Locations, Loaded(page, url),
           registered' \subseteq Servers, UNCHANGED scripted, scripted => a = url
    PROVE  IInv'
  <1>1. WellFormed(page) /\ MainFirst(page)
    BY DEF IsPage, Template, WellFormed
  <1>2. Fits(page, a)
    BY DEF IsPage, Template, Fits, AllShow, ShowsOnly
  <1>3. Sound(page, url, FALSE)
    BY <1>1, <1>2 DEF Sound
  <1> QED
    BY <1>3, Keeps DEF Loaded, IInv

\* A redirect.
LEMMA Leaves ==
    ASSUME IInv, NEW url \in Locations, Loaded(Blank, url), registered' \subseteq Servers,
           UNCHANGED scripted
    PROVE  IInv'
  <1>1. Sound(Blank, url, FALSE)
    BY DEF Sound, WellFormed, Fits, Blank, Anchored, FormsLast, ShowsOnly, FormsOf
  <1> QED
    BY <1>1, Keeps DEF Loaded, IInv

\* What is in the history after a step that saves the page, or does not.
LEMMA HistoryIs ==
    ASSUME IInv, Saved \/ UNCHANGED entries
    PROVE  \A e \in entries' : e.url \in Locations /\ Sound(e.body, e.url, e.bare)
  <1>1. CASE Saved
    <2>1. entries' \subseteq Snapshots
      BY <1>1 DEF Saved
    <2> QED
      BY <2>1, SnapshotsAreSound
  <1>2. CASE UNCHANGED entries
    BY <1>2 DEF IInv
  <1> QED
    BY <1>1, <1>2

\* Back and forward, to a page that is sound at its address.
LEMMA RestoreKeeps ==
    ASSUME IInv, NEW f, NEW isBare, NEW url \in Locations, Sound(f, url, isBare),
           Restored(f, isBare, url), registered' \subseteq Servers, UNCHANGED scripted
    PROVE  IInv'
  <1>1. \A e \in entries' : e.url \in Locations /\ Sound(e.body, e.url, e.bare)
    BY HistoryIs DEF Restored
  <1> QED
    BY <1>1, Keeps DEF Restored, IInv

\* A fragment put into the page that is shown.
LEMMA Swap ==
    ASSUME IInv, NEW r, IsSwap(r), NEW outer \in BOOLEAN, outer => r.outer,
           NEW f, NEW a, IsFragment(f, a), dom' = Left(r.at, outer) \o f, path' = a,
           r.method = "POST" /\ r.url = Login => LoginOnly(f),
           address' \in Locations, a \in Locations, registered' \subseteq Servers,
           UNCHANGED <<scripted, bare>>, Saved \/ UNCHANGED entries
    PROVE  IInv'
  <1> DEFINE p == Left(r.at, outer)
  <1>1. WellFormed(dom) /\ r.at \in 1..Len(dom)
    BY SwapIs DEF IInv, Sound
  <1>2. /\ p \in Seq(Element) /\ Anchored(p, {}) /\ \A i \in 1..Len(p) : FormFree(p[i])
        /\ MainFirst(dom) /\ ~(outer /\ r.at = 1) => MainFirst(p)
        /\ LoginOnly(dom) \/ (outer /\ r.at = 1) => LoginOnly(p)
    BY <1>1, LeftIs
  <1>3. Template(f, {}, a) /\ IsMeaningful(f) /\ f \in Seq(Element)
    BY DEF IsFragment, Template
  <1> DEFINE g == p \o f
  <1> HIDE DEF p
  <1>4. WellFormed(g) /\ Fits(g, a)
    BY <1>2, <1>3, Inserted
  <1>5. /\ Len(g) = Len(p) + Len(f) /\ Len(p) \in Nat /\ Len(f) \in Nat
        /\ \A i \in 1..Len(p) : g[i] = p[i]
        /\ \A i \in 1..Len(g) : i \in 1..Len(p) \/ (i - Len(p) \in 1..Len(f) /\ g[i] = f[i - Len(p)])
    BY <1>2, <1>3
  <1>6. dom' = g
    BY DEF p
  <1> HIDE DEF g
  <1>7. MainFirst(p) => MainFirst(g)
    <2> SUFFICES ASSUME MainFirst(p) PROVE MainFirst(g)
      OBVIOUS
    <2>1. p # <<>> /\ p[1].tag = "main"
      BY DEF MainFirst, Blank
    <2>2. Len(p) >= 1 /\ g[1] = p[1]
      BY <1>2, <1>5, <2>1
    <2>3. g # <<>>
      BY <1>5, <2>2
    <2> QED
      BY <2>1, <2>2, <2>3 DEF MainFirst, Blank
  <1>8. LoginOnly(p) /\ LoginOnly(f) => LoginOnly(g)
    <2> SUFFICES ASSUME LoginOnly(p), LoginOnly(f), NEW i \in 1..Len(g), NEW c \in g[i].controls,
                        c.target # "page"
                 PROVE  c = HxForm(Login, "div")
      BY DEF LoginOnly
    <2>1. CASE i \in 1..Len(p)
      BY <1>5, <2>1 DEF LoginOnly
    <2>2. CASE i - Len(p) \in 1..Len(f) /\ g[i] = f[i - Len(p)]
      BY <2>2 DEF LoginOnly
    <2> QED
      BY <1>5, <2>1, <2>2
  <1>9. MainFirst(g) \/ LoginOnly(g) \/ bare
    <2>1. CASE MainFirst(dom) /\ ~(outer /\ r.at = 1)
      BY <1>2, <1>7, <2>1
    <2>2. CASE MainFirst(dom) /\ outer /\ r.at = 1
      BY <1>2, <1>8, <2>2, SwapIs
    <2>3. CASE ~MainFirst(dom)
      BY <1>2, <1>8, <2>3, SwapIs
    <2> QED
      BY <2>1, <2>2, <2>3
  <1>10. Sound(g, a, bare)
    BY <1>4, <1>9 DEF Sound, IInv
  <1>11. \A e \in entries' : e.url \in Locations /\ Sound(e.body, e.url, e.bare)
    BY HistoryIs
  <1> QED
    BY <1>6, <1>10, <1>11, Keeps DEF IInv

\* The address at which an answer to r stands.
Destination(r) == IF r.method = "GET" THEN r.url ELSE FormAddress(r.url)

\* An answer whose address a header may push.
LEMMA AnswerAsKeeps ==
    ASSUME IInv, NEW r \in Requests, NEW f, NEW page, NEW push, NEW url,
           AnswerAs(r, f, page, push, url),
           r.at # 0 => url \in Locations /\ IsFragment(f, IF push THEN url ELSE path),
           r.at = 0 => IsPage(page, Destination(r)),
           r.method = "POST" /\ r.url = Login => LoginOnly(f),
           registered' \subseteq Servers, UNCHANGED scripted
    PROVE  IInv'
  <1>1. r.url \in Locations /\ (r.at = 0 \/ IsSwap(r))
    BY Sent
  <1>2. CASE r.at = 0
    <2>1. Loaded(page, r.url)
      BY <1>2 DEF AnswerAs
    <2>2. scripted => Destination(r) = r.url
      BY <1>2, Sent DEF Destination, FormAddress
    <2> QED
      BY <1>1, <1>2, <2>1, <2>2, LoadKeeps
  <1>3. CASE r.at # 0
    <2> DEFINE a == IF push THEN url ELSE path
    <2>1. /\ dom' = Left(r.at, r.outer) \o f /\ bare' = bare
          /\ path' = a /\ address' = IF push THEN url ELSE address
          /\ Saved \/ UNCHANGED entries
      BY <1>3 DEF AnswerAs, Swapped, Left
    <2>2. r.outer \in BOOLEAN /\ IsSwap(r)
      BY <1>1, <1>3, SwapIs
    <2>3. a \in Locations /\ address' \in Locations /\ IsFragment(f, a)
      BY <1>3, <2>1 DEF IInv
    <2> HIDE DEF a
    <2> QED
      BY <1>3, <2>1, <2>2, <2>3, Swap
  <1> QED
    BY <1>2, <1>3

\* Answers that belong to the address of their request, or to any: to a load, a
\* swap, or a page that Back or forward asks for.
LEMMA AnswerKeeps ==
    ASSUME IInv, NEW r \in Requests, NEW f, NEW page, Answer(r, f, page),
           IsFragment(f, Destination(r)), IsPage(page, Destination(r)),
           r.method = "POST" /\ r.url = Login => LoginOnly(f),
           UNCHANGED scripted
    PROVE  IInv'
  <1>1. registered' \subseteq Servers
    BY DEF Answer, IInv
  <1>2. r.url \in Locations /\ (r.at = 0 \/ IsSwap(r))
    BY Sent
  <1>3. CASE r.restore
    <2>1. Restored(f, f # page, r.url) /\ Destination(r) = r.url
      BY <1>3, Sent DEF Answer, Destination
    <2>2. WellFormed(f) /\ Fits(f, r.url)
      BY <2>1 DEF IsFragment, Template, WellFormed, Fits, AllShow, ShowsOnly
    <2>3. f # page \/ MainFirst(f)
      BY DEF IsPage
    <2>4. Sound(f, r.url, f # page)
      BY <2>2, <2>3 DEF Sound
    <2> QED
      BY <1>1, <1>2, <2>1, <2>4, RestoreKeeps
  <1>4. CASE ~r.restore
    <2>1. AnswerAs(r, f, page, r.push, r.url)
      BY <1>4 DEF Answer
    <2>2. CASE r.at = 0
      <3>1. Loaded(page, r.url)
        BY <2>1, <2>2 DEF AnswerAs
      <3>2. scripted => Destination(r) = r.url
        BY <2>2, Sent DEF Destination, FormAddress
      <3> QED
        BY <1>1, <1>2, <3>1, <3>2, LoadKeeps
    <2>3. CASE r.at # 0
      <3>1. Destination(r) = IF r.push THEN r.url ELSE path
        BY <1>2, <2>3, Sent, SwapIs DEF Destination
      <3> QED
        BY <1>1, <1>2, <2>1, <2>3, <3>1, AnswerAsKeeps
    <2> QED
      BY <2>2, <2>3
  <1> QED
    BY <1>3, <1>4

\* What a handler knows of its request.
LEMMA RequestIs ==
    ASSUME IInv, NEW r \in Requests, NEW method, NEW page, Asks(r, method, page)
    PROVE  /\ r.method = method /\ r.url.page = page
           /\ r.url = Url(page, r.url.of)
           /\ page \in Singles => r.url = Url(page, None)
           /\ page \in OfServers => r.url.of \in Servers
           /\ page = "error" => r.url.of \in References
  <1>1. r.url \in Urls /\ r.method = method /\ r.url.page = page
    BY Sent DEF Asks, Locations
  <1> QED
    BY <1>1 DEF Urls, Url

\* What the fragments without htmx controls answer, at the login form too.
LEMMA PlainNotices ==
    LoginOnly(DeniedFragment) /\ LoginOnly(FailureFragment) /\ LoginOnly(LoginFragment)
  <1>1. LoginOnly(DeniedFragment)
    BY DEF LoginOnly, DeniedFragment, Region, Link
  <1>2. LoginOnly(FailureFragment)
    BY DEF LoginOnly, FailureFragment, Region
  <1>3. LoginOnly(LoginFragment)
    <2> DEFINE d == [tag |-> "div", id |-> None, shows |-> Login, controls |-> {}]
    <2> DEFINE e == [tag |-> "section", id |-> None, shows |-> Nothing,
                     controls |-> {HxForm(Login, "div")}]
    <2>1. d.controls = {} /\ e.controls = {HxForm(Login, "div")}
      OBVIOUS
    <2>2. LoginFragment = <<d>> \o <<e>>
      BY DEF LoginFragment, Region, Section
    <2> HIDE DEF d, e
    <2>3. <<d>> \in Seq({d, e}) /\ <<e>> \in Seq({d, e})
      OBVIOUS
    <2>4. /\ Len(LoginFragment) = 2
          /\ \A i \in 1..2 : LoginFragment[i].controls \in {{}, {HxForm(Login, "div")}}
      BY <2>1, <2>2, <2>3
    <2> QED
      BY <2>4 DEF LoginOnly
  <1> QED
    BY <1>1, <1>2, <1>3

-----------------------------------------------------------------------------
(* The invariant *)

\* A window that was just opened.
LEMMA Initially == Init => IInv
  <1> SUFFICES ASSUME Init PROVE IInv
    OBVIOUS
  <1>1. dom = <<>> /\ Len(dom) = 0 /\ dom \in Seq(Element)
    BY DEF Init, Blank
  <1>2. bare = FALSE
    BY DEF Init
  <1>3. Sound(<<>>, path, FALSE)
    BY DEF Sound, WellFormed, Fits, Blank, Anchored, FormsLast, ShowsOnly, FormsOf
  <1> QED
    BY <1>1, <1>2, <1>3, AddressesAre DEF Init, IInv

\* The handlers of auth and app.
LEMMA AuthKeeps ==
    ASSUME IInv, UNCHANGED scripted, NEW r \in Requests,
           \/ Denied(r) \/ BackendFailure(r) \/ GetLogin(r) \/ PostLogin(r) \/ PostLogout(r)
           \/ GetPassword(r) \/ PostPassword(r) \/ HandleHome(r) \/ HandleNotFound(r)
    PROVE  IInv'
  <1>1. CASE Denied(r) \/ BackendFailure(r)
    BY <1>1, NoticesAre, PlainNotices, AnswerKeeps DEF Denied, BackendFailure, Fail
  <1>2. ASSUME Asks(r, "GET", "login") \/ Asks(r, "POST", "login"),
               Answer(r, LoginFragment, LoginPage)
        PROVE  IInv'
    <2>1. r.url = Login
      BY <1>2, RequestIs DEF Login, Singles
    <2>2. Destination(r) = Login
      BY <2>1 DEF Destination, FormAddress, Login, Url
    <2> QED
      BY <1>2, <2>2, AuthTemplates, PlainNotices, AnswerKeeps
  <1>3. ASSUME Asks(r, "GET", "password") \/ Asks(r, "POST", "password"),
               Answer(r, PasswordFragment, PasswordPage)
        PROVE  IInv'
    <2>1. r.url = Url("password", None)
      BY <1>3, RequestIs DEF Singles
    <2>2. Destination(r) = Url("password", None) /\ r.url # Login
      BY <2>1 DEF Destination, FormAddress, Url, Login
    <2> QED
      BY <1>3, <2>2, AuthTemplates, AnswerKeeps
  <1>4. ASSUME NEW url \in {Home, Login}, Redirect(url) PROVE IInv'
    <2>1. url \in Locations
      BY NamedUrls DEF Locations, Places, Routed, Home, Login, Url
    <2> QED
      BY <1>4, <2>1, Leaves DEF Redirect, IInv
  <1>5. CASE HandleHome(r)
    <2>1. PICK isAdmin \in BOOLEAN : Answer(r, HomePage(isAdmin), HomePage(isAdmin))
      BY <1>5 DEF HandleHome
    <2>2. r.url = Home /\ r.method = "GET"
      BY <1>5, RequestIs DEF HandleHome, Home, Singles
    <2>3. Destination(r) = Home
      BY <2>2 DEF Destination
    <2> QED
      BY <2>1, <2>2, <2>3, HomeIs, AnswerKeeps
  <1>6. CASE HandleNotFound(r)
    <2>1. r.method = "GET" /\ Answer(r, NotFoundFragment, NotFoundPage)
      BY <1>6 DEF HandleNotFound, Asks, Fail
    <2> QED
      BY <2>1, NoticesAre, AnswerKeeps
  <1>7. CASE GetLogin(r) \/ PostLogin(r)
    BY <1>2, <1>4, <1>7 DEF GetLogin, PostLogin
  <1>8. CASE GetPassword(r) \/ PostPassword(r)
    BY <1>3, <1>4, <1>8 DEF GetPassword, PostPassword
  <1>9. CASE PostLogout(r)
    BY <1>4, <1>9 DEF PostLogout
  <1> QED
    BY <1>1, <1>5, <1>6, <1>7, <1>8, <1>9

\* The handlers of server that change nothing.
LEMMA ServerKeeps ==
    ASSUME IInv, UNCHANGED scripted, NEW r \in Requests,
           HandleServerList(r) \/ HandleNewForm(r) \/ HandleServerDetail(r) \/ ServerError(r)
    PROVE  IInv'
  <1>1. CASE HandleServerList(r)
    <2>1. Answer(r, ServerListFragment(registered), ServerListPage(registered))
      BY <1>1 DEF HandleServerList
    <2>2. Destination(r) = ServerList /\ r.method = "GET"
      BY <1>1, RequestIs DEF HandleServerList, Destination, ServerList, Singles
    <2>3. registered \in SUBSET Servers
      BY DEF IInv
    <2> QED
      BY <2>1, <2>2, <2>3, ServerListIs, AnswerKeeps
  <1>2. CASE HandleNewForm(r)
    <2>1. Answer(r, ServerFormFragment, ServerFormPage)
      BY <1>2 DEF HandleNewForm
    <2>2. Destination(r) = NewServer /\ r.method = "GET"
      BY <1>2, RequestIs DEF HandleNewForm, Destination, NewServer, Singles
    <2> QED
      BY <2>1, <2>2, ServerFormIs, AnswerKeeps
  <1>3. CASE HandleServerDetail(r)
    <2>1. \/ \E ref \in References \union {None} :
                Answer(r, ServerDetailFragment(r.url.of, ref), ServerDetailPage(r.url.of, ref))
          \/ Answer(r, ServerNotFoundFragment, ServerNotFoundPage)
      BY <1>3 DEF HandleServerDetail, Fail
    <2>2. /\ Destination(r) = Url("server", r.url.of) /\ r.url.of \in Servers
          /\ r.method = "GET"
      BY <1>3, RequestIs DEF HandleServerDetail, Destination, OfServers
    <2>3. ASSUME NEW ref \in References \union {None},
                 Answer(r, ServerDetailFragment(r.url.of, ref), ServerDetailPage(r.url.of, ref))
          PROVE  IInv'
      BY <2>2, <2>3, ServerDetailIs, AnswerKeeps
    <2>4. CASE Answer(r, ServerNotFoundFragment, ServerNotFoundPage)
      BY <2>2, <2>4, NoticesAre, AnswerKeeps
    <2> QED
      BY <2>1, <2>3, <2>4
  <1>4. CASE ServerError(r)
    <2>1. PICK ref \in References : Answer(r, ServerErrorFragment(ref), ServerErrorPage(ref))
      BY <1>4 DEF ServerError, Fail
    <2>2. r.method = "GET"
      BY <1>4 DEF ServerError, Asks
    <2> QED
      BY <2>1, <2>2, ServerErrorIs, AnswerKeeps
  <1> QED
    BY <1>1, <1>2, <1>3, <1>4

\* HandleCreate, with each of its answers.
LEMMA CreateKeeps ==
    ASSUME IInv, UNCHANGED scripted, NEW r \in Requests, HandleCreate(r)
    PROVE  IInv'
  <1>1. r.url = ServerList /\ r.method = "POST"
    BY RequestIs DEF HandleCreate, ServerList, Singles
  <1>2. Destination(r) = NewServer /\ r.url # Login
    BY <1>1 DEF Destination, FormAddress, ServerList, Login, Url
  <1>3. CASE Answer(r, ServerFormFragment, ServerFormPage)
    BY <1>2, <1>3, ServerFormIs, AnswerKeeps
  <1>4. ASSUME NEW ref \in References, Answer(r, ServerErrorFragment(ref), ServerErrorPage(ref))
        PROVE  IInv'
    BY <1>2, <1>4, ServerErrorIs, AnswerKeeps
  <1>5. ASSUME NEW server \in Servers \ registered, registered' = registered \union {server},
               Created(r, server)
        PROVE  IInv'
    <2> DEFINE a == Url("server", server)
    <2>1. registered' \subseteq Servers
      BY <1>5 DEF IInv
    <2>2. a \in Locations
      BY UrlsOf DEF Locations, Places, Routed, Url
    <2> HIDE DEF a
    <2>3. \/ r.at = 0 /\ Loaded(Blank, a)
          \/ r.at # 0 /\ AnswerAs(r, ServerDetailFragment(server, None), Blank, TRUE, a)
          \/ r.at # 0 /\ \E ref \in References :
                AnswerAs(r, ServerErrorFragment(ref), Blank, TRUE, a)
          \/ \E ref \in References :
                AnswerAs(r, ServerAuditIncompleteFragment(server, ref),
                         ServerAuditIncompletePage(server, ref), FALSE, a)
      BY <1>5 DEF Created, a
    <2>4. CASE r.at = 0 /\ Loaded(Blank, a)
      BY <2>1, <2>2, <2>4, Leaves
    <2>5. CASE r.at # 0 /\ AnswerAs(r, ServerDetailFragment(server, None), Blank, TRUE, a)
      <3>1. IsFragment(ServerDetailFragment(server, None), a)
        BY ServerDetailIs DEF a
      <3> QED
        BY <1>2, <2>1, <2>2, <2>5, <3>1, AnswerAsKeeps
    <2>6. ASSUME NEW ref \in References, r.at # 0,
                 AnswerAs(r, ServerErrorFragment(ref), Blank, TRUE, a)
          PROVE  IInv'
      BY <1>2, <2>1, <2>2, <2>6, ServerErrorIs, AnswerAsKeeps
    <2>7. ASSUME NEW ref \in References,
                 AnswerAs(r, ServerAuditIncompleteFragment(server, ref),
                          ServerAuditIncompletePage(server, ref), FALSE, a)
          PROVE  IInv'
      BY <1>2, <2>1, <2>2, <2>7, AuditIncompleteIs, AnswerAsKeeps
    <2> QED
      BY <2>3, <2>4, <2>5, <2>6, <2>7
  <1> QED
    BY <1>3, <1>4, <1>5 DEF HandleCreate

\* The handlers of container.
LEMMA ContainerKeeps ==
    ASSUME IInv, UNCHANGED scripted, NEW r \in Requests,
           HandleContainerList(r) \/ HandleLogs(r) \/ HandleTestConnection(r)
    PROVE  IInv'
  <1> DEFINE server == r.url.of
  <1>1. ASSUME NEW method, NEW page \in {"containers", "logs", "testDocker"}, Asks(r, method, page)
        PROVE  server \in Servers /\ r.url = Url(page, server) /\ r.url # Login /\ r.method = method
    <2>1. server \in Servers /\ r.url = Url(page, server) /\ r.method = method
      BY <1>1, RequestIs DEF OfServers
    <2> QED
      BY <2>1 DEF Login, Url
  <1>2. ASSUME NEW ref \in References \union {None}, server \in Servers, r.url # Login,
               Answer(r, DockerErrorFragment(server, ref), DockerErrorPage(server, ref))
        PROVE  IInv'
    BY <1>2, DockerErrorIs, AnswerKeeps
  <1>3. CASE HandleContainerList(r)
    <2>1. server \in Servers /\ r.url # Login /\ Destination(r) = Url("containers", server)
      BY <1>1, <1>3 DEF HandleContainerList, Destination
    <2>2. ASSUME NEW isEmpty \in BOOLEAN,
                 Answer(r, ContainerListMain(server, isEmpty, TRUE),
                           ContainerListPage(server, isEmpty, TRUE))
          PROVE  IInv'
      BY <2>1, <2>2, ContainerListIs, AnswerKeeps
    <2> QED
      BY <1>2, <1>3, <2>1, <2>2 DEF HandleContainerList, Fail
  <1>4. CASE HandleLogs(r)
    <2>1. server \in Servers /\ r.url # Login /\ Destination(r) = Url("logs", server)
      BY <1>1, <1>4 DEF HandleLogs, Destination
    <2>2. CASE Answer(r, LogsPage(server), LogsPage(server))
      BY <2>1, <2>2, LogsIs, AnswerKeeps
    <2> QED
      BY <1>2, <1>4, <2>1, <2>2 DEF HandleLogs, Fail
  <1>5. CASE HandleTestConnection(r)
    <2>1. server \in Servers /\ r.url # Login /\ r.url.page = "testDocker" /\ r.method = "POST"
      BY <1>1, <1>5 DEF HandleTestConnection, Asks
    <2>2. Destination(r) = Url("server", server)
      BY <2>1 DEF Destination, FormAddress
    <2>3. Url("server", server) \in Locations
      BY <2>1, UrlsOf DEF Locations, Places, Routed, Url
    <2>4. CASE Redirect(Url("server", server))
      BY <2>3, <2>4, Leaves DEF Redirect, IInv
    <2>5. ASSUME NEW ref \in References \union {None}, r.at # 0,
                 Answer(r, DockerSummary(server, ref), Blank)
          PROVE  IInv'
      <3>1. ~r.restore /\ IsSwap(r) /\ registered' \subseteq Servers
        BY <2>5, Sent DEF Answer, IInv
      <3>2. AnswerAs(r, DockerSummary(server, ref), Blank, r.push, r.url)
        BY <2>5, <3>1 DEF Answer
      <3>3. path = Url("server", server) /\ ~r.push
        BY <2>1, <2>2, <3>1, SwapIs DEF Destination
      <3>4. r.url \in Locations /\ IsFragment(DockerSummary(server, ref), path)
        BY <2>1, <3>3, Sent, DockerSummaryIs
      <3> HIDE DEF server
      <3> QED
        BY <2>1, <2>5, <3>1, <3>2, <3>3, <3>4, AnswerAsKeeps
    <2> QED
      BY <1>2, <1>5, <2>1, <2>4, <2>5 DEF HandleTestConnection
  <1> QED
    BY <1>3, <1>4, <1>5

\* The handlers of diagnostic, and a request that gets no answer.
LEMMA DiagnosticKeeps ==
    ASSUME IInv, UNCHANGED scripted, NEW r \in Requests,
           HandleErrorList(r) \/ HandleErrorDetail(r) \/ TransportFailure(r)
    PROVE  IInv'
  <1>1. CASE HandleErrorList(r)
    <2>1. PICK shown \in SUBSET References :
             Answer(r, ErrorListFragment(shown), ErrorListPage(shown))
      BY <1>1 DEF HandleErrorList
    <2>2. Destination(r) = ErrorList /\ r.method = "GET"
      BY <1>1, RequestIs DEF HandleErrorList, Destination, ErrorList, Singles
    <2> QED
      BY <2>1, <2>2, ErrorListIs, AnswerKeeps
  <1>2. CASE HandleErrorDetail(r)
    <2>1. \/ Answer(r, ErrorDetailFragment(r.url.of), ErrorDetailPage(r.url.of))
          \/ Answer(r, ErrorNotFoundFragment, ErrorNotFoundPage)
      BY <1>2 DEF HandleErrorDetail, Fail
    <2>2. Destination(r) = Url("error", r.url.of) /\ r.url.of \in References /\ r.method = "GET"
      BY <1>2, RequestIs DEF HandleErrorDetail, Destination
    <2> QED
      BY <2>1, <2>2, ErrorDetailIs, NoticesAre, AnswerKeeps
  <1>3. CASE TransportFailure(r)
    <2> DEFINE f == Region("div", Notice, {Link(Home)})
    <2>1. /\ r.at # 0
          /\ dom' = Swapped([r EXCEPT !.outer = FALSE], f)
          /\ UNCHANGED <<address, path, bare, entries, registered>>
      BY <1>3 DEF TransportFailure
    <2>2. IsSwap(r)
      BY <2>1, Sent
    <2>3. dom' = Left(r.at, FALSE) \o f
      <3> DEFINE q == [r EXCEPT !.outer = FALSE]
      <3>1. r \in Clicks
        <4>1. r \in Visits => r.at = 0
          BY DEF Visits, Visit, Load
        <4>2. ASSUME NEW e \in Elsewhere, r = [Visit(e.url) EXCEPT !.restore = TRUE] PROVE r.at = 0
          BY <4>2 DEF Visit, Load
        <4>3. r \in Restores => r.at = 0
          BY <4>2 DEF Restores
        <4> QED
          BY <2>1, <4>1, <4>3 DEF Requests
      <3>2. r = [method |-> r.method, url |-> r.url, at |-> r.at, outer |-> r.outer,
                 push |-> r.push, restore |-> r.restore]
        BY <3>1 DEF Clicks, Load
      <3>3. q.at = r.at /\ q.outer = FALSE
        BY <3>2
      <3>4. dom' = Swapped(q, f)
        BY <2>1
      <3> HIDE DEF q, f
      <3> QED
        BY <3>3, <3>4 DEF Swapped, Left
    <2>4. IsFragment(f, path')
      BY NoticesAre DEF NotFoundFragment
    <2>5. LoginOnly(f)
      BY DEF LoginOnly, Region, Link
    <2>6. address' \in Locations /\ path' \in Locations /\ registered' \subseteq Servers
      BY <2>1 DEF IInv
    <2> HIDE DEF f
    <2> QED
      BY <2>1, <2>2, <2>3, <2>4, <2>5, <2>6, Swap
  <1> QED
    BY <1>1, <1>2, <1>3

\* Back and forward, when htmx has the page and when it cannot get it.
LEMMA HistoryKeeps ==
    ASSUME IInv, UNCHANGED scripted, RestoreSnapshot \/ RestoreFails
    PROVE  IInv'
  <1>1. CASE RestoreSnapshot
    <2>1. PICK e \in Elsewhere : Restored(e.body, e.bare, e.url) /\ UNCHANGED registered
      BY <1>1 DEF RestoreSnapshot
    <2>2. e.url \in Locations /\ Sound(e.body, e.url, e.bare)
      BY SnapshotsAreSound DEF Elsewhere
    <2>3. registered' \subseteq Servers
      BY <2>1 DEF IInv
    <2> QED
      BY <2>1, <2>2, <2>3, RestoreKeeps
  <1>2. CASE RestoreFails
    <2>1. PICK e \in Elsewhere :
             address' = e.url /\ Saved /\ UNCHANGED <<path, dom, bare, registered>>
      BY <1>2 DEF RestoreFails
    <2>2. e.url \in Locations
      BY SnapshotsAreSound DEF Elsewhere
    <2>3. \A x \in entries' : x.url \in Locations /\ Sound(x.body, x.url, x.bare)
      BY <2>1, HistoryIs
    <2>4. Sound(dom, path, bare) /\ path' \in Locations /\ registered' \subseteq Servers
      BY <2>1 DEF IInv
    <2> QED
      BY <2>1, <2>2, <2>3, <2>4, Keeps DEF IInv
  <1> QED
    BY <1>1, <1>2

\* No step leaves the invariant.
LEMMA Inductive == IInv /\ [Next]_vars => IInv'
  <1> SUFFICES ASSUME IInv, [Next]_vars PROVE IInv'
    OBVIOUS
  <1>1. ASSUME NEW r \in Requests, UNCHANGED scripted, Handle(r) PROVE IInv'
    BY <1>1, AuthKeeps, ServerKeeps, CreateKeeps, ContainerKeeps, DiagnosticKeeps DEF Handle
  <1>2. CASE Next
    BY <1>1, <1>2, HistoryKeeps DEF Next
  <1>3. CASE UNCHANGED vars
    BY <1>3, Keeps, HistoryIs DEF vars, window, IInv
  <1> QED
    BY <1>2, <1>3

-----------------------------------------------------------------------------
(* What holds of every window *)

\* Whatever a user follows, sends, types, reloads or goes back to, every window
\* keeps IInv.
THEOREM InvariantHolds == Spec => []IInv
  BY Initially, Inductive, PTL DEF Spec

\* Whatever a user does and whatever is answered, the address bar and the history
\* hold addresses of a route, or of a page that does not exist.  (The controls of
\* all templates, HX-Push-Url and the redirects.)
THEOREM TypeCorrect == Spec => []TypeOK
  <1>1. IInv => TypeOK
    <2>1. \A u \in Locations : u \in [page : Routed.GET \union Routed.POST \union {"unknown"},
                                      of : Servers \union References \union {None}]
      BY DEF Locations, Urls, Places
    <2> QED
      BY <2>1 DEF IInv, Sound, TypeOK
  <1> QED
    BY <1>1, InvariantHolds, PTL

\* GP-023 for any servers, references, nesting of regions and history: with scripts,
\* what is shown innermost is at the address in the bar, or a notice, also after
\* Back and forward.  (The handlers' HX-Push-Url and the controls' hx-push-url.)
THEOREM AddressNamesTheViewHolds == Spec => []AddressNamesTheView
  <1>1. IInv => AddressNamesTheView
    <2> SUFFICES ASSUME IInv, scripted, address = path PROVE Shown \in {address, Notice, Nothing}
      BY DEF AddressNamesTheView
    <2>1. CASE ShownAt = {}
      BY <2>1 DEF Shown
    <2>2. CASE ShownAt # {}
      <3>1. Len(dom) \in Nat /\ ShownAt \subseteq 1..Len(dom)
        BY DEF IInv, Sound, WellFormed, ShownAt
      <3> DEFINE k == CHOOSE k \in ShownAt : \A j \in ShownAt : j <= k
      <3>2. \E m \in ShownAt : \A j \in ShownAt : m >= j
        BY <2>2, <3>1, Greatest
      <3>3. k \in ShownAt /\ \A j \in ShownAt : j <= k
        BY <3>1, <3>2
      <3>4. Shown = dom[k].shows
        BY <2>2 DEF Shown
      <3> HIDE DEF k
      <3>5. \A j \in 1..Len(dom) : j > k => dom[j].shows = Nothing
        BY <3>1, <3>3 DEF ShownAt
      <3>6. ShowsOnly(dom, address) /\ k \in 1..Len(dom)
        BY <3>1, <3>3 DEF IInv, Sound, Fits
      <3> QED
        BY <3>4, <3>5, <3>6 DEF ShowsOnly
    <2> QED
      BY <2>1, <2>2
  <1> QED
    BY <1>1, InvariantHolds, PTL

\* GP-026 for any servers, references, nesting of regions and history: every control
\* on the screen has a route, and the region its htmx request names is around it,
\* except for rows, and for the main element where Back made the page from a
\* fragment.  (The links and forms of all templates against the Routes functions.)
THEOREM EveryControlIsServedHolds == Spec => []EveryControlIsServed
  <1>1. IInv => EveryControlIsServed
    <2> DEFINE lost == IF bare THEN {"section", "main"} ELSE {"section"}
    <2> SUFFICES ASSUME IInv, NEW x \in Controls
                 PROVE  /\ x[2].url.page \in Routed[x[2].method]
                        /\ IsEnhanced(x[2]) /\ x[2].target \notin lost =>
                               Target(x[1], x[2].target) \in 1..x[1]
      BY DEF EveryControlIsServed
    <2> DEFINE i == x[1]
    <2> DEFINE c == x[2]
    <2>1. i \in 1..Len(dom) /\ c \in dom[i].controls
      BY DEF Controls
    <2> HIDE DEF i, c
    <2>2. /\ WellFormed(dom) /\ dom \in Seq(Element) /\ Len(dom) \in Nat /\ dom # Blank
          /\ dom[1] \in Element /\ dom[i] \in Element
      BY <2>1 DEF IInv, Sound, WellFormed, Blank
    <2>3. c \in Control
      BY <2>1, <2>2 DEF Element
    <2>4. c.url.page \in Routed[c.method]
      BY <2>3, ControlIsRouted
    <2>5. ASSUME IsEnhanced(c), c.target \notin lost PROVE Target(i, c.target) \in 1..i
      <3>1. c.target \in {"main", "div", "#docker-summary"}
        BY <2>3, <2>5 DEF Control, Selectors, IsEnhanced
      <3>2. \E k \in 1..i : c.target \in {dom[k].tag, dom[k].id}
        <4>1. CASE c.target = "main"
          <5>1. c.target # "page" /\ c # HxForm(Login, "div") /\ ~bare
            BY <2>5, <4>1 DEF HxForm, Form
          <5>2. MainFirst(dom)
            BY <2>1, <2>2, <5>1 DEF IInv, Sound, LoginOnly
          <5> QED
            BY <2>1, <2>2, <4>1, <5>2 DEF MainFirst
        <4>2. CASE c.target \in {"div", "#docker-summary"}
          BY <2>1, <2>2, <4>2 DEF WellFormed, Anchored
        <4> QED
          BY <3>1, <4>1, <4>2
      <3>3. PICK k \in 1..i : c.target \in {dom[k].tag, dom[k].id}
        BY <3>2
      <3>4. k \in Matching(i, c.target)
        BY <2>1, <2>2, <3>3 DEF Matching
      <3>5. Target(i, c.target) # 0
        BY <2>2, <3>4, TargetMatches DEF Matching
      <3> QED
        BY <2>1, <2>2, <3>1, <3>5, TargetIsAround
    <2> QED
      BY <2>4, <2>5 DEF i, c
  <1> QED
    BY <1>1, InvariantHolds, PTL

=============================================================================
