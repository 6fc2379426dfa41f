--------------------------- MODULE Bestellung_proofs ---------------------------
(***************************************************************************)
(* For every menu, all extras, and however long the guest goes on: the     *)
(* variables keep their types, the ten arrays of both view controllers     *)
(* stay aligned, and the overview's dictionary agrees with its arrays. No  *)
(* Kategorie or Unterkategorie occurs twice or without lines, and the      *)
(* names and prices of a line's extras stay in step, so that what is       *)
(* handed to handleBestellung can be sent.                                 *)
(*                                                                         *)
(* And composing an order implements Bestellliste: seen as one list of     *)
(* lines under each Kategorie and Unterkategorie, the arrays that two view *)
(* controllers hand back and forth change as that list may, by one line at *)
(* a time, and what is sent is the list as it stands.                      *)
(***************************************************************************)
EXTENDS Bestellung, Bestellfelder_proofs, FiniteSetTheorems

\* Werte, with quantities above zero.
IWerte ==
  [ItemsNamen     |-> {a.name : a \in Artikel},
   ItemsPreise    |-> {a.preis : a \in Artikel},
   ItemsLiter     |-> {a.liter : a \in Artikel},
   ItemsKommentar |-> Kommentare \cup {KeinKommentar},
   ItemsMengen    |-> Nat \ {0},
   ExtrasName     |-> Seq({x.name : x \in Extra} \cup {KeineExtras}),
   ExtrasPreise   |-> Seq({x.preis : x \in Extra} \cup {0})]

\* Arrays that the handlers can work on.
Gueltig(b) ==
  /\ Wohlgeformt(b, KategorieNamen, UnterkategorieNamen, IWerte)
  /\ Injektiv(b.Kategorien)

\* The popup: its label shows the counter or 1, names and prices of the chosen
\* extras are equally long, and an open popup shows an item of the menu.
EntwurfInv ==
  /\ ansicht \in Ansichten
  /\ entwurf \in EntwurfTyp
  /\ entwurf.itemCountLbl \in {1, entwurf.i}
  /\ Len(entwurf.extrasNamen) = Len(entwurf.extrasPreise)
  /\ ansicht \in {"popup", "extras"} =>
       /\ entwurf.artikel \in Artikel
       /\ entwurf.Kategorie \in KategorieNamen
       /\ entwurf.Unterkategorie \in UnterkategorieNamen

MenueInv == Gueltig(bestellung) /\ dictionaryVC2 = <<>>

\* The dictionary mirrors the arrays, whether the overview is open or not.
UebersichtInv ==
  /\ Gueltig(uebersicht)
  /\ Spiegel(dictionary, uebersicht, KategorieNamen, UnterkategorieNamen, IWerte)
  /\ uebersichtOffen \in BOOLEAN
  /\ bearbeitet \in BearbeitetTyp
  /\ popGeplant \in BOOLEAN

GesendetInv ==
  /\ gesendet \in Seq(ToSet(gesendet))
  /\ \A n \in 1..Len(gesendet) :
       IstDictionary(gesendet[n], KategorieNamen, UnterkategorieNamen, IWerte)

IInv == EntwurfInv /\ MenueInv /\ UebersichtInv /\ GesendetInv

-----------------------------------------------------------------------------
(* The initial state, and the state after a restart.                       *)

LEMMA LeereBestellungGueltig == Gueltig(LeereBestellung)
  BY LeereBestellungWohlgeformt DEF Gueltig, Injektiv, LeereBestellung

LEMMA LeererSpiegel ==
  Spiegel(<<>>, LeereBestellung, KategorieNamen, UnterkategorieNamen, IWerte)
  BY DEF Spiegel, IstDictionary, LeereBestellung, ToSet

LEMMA LeererEntwurfTyp ==
  /\ LeererEntwurf \in EntwurfTyp
  /\ LeererEntwurf.itemCountLbl \in {1, LeererEntwurf.i}
  /\ Len(LeererEntwurf.extrasNamen) = Len(LeererEntwurf.extrasPreise)
  BY SchrankenAssumption DEF SchrankenAssumption, LeererEntwurf, EntwurfTyp

LEMMA EntwurfOhneExtras ==
  ASSUME NEW e \in EntwurfTyp
  PROVE  [e EXCEPT !.extrasNamen = <<>>, !.extrasPreise = <<>>] \in EntwurfTyp
<1> DEFINE N == Seq({x.name : x \in Extra})
           P == Seq({x.preis : x \in Extra})
           T == [i : 0..MaxMenge, itemCountLbl : 0..MaxMenge,
                 artikel : Artikel \cup {Niemand}, getippt : Artikel \cup {Niemand},
                 Kategorie : KategorieNamen \cup {Niemand},
                 Unterkategorie : UnterkategorieNamen \cup {Niemand},
                 kommentar : Kommentare \cup {KeinKommentar},
                 extrasNamen : N, extrasPreise : P, hinzufuegenVersteckt : BOOLEAN]
<1>1. EntwurfTyp = T
  BY DEF EntwurfTyp
<1>2. <<>> \in N /\ <<>> \in P
  OBVIOUS
<1> HIDE DEF N, P
<1>3. [e EXCEPT !.extrasNamen = <<>>, !.extrasPreise = <<>>] \in T
  BY <1>1, <1>2
<1> QED BY <1>1, <1>3

LEMMA InitInv == Init => IInv
<1> SUFFICES ASSUME Init PROVE IInv
  OBVIOUS
<1>1. EntwurfInv
  BY LeererEntwurfTyp DEF Init, EntwurfInv, Ansichten
<1>2. MenueInv
  BY LeereBestellungGueltig DEF Init, MenueInv
<1>3. UebersichtInv
  BY LeereBestellungGueltig, LeererSpiegel DEF Init, UebersichtInv, BearbeitetTyp
<1>4. GesendetInv
  BY DEF Init, GesendetInv, ToSet
<1> QED BY <1>1, <1>2, <1>3, <1>4 DEF IInv

LEMMA NeueSitzungInv ==
  ASSUME NeueSitzung, ansicht' \in {"menue", "abgestuerzt"}
  PROVE  IInv'
<1>1. EntwurfInv'
  BY LeererEntwurfTyp DEF NeueSitzung, EntwurfInv, Ansichten
<1>2. MenueInv'
  BY LeereBestellungGueltig DEF NeueSitzung, MenueInv
<1>3. UebersichtInv'
  BY LeereBestellungGueltig, LeererSpiegel DEF NeueSitzung, UebersichtInv, BearbeitetTyp
<1>4. GesendetInv'
  BY DEF NeueSitzung, GesendetInv, ToSet
<1> QED BY <1>1, <1>2, <1>3, <1>4 DEF IInv

LEMMA UnveraendertInv ==
  /\ EntwurfInv /\ UNCHANGED <<ansicht, entwurf>> => EntwurfInv'
  /\ MenueInv /\ UNCHANGED <<bestellung, dictionaryVC2>> => MenueInv'
  /\ UebersichtInv /\ UNCHANGED uebersichtVars => UebersichtInv'
  /\ GesendetInv /\ UNCHANGED gesendet => GesendetInv'
  BY DEF EntwurfInv, MenueInv, UebersichtInv, uebersichtVars, GesendetInv, Gueltig

-----------------------------------------------------------------------------
(* The popup: only its own state and the screen change, until the item is  *)
(* added.                                                                  *)

LEMMA PopupInv ==
  ASSUME IInv, EntwurfInv', UNCHANGED <<bestellung, dictionaryVC2, uebersichtVars, gesendet>>
  PROVE  IInv'
  BY UnveraendertInv DEF IInv

LEMMA PassInv ==
  ASSUME IInv, NEW t \in DOMAIN Speisekarte, NEW s \in DOMAIN Speisekarte, NEW s2, NEW r2,
         pass(t, s, s2, r2)
  PROVE  IInv'
<1>1. CASE Absturz
  BY <1>1, NeueSitzungInv DEF Absturz
<1>2. CASE ~Absturz
  <2> DEFINE a == Speisekarte[s].items[s2][r2]
  <2>1. /\ ImMenue(s, s2, r2)
        /\ entwurf' = [entwurf EXCEPT
             !.itemCountLbl = 1, !.artikel = a, !.getippt = Speisekarte[t].items[s2][r2],
             !.Kategorie = Speisekarte[s].Kategorie,
             !.Unterkategorie = Speisekarte[s].Unterkategorie[s2]]
        /\ ansicht' = "popup"
        /\ UNCHANGED <<bestellung, dictionaryVC2, uebersichtVars, gesendet>>
    BY <1>2 DEF pass
  <2>2. \A x \in DOMAIN Speisekarte : ImMenue(x, s2, r2) =>
          /\ Speisekarte[x].items[s2][r2] \in Artikel
          /\ Speisekarte[x].Kategorie \in KategorieNamen
          /\ Speisekarte[x].Unterkategorie[s2] \in UnterkategorieNamen
    <3> SUFFICES ASSUME NEW x \in DOMAIN Speisekarte, ImMenue(x, s2, r2)
                 PROVE  /\ Speisekarte[x].items[s2][r2] \in Artikel
                        /\ Speisekarte[x].Kategorie \in KategorieNamen
                        /\ Speisekarte[x].Unterkategorie[s2] \in UnterkategorieNamen
      OBVIOUS
    <3>1. /\ Speisekarte[x].items \in Seq(Seq(Artikel))
          /\ Speisekarte[x].Kategorie \in KategorieNamen
          /\ Speisekarte[x].Unterkategorie \in Seq(UnterkategorieNamen)
          /\ Len(Speisekarte[x].items) = Len(Speisekarte[x].Unterkategorie)
      <4>1. Speisekarte[x] \in [Kategorie : KategorieNamen,
                                Unterkategorie : Seq(UnterkategorieNamen),
                                items : Seq(Seq(Artikel))]
        <5> DEFINE R == [Kategorie : KategorieNamen,
                         Unterkategorie : Seq(UnterkategorieNamen),
                         items : Seq(Seq(Artikel))]
        <5>1. Speisekarte \in Seq(R)
          BY SpeisekarteAssumption DEF SpeisekarteAssumption
        <5> HIDE DEF R
        <5>2. Speisekarte[x] \in R
          BY <5>1
        <5> QED BY <5>2 DEF R
      <4>2. Len(Speisekarte[x].items) = Len(Speisekarte[x].Unterkategorie)
        BY SpeisekarteAssumption DEF SpeisekarteAssumption
      <4> QED BY <4>1, <4>2
    <3>2. s2 \in DOMAIN Speisekarte[x].items /\ r2 \in DOMAIN Speisekarte[x].items[s2]
      BY DEF ImMenue
    <3>3. Speisekarte[x].items[s2] \in Seq(Artikel)
      BY <3>1, <3>2
    <3>4. Speisekarte[x].items[s2][r2] \in Artikel
      BY <3>2, <3>3
    <3>5. Speisekarte[x].Unterkategorie[s2] \in UnterkategorieNamen
      BY <3>1, <3>2
    <3> QED BY <3>1, <3>4, <3>5
  <2>3. ImMenue(t, s2, r2)
    BY DEF pass
  <2>4. /\ a \in Artikel /\ Speisekarte[t].items[s2][r2] \in Artikel
        /\ Speisekarte[s].Kategorie \in KategorieNamen
        /\ Speisekarte[s].Unterkategorie[s2] \in UnterkategorieNamen
    BY <2>1, <2>2, <2>3
  <2>5. 1 \in 0..MaxMenge
    BY SchrankenAssumption DEF SchrankenAssumption
  <2> HIDE DEF a
  <2>6. EntwurfInv'
    BY <2>1, <2>4, <2>5 DEF IInv, EntwurfInv, EntwurfTyp, Ansichten
  <2> QED BY <2>1, <2>6, PopupInv
<1> QED BY <1>1, <1>2

\* The handlers of the popup that change neither item nor screen, and those
\* that close it without adding anything.
LEMMA EntwurfBleibtInv ==
  ASSUME IInv,
         \/ funcItemPlusTapped \/ funcItemMinusTapped
         \/ \E text \in Kommentare \cup {KeinKommentar} : kommentarTippen(text)
         \/ openExtras \/ closeExtras \/ extrasHinzufuegen
         \/ aktualisierungAbbrechen
  PROVE  IInv'
<1>1. /\ ansicht \in Ansichten /\ entwurf \in EntwurfTyp
      /\ entwurf.itemCountLbl \in {1, entwurf.i}
      /\ Len(entwurf.extrasNamen) = Len(entwurf.extrasPreise)
      /\ ansicht \in {"popup", "extras"} =>
           /\ entwurf.artikel \in Artikel
           /\ entwurf.Kategorie \in KategorieNamen
           /\ entwurf.Unterkategorie \in UnterkategorieNamen
  BY DEF IInv, EntwurfInv
<1>2. MaxMenge \in Nat /\ 1 \in 0..MaxMenge
  BY SchrankenAssumption DEF SchrankenAssumption
<1>3. CASE funcItemPlusTapped
  <2>1. entwurf.i + 1 \in 0..MaxMenge
    BY <1>1, <1>2, <1>3 DEF funcItemPlusTapped, EntwurfTyp
  <2>2. EntwurfInv'
    BY <1>1, <1>3, <2>1 DEF funcItemPlusTapped, EntwurfInv, EntwurfTyp
  <2> QED BY <1>3, <2>2, PopupInv DEF funcItemPlusTapped
<1>4. CASE funcItemMinusTapped
  <2>1. entwurf.i - 1 \in 0..MaxMenge
    BY <1>1, <1>2, <1>4 DEF funcItemMinusTapped, EntwurfTyp
  <2>2. EntwurfInv'
    BY <1>1, <1>4, <2>1 DEF funcItemMinusTapped, EntwurfInv, EntwurfTyp
  <2> QED BY <1>4, <2>2, PopupInv DEF funcItemMinusTapped
<1>5. ASSUME NEW text \in Kommentare \cup {KeinKommentar}, kommentarTippen(text)
      PROVE  IInv'
  <2>1. EntwurfInv'
    BY <1>1, <1>5 DEF kommentarTippen, EntwurfInv, EntwurfTyp
  <2> QED BY <1>5, <2>1, PopupInv DEF kommentarTippen
<1>6. CASE openExtras
  <2>1. EntwurfInv'
    BY <1>1, <1>6 DEF openExtras, EntwurfInv, EntwurfTyp, Ansichten
  <2> QED BY <1>6, <2>1, PopupInv DEF openExtras
<1>7. CASE closeExtras
  <2>1. entwurf' \in EntwurfTyp
    BY <1>1, <1>7, EntwurfOhneExtras DEF closeExtras
  <2>2. /\ entwurf'.extrasNamen = <<>> /\ entwurf'.extrasPreise = <<>>
        /\ entwurf'.itemCountLbl = entwurf.itemCountLbl /\ entwurf'.i = entwurf.i
        /\ entwurf'.artikel = entwurf.artikel /\ entwurf'.Kategorie = entwurf.Kategorie
        /\ entwurf'.Unterkategorie = entwurf.Unterkategorie
    BY <1>1, <1>7 DEF closeExtras, EntwurfTyp
  <2>3. EntwurfInv'
    BY <1>1, <1>7, <2>1, <2>2 DEF closeExtras, EntwurfInv, Ansichten
  <2> QED BY <1>7, <2>3, PopupInv DEF closeExtras
<1>8. CASE extrasHinzufuegen
  <2>1. EntwurfInv'
    BY <1>1, <1>8 DEF extrasHinzufuegen, menueVars, EntwurfInv, Ansichten
  <2> QED BY <1>8, <2>1, PopupInv DEF extrasHinzufuegen, menueVars
<1>9. CASE aktualisierungAbbrechen
  <2>1. EntwurfInv'
    BY <1>1, <1>2, <1>9
       DEF aktualisierungAbbrechen, Geschlossen, EntwurfInv, EntwurfTyp, Ansichten
  <2> QED BY <1>9, <2>1, PopupInv DEF aktualisierungAbbrechen
<1> QED BY <1>3, <1>4, <1>5, <1>6, <1>7, <1>8, <1>9

LEMMA SelectExtraInv ==
  ASSUME IInv, selectExtra
  PROVE  IInv'
<1> DEFINE x == ExtrasVon[entwurf.Kategorie][1]
           N == {e.name : e \in Extra}
           P == {e.preis : e \in Extra}
           namen == entwurf.extrasNamen
           preise == entwurf.extrasPreise
           n == firstIndex(namen, x.name)
<1>1. /\ ansicht = "extras" /\ ansicht' = ansicht /\ entwurf.itemCountLbl \in {1, entwurf.i}
      /\ entwurf \in EntwurfTyp /\ Len(namen) = Len(preise)
      /\ entwurf.artikel \in Artikel /\ entwurf.Kategorie \in KategorieNamen
      /\ entwurf.Unterkategorie \in UnterkategorieNamen
  BY DEF IInv, EntwurfInv, selectExtra
<1>2. namen \in Seq(N) /\ preise \in Seq(P)
  BY <1>1 DEF EntwurfTyp
<1>3. x.name \in N /\ x.preis \in P
  <2>1. entwurf.Kategorie \in DOMAIN ExtrasVon
    BY DEF selectExtra
  <2>2. /\ ExtrasVon[entwurf.Kategorie] \in Seq(Extra)
        /\ ExtrasVon[entwurf.Kategorie] # <<>>
    BY <2>1, ExtrasAssumption DEF ExtrasAssumption
  <2>3. x \in Extra
    BY <2>2
  <2> QED BY <2>3
<1>4. /\ entwurf' = IF Contains(namen, x.name) THEN OhneExtra(entwurf, x.name)
                    ELSE MitExtra(entwurf, x)
      /\ UNCHANGED <<bestellung, dictionaryVC2, uebersichtVars, gesendet>>
  BY DEF selectExtra
<1> HIDE DEF x
<1>5. CASE Contains(namen, x.name)
  <2>1. n \in 1..Len(namen)
    BY <1>2, <1>5, FirstIndex
  <2>2. /\ RemoveAt(namen, n) \in Seq(N) /\ RemoveAt(preise, n) \in Seq(P)
        /\ Len(RemoveAt(namen, n)) = Len(RemoveAt(preise, n))
    <3> HIDE DEF n, namen, preise, N, P
    <3> QED BY <1>1, <1>2, <2>1, FolgeRemoveAtGleich
  <2>3. entwurf' = [entwurf EXCEPT !.extrasPreise = RemoveAt(preise, n),
                                   !.extrasNamen = RemoveAt(namen, n)]
    BY <1>4, <1>5 DEF OhneExtra
  <2> HIDE DEF n
  <2>4. EntwurfInv'
    BY <1>1, <2>2, <2>3 DEF EntwurfInv, EntwurfTyp, Ansichten
  <2> QED BY <1>4, <2>4, PopupInv
<1>6. CASE ~Contains(namen, x.name)
  <2>1. /\ Append(namen, x.name) \in Seq(N) /\ Append(preise, x.preis) \in Seq(P)
        /\ Len(Append(namen, x.name)) = Len(Append(preise, x.preis))
    <3> HIDE DEF namen, preise, N, P
    <3> QED BY <1>1, <1>2, <1>3, FolgeAppendGleich
  <2>2. entwurf' = [entwurf EXCEPT !.extrasNamen = Append(namen, x.name),
                                   !.extrasPreise = Append(preise, x.preis)]
    BY <1>4, <1>6 DEF MitExtra
  <2>3. EntwurfInv'
    BY <1>1, <2>1, <2>2 DEF EntwurfInv, EntwurfTyp, Ansichten
  <2> QED BY <1>4, <2>3, PopupInv
<1> QED BY <1>5, <1>6

\* Adding the item: the line that is read off the labels fits the arrays.
LEMMA ZeileTyp ==
  ASSUME entwurf \in EntwurfTyp, entwurf.artikel \in Artikel, entwurf.itemCountLbl # 0,
         NEW f \in Felder
  PROVE  Zeile(entwurf)[f] \in IWerte[f]
<1> DEFINE N == {e.name : e \in Extra}
           P == {e.preis : e \in Extra}
           NN == Seq(N \cup {KeineExtras})
           PP == Seq(P \cup {0})
<1>1. entwurf.kommentar \in Kommentare \cup {KeinKommentar} /\ entwurf.itemCountLbl \in Nat \ {0}
  BY SchrankenAssumption DEF SchrankenAssumption, EntwurfTyp
<1>2. entwurf.extrasNamen \in Seq(N) /\ entwurf.extrasPreise \in Seq(P)
  BY DEF EntwurfTyp
<1>3. /\ IWerte["ItemsKommentar"] = Kommentare \cup {KeinKommentar}
      /\ IWerte["ItemsMengen"] = Nat \ {0}
      /\ IWerte["ExtrasName"] = NN /\ IWerte["ExtrasPreise"] = PP
  BY DEF IWerte
<1> HIDE DEF N, P
<1>4. /\ entwurf.extrasNamen \in NN /\ <<KeineExtras>> \in NN
      /\ entwurf.extrasPreise \in PP /\ <<0>> \in PP
  BY <1>2
<1> HIDE DEF NN, PP
<1>5. CASE f \in {"ItemsNamen", "ItemsPreise", "ItemsLiter"}
  BY <1>5 DEF Zeile, IWerte
<1>6. CASE f = "ItemsKommentar"
  BY <1>1, <1>3, <1>6 DEF Zeile
<1>7. CASE f = "ItemsMengen"
  BY <1>1, <1>3, <1>7 DEF Zeile
<1>8. CASE f = "ExtrasName"
  BY <1>3, <1>4, <1>8 DEF Zeile
<1>9. CASE f = "ExtrasPreise"
  BY <1>3, <1>4, <1>9 DEF Zeile
<1> QED BY <1>5, <1>6, <1>7, <1>8, <1>9 DEF Felder

LEMMA MitZeileGueltig ==
  ASSUME NEW b, Gueltig(b), NEW kat \in KategorieNamen, NEW ukat \in UnterkategorieNamen,
         NEW w, \A f \in Felder : w[f] \in IWerte[f]
  PROVE  Gueltig(MitZeile(b, kat, ukat, w))
<1>1. b.Kategorien \in Seq(KategorieNamen)
  BY WohlgeformtFelder DEF Gueltig
<1>2. Injektiv(b.Kategorien)
  BY DEF Gueltig
<1>3. CASE Contains(b.Kategorien, kat)
  <2>1. MitZeile(b, kat, ukat, w).Kategorien = b.Kategorien
    BY <1>3 DEF MitZeile, NeueUnterkategorie, NeueZeile
  <2> QED BY <1>2, <2>1, MitZeileWohlgeformt DEF Gueltig
<1>4. CASE ~Contains(b.Kategorien, kat)
  <2>1. MitZeile(b, kat, ukat, w).Kategorien = Append(b.Kategorien, kat)
    BY <1>4 DEF MitZeile, NeueKategorie
  <2>2. Injektiv(Append(b.Kategorien, kat))
    BY <1>1, <1>2, <1>4, InjektivAppend
  <2> QED BY <2>1, <2>2, MitZeileWohlgeformt DEF Gueltig
<1> QED BY <1>3, <1>4

LEMMA DismissPopUpInv ==
  ASSUME IInv, dismissPopUp
  PROVE  IInv'
<1>1. /\ ansicht = "popup" /\ entwurf \in EntwurfTyp
      /\ entwurf.artikel \in Artikel /\ entwurf.Kategorie \in KategorieNamen
      /\ entwurf.Unterkategorie \in UnterkategorieNamen
      /\ Len(entwurf.extrasNamen) = Len(entwurf.extrasPreise)
      /\ entwurf.itemCountLbl \in {1, entwurf.i}
  BY DEF dismissPopUp, IInv, EntwurfInv
<1>2. /\ ansicht' = "menue"
      /\ UNCHANGED <<dictionaryVC2, uebersichtVars, gesendet>>
  BY DEF dismissPopUp
<1>3. 1 \in 0..MaxMenge
  BY SchrankenAssumption DEF SchrankenAssumption
<1>4. CASE entwurf.i = 0
  <2>1. entwurf' = [Geschlossen(entwurf) EXCEPT !.i = 1] /\ UNCHANGED bestellung
    BY <1>4 DEF dismissPopUp
  <2>2. EntwurfInv'
    BY <1>1, <1>2, <1>3, <2>1 DEF Geschlossen, EntwurfInv, EntwurfTyp, Ansichten
  <2> QED BY <1>2, <2>1, <2>2, PopupInv
<1>5. CASE entwurf.i # 0
  <2>1. /\ bestellung' = MitZeile(bestellung, entwurf.Kategorie,
                                  entwurf.Unterkategorie, Zeile(entwurf))
        /\ entwurf' = [Geschlossen(entwurf) EXCEPT
             !.i = 1, !.extrasNamen = <<>>, !.extrasPreise = <<>>]
    BY <1>5 DEF dismissPopUp
  <2>2. entwurf' \in EntwurfTyp
    <3> DEFINE e == [Geschlossen(entwurf) EXCEPT !.i = 1]
    <3>1. e \in EntwurfTyp
      BY <1>1, <1>3 DEF Geschlossen, EntwurfTyp
    <3>2. entwurf' = [e EXCEPT !.extrasNamen = <<>>, !.extrasPreise = <<>>]
      BY <2>1
    <3> HIDE DEF e
    <3> QED BY <3>1, <3>2, EntwurfOhneExtras
  <2>3. /\ entwurf'.extrasNamen = <<>> /\ entwurf'.extrasPreise = <<>>
        /\ entwurf'.itemCountLbl = 1
    BY <1>1, <2>1 DEF Geschlossen, EntwurfTyp
  <2>4. EntwurfInv'
    BY <1>2, <2>2, <2>3 DEF EntwurfInv, Ansichten
  <2>5. \A f \in Felder : Zeile(entwurf)[f] \in IWerte[f]
    BY <1>1, <1>5, ZeileTyp
  <2>6. Gueltig(bestellung')
    BY <1>1, <2>1, <2>5, MitZeileGueltig DEF IInv, MenueInv
  <2>7. MenueInv'
    BY <1>2, <2>6 DEF MenueInv, IInv, Gueltig
  <2> QED BY <1>2, <2>4, <2>7, UnveraendertInv DEF IInv
<1> QED BY <1>4, <1>5

-----------------------------------------------------------------------------
(* The overview's cells: every handler changes the dictionary and the      *)
(* arrays alike.                                                           *)

\* What the invariant gives for a line that the guest can tap.
LEMMA TippbarLesen ==
  ASSUME IInv, NEW k, NEW u, NEW r, Tippbar(k, u, r)
  PROVE  /\ Wohlgeformt(uebersicht, KategorieNamen, UnterkategorieNamen, IWerte)
         /\ Spiegel(dictionary, uebersicht, KategorieNamen, UnterkategorieNamen, IWerte)
         /\ k \in 1..Len(dictionary) /\ k \in 1..Len(uebersicht.Kategorien)
         /\ IstSection(dictionary[k], KategorieNamen, UnterkategorieNamen, IWerte)
         /\ Eintrag(dictionary[k], uebersicht, k, IWerte)
         /\ u \in 1..Len(uebersicht.Unterkategorien[k])
         /\ r \in 1..Len(dictionary[k].felder["ItemsNamen"][u])
<1>1. /\ Wohlgeformt(uebersicht, KategorieNamen, UnterkategorieNamen, IWerte)
      /\ Spiegel(dictionary, uebersicht, KategorieNamen, UnterkategorieNamen, IWerte)
  BY DEF IInv, UebersichtInv, Gueltig
<1>2. /\ dictionary \in Seq(ToSet(dictionary)) /\ Len(dictionary) = Len(uebersicht.Kategorien)
      /\ \A n \in 1..Len(dictionary) :
           /\ IstSection(dictionary[n], KategorieNamen, UnterkategorieNamen, IWerte)
           /\ Eintrag(dictionary[n], uebersicht, n, IWerte)
  BY <1>1, DictionaryLesen
<1>3. k \in 1..Len(dictionary) /\ k \in 1..Len(uebersicht.Kategorien)
  BY <1>2 DEF Tippbar
<1> DEFINE s == dictionary[k]
<1>4. /\ IstSection(s, KategorieNamen, UnterkategorieNamen, IWerte)
      /\ Eintrag(s, uebersicht, k, IWerte)
  BY <1>2, <1>3
<1>5. s.Unterkategorie \in Seq(UnterkategorieNamen)
  BY <1>4 DEF IstSection
<1>6. s.Unterkategorie = uebersicht.Unterkategorien[k]
  BY <1>4 DEF Eintrag
<1>7. u \in DOMAIN s.Unterkategorie /\ r \in DOMAIN s.felder["ItemsNamen"][u]
  BY DEF Tippbar
<1>8. s.felder["ItemsNamen"] \in Seq(Seq(IWerte["ItemsNamen"]))
  BY <1>4, ItemsNamenFelder DEF IstSection
<1>9. Len(s.felder["ItemsNamen"]) = Len(s.Unterkategorie)
  BY <1>4, <1>6, ItemsNamenFelder DEF Eintrag, Listen
<1> HIDE DEF s
<1>10. u \in 1..Len(s.Unterkategorie)
  BY <1>5, <1>7
<1>11. s.felder["ItemsNamen"][u] \in Seq(IWerte["ItemsNamen"])
  BY <1>8, <1>9, <1>10
<1>12. r \in 1..Len(s.felder["ItemsNamen"][u])
  BY <1>7, <1>11
<1> QED BY <1>1, <1>3, <1>4, <1>6, <1>10, <1>12 DEF s

\* The k-th section gets new headings z, flags e and lists h.
SectionMit(d, k, z, e, h) ==
  [d EXCEPT ![k] = [Kategorie |-> d[k].Kategorie, Unterkategorie |-> z,
                    expanded2 |-> e, felder |-> h]]

\* Only its lists change.
SectionListenMit(d, k, h) == [d EXCEPT ![k] = [d[k] EXCEPT !.felder = h]]

\* Replacing the k-th Kategorie in both keeps what the overview relies on.
LEMMA KategorieErsetzenInv ==
  ASSUME IInv, NEW k \in 1..Len(dictionary),
         NEW z \in Seq(UnterkategorieNamen), NEW e \in Seq(BOOLEAN), Len(e) = Len(z),
         NEW g, Listen(g, z, IWerte),
         NEW h, IstFeld(h), Listen(h, z, IWerte), GleichBisKommentar(h, g),
         dictionary' = SectionMit(dictionary, k, z, e, h),
         uebersicht' = KategorieMit(uebersicht, k, z, e, g),
         UNCHANGED <<uebersichtOffen, bearbeitet, popGeplant>>
  PROVE  UebersichtInv'
<1>1. /\ Wohlgeformt(uebersicht, KategorieNamen, UnterkategorieNamen, IWerte)
      /\ Injektiv(uebersicht.Kategorien)
      /\ Spiegel(dictionary, uebersicht, KategorieNamen, UnterkategorieNamen, IWerte)
      /\ uebersichtOffen \in BOOLEAN /\ bearbeitet \in BearbeitetTyp
      /\ popGeplant \in BOOLEAN
  BY DEF IInv, UebersichtInv, Gueltig
<1>2. k \in 1..Len(uebersicht.Kategorien)
  BY <1>1, DictionaryLesen
<1>3. Wohlgeformt(uebersicht', KategorieNamen, UnterkategorieNamen, IWerte)
  BY <1>1, <1>2, KategorieErsetzen
<1>4. Spiegel(dictionary', uebersicht', KategorieNamen, UnterkategorieNamen, IWerte)
  <2> DEFINE s == [Kategorie |-> dictionary[k].Kategorie, Unterkategorie |-> z,
                   expanded2 |-> e, felder |-> h]
  <2>1. dictionary' = [dictionary EXCEPT ![k] = s]
    BY DEF SectionMit
  <2>2. s = [Kategorie |-> dictionary[k].Kategorie, Unterkategorie |-> z,
             expanded2 |-> e, felder |-> h]
    OBVIOUS
  <2> HIDE DEF s
  <2>3. Spiegel([dictionary EXCEPT ![k] = s], KategorieMit(uebersicht, k, z, e, g),
                KategorieNamen, UnterkategorieNamen, IWerte)
    BY <1>1, <2>2, SpiegelKategorieMit
  <2> QED BY <2>1, <2>3
<1>5. uebersicht'.Kategorien = uebersicht.Kategorien
  BY DEF KategorieMit
<1> QED BY <1>1, <1>3, <1>4, <1>5 DEF UebersichtInv, Gueltig

\* The headings and flags of the k-th Kategorie of the overview.
LEMMA RubrikenLesen ==
  ASSUME IInv, NEW k \in 1..Len(dictionary)
  PROVE  /\ uebersicht.Unterkategorien[k] \in Seq(UnterkategorieNamen)
         /\ uebersicht.Expanded2[k] \in Seq(BOOLEAN)
         /\ Len(uebersicht.Expanded2[k]) = Len(uebersicht.Unterkategorien[k])
<1>1. /\ Wohlgeformt(uebersicht, KategorieNamen, UnterkategorieNamen, IWerte)
      /\ Spiegel(dictionary, uebersicht, KategorieNamen, UnterkategorieNamen, IWerte)
  BY DEF IInv, UebersichtInv, Gueltig
<1>2. k \in 1..Len(uebersicht.Kategorien)
  BY <1>1, DictionaryLesen
<1> QED BY <1>1, <1>2, KategorieLesen

\* The same when only lists change: g in the arrays, h in the dictionary.
LEMMA ListenErsetzenInv ==
  ASSUME IInv, NEW k \in 1..Len(dictionary),
         NEW g, Listen(g, uebersicht.Unterkategorien[k], IWerte),
         NEW h, IstFeld(h), Listen(h, uebersicht.Unterkategorien[k], IWerte),
         GleichBisKommentar(h, g),
         dictionary' = SectionListenMit(dictionary, k, h),
         uebersicht' = ListenMit(uebersicht, k, g),
         uebersichtOffen' \in BOOLEAN, bearbeitet' \in BearbeitetTyp, popGeplant' \in BOOLEAN
  PROVE  UebersichtInv'
<1> DEFINE z == uebersicht.Unterkategorien[k]
           e == uebersicht.Expanded2[k]
           s == [dictionary[k] EXCEPT !.felder = h]
<1>1. /\ Wohlgeformt(uebersicht, KategorieNamen, UnterkategorieNamen, IWerte)
      /\ Spiegel(dictionary, uebersicht, KategorieNamen, UnterkategorieNamen, IWerte)
  BY DEF IInv, UebersichtInv, Gueltig
<1>2. /\ k \in 1..Len(uebersicht.Kategorien)
      /\ IstSection(dictionary[k], KategorieNamen, UnterkategorieNamen, IWerte)
      /\ Eintrag(dictionary[k], uebersicht, k, IWerte)
  BY <1>1, DictionaryLesen
<1>3. z \in Seq(UnterkategorieNamen) /\ e \in Seq(BOOLEAN) /\ Len(e) = Len(z)
  BY RubrikenLesen
<1>4. uebersicht' = KategorieMit(uebersicht, k, z, e, g)
  BY <1>1, <1>2, ListenMitIstKategorieMit
<1>5. s = [Kategorie |-> dictionary[k].Kategorie, Unterkategorie |-> z,
           expanded2 |-> e, felder |-> h]
  <2> DEFINE q == dictionary[k]
  <2>1. /\ q = [Kategorie |-> q.Kategorie, Unterkategorie |-> q.Unterkategorie,
                expanded2 |-> q.expanded2, felder |-> q.felder]
        /\ q.Unterkategorie = z /\ q.expanded2 = e
    BY <1>2 DEF IstSection, Eintrag
  <2> HIDE DEF q, z, e
  <2>2. [q EXCEPT !.felder = h] = [Kategorie |-> q.Kategorie, Unterkategorie |-> z,
                                   expanded2 |-> e, felder |-> h]
    BY <2>1
  <2> QED BY <2>2 DEF q
<1>6. dictionary' = [dictionary EXCEPT ![k] = s]
  BY DEF SectionListenMit
<1>7. Listen(g, z, IWerte) /\ Listen(h, z, IWerte)
  OBVIOUS
<1> HIDE DEF z, e, s
<1>8. Wohlgeformt(KategorieMit(uebersicht, k, z, e, g),
                  KategorieNamen, UnterkategorieNamen, IWerte)
  BY <1>1, <1>2, <1>3, <1>7, KategorieErsetzen
<1>9. Spiegel([dictionary EXCEPT ![k] = s], KategorieMit(uebersicht, k, z, e, g),
              KategorieNamen, UnterkategorieNamen, IWerte)
  BY <1>1, <1>2, <1>3, <1>5, <1>7, SpiegelKategorieMit
<1>10. KategorieMit(uebersicht, k, z, e, g).Kategorien = uebersicht.Kategorien
  BY DEF KategorieMit
<1> QED BY <1>4, <1>6, <1>8, <1>9, <1>10 DEF IInv, UebersichtInv, Gueltig

\* What removing a line does to the arrays.
LEMMA ZeileEntfernenWirkung ==
  ASSUME IInv, NEW k, NEW u, NEW r, Tippbar(k, u, r), zeileEntfernen(k, u, r)
  PROVE  uebersicht' = ListenMit(uebersicht, k, ZeilenOhne(dictionary[k], u, r))
<1> DEFINE s == dictionary[k]
           h == ZeilenOhne(s, u, r)
<1>1. [s EXCEPT !.felder = h].felder = h
  <2>1. s = [Kategorie |-> s.Kategorie, Unterkategorie |-> s.Unterkategorie,
             expanded2 |-> s.expanded2, felder |-> s.felder]
    BY TippbarLesen DEF IstSection
  <2> HIDE DEF s, h
  <2> QED BY <2>1
<1>2. uebersicht' = [uebersicht EXCEPT !.felder = [f \in Felder |->
         [uebersicht.felder[f] EXCEPT ![k] = [s EXCEPT !.felder = h].felder[f]]]]
  BY DEF zeileEntfernen, SectionUebernehmen
<1> HIDE DEF h, s
<1>3. uebersicht' = ListenMit(uebersicht, k, h)
  BY <1>1, <1>2 DEF ListenMit
<1> QED BY <1>3 DEF h, s

LEMMA ZeileEntfernenInv ==
  ASSUME IInv, NEW k, NEW u, NEW r, Tippbar(k, u, r), zeileEntfernen(k, u, r),
         UNCHANGED <<uebersichtOffen, bearbeitet>>
  PROVE  UebersichtInv'
<1> DEFINE s == dictionary[k]
           z == uebersicht.Unterkategorien[k]
           h == ZeilenOhne(s, u, r)
<1>1. /\ Wohlgeformt(uebersicht, KategorieNamen, UnterkategorieNamen, IWerte)
      /\ k \in 1..Len(dictionary) /\ k \in 1..Len(uebersicht.Kategorien)
      /\ Eintrag(s, uebersicht, k, IWerte)
      /\ u \in 1..Len(z) /\ r \in 1..Len(s.felder["ItemsNamen"][u])
  BY TippbarLesen
<1>2. z \in Seq(UnterkategorieNamen)
  BY <1>1, KategorieLesen
<1>3. Listen(s.felder, z, IWerte)
  BY <1>1 DEF Eintrag
<1>4. h = [f \in Felder |-> [s.felder[f] EXCEPT ![u] = RemoveAt(s.felder[f][u], r)]]
  BY DEF ZeilenOhne
<1>5. dictionary' = SectionListenMit(dictionary, k, h)
  BY DEF zeileEntfernen, SectionUebernehmen, SectionListenMit
<1>6. uebersicht' = ListenMit(uebersicht, k, h)
  BY ZeileEntfernenWirkung
<1>7. uebersichtOffen' \in BOOLEAN /\ bearbeitet' \in BearbeitetTyp /\ popGeplant' \in BOOLEAN
  BY DEF zeileEntfernen, IInv, UebersichtInv
<1> HIDE DEF s, z
<1>8. Listen(h, z, IWerte)
  BY <1>1, <1>2, <1>3, ListenZeileRemoveAt
<1>9. IstFeld(h) /\ GleichBisKommentar(h, h)
  BY <1>4 DEF IstFeld, GleichBisKommentar
<1> HIDE DEF h
<1> QED BY <1>1, <1>5, <1>6, <1>7, <1>8, <1>9, ListenErsetzenInv DEF z

LEMMA UnterkategorieEntfernenInv ==
  ASSUME IInv, NEW k, NEW u, NEW r, Tippbar(k, u, r), unterkategorieEntfernen(k, u),
         UNCHANGED <<uebersichtOffen, bearbeitet>>
  PROVE  UebersichtInv'
<1> DEFINE s == dictionary[k]
           c == uebersicht.Unterkategorien[k]
           x == uebersicht.Expanded2[k]
           z == RemoveAt(c, u)
           e == RemoveAt(x, u)
           g == ListenOhneRubrik(ListenVon(uebersicht, k), u)
           h == ListenOhneRubrik(s.felder, u)
<1>1. /\ Wohlgeformt(uebersicht, KategorieNamen, UnterkategorieNamen, IWerte)
      /\ k \in 1..Len(dictionary) /\ k \in 1..Len(uebersicht.Kategorien)
      /\ Eintrag(s, uebersicht, k, IWerte) /\ u \in 1..Len(c)
  BY TippbarLesen
<1>2. /\ c \in Seq(UnterkategorieNamen) /\ x \in Seq(BOOLEAN) /\ Len(x) = Len(c)
      /\ Listen(ListenVon(uebersicht, k), c, IWerte)
  <2> HIDE DEF s
  <2>1. /\ Wohlgeformt(uebersicht, KategorieNamen, UnterkategorieNamen, IWerte)
        /\ k \in 1..Len(uebersicht.Kategorien)
    BY <1>1
  <2>2. Listen(ListenVon(uebersicht, k), c, IWerte)
    BY <2>1, ListenLesen
  <2>3. /\ c \in Seq(UnterkategorieNamen) /\ x \in Seq(BOOLEAN) /\ Len(x) = Len(c)
    BY <2>1, KategorieLesen
  <2> QED BY <2>2, <2>3
<1>3. /\ Listen(s.felder, c, IWerte) /\ s.Unterkategorie = c /\ s.expanded2 = x
      /\ GleichBisKommentar(s.felder, ListenVon(uebersicht, k))
  BY <1>1 DEF Eintrag, GleichBisKommentar, ListenVon, OhneKommentar
<1>4. dictionary' = SectionMit(dictionary, k, z, e, h)
  <2>1. SectionOhneUnterkategorie(s, u) = [Kategorie |-> s.Kategorie, Unterkategorie |-> z,
                                           expanded2 |-> e, felder |-> h]
    <3> HIDE DEF c, x, s
    <3> QED BY <1>3 DEF SectionOhneUnterkategorie, ListenOhneRubrik
  <2>2. dictionary' = [dictionary EXCEPT ![k] = SectionOhneUnterkategorie(s, u)]
    BY DEF unterkategorieEntfernen
  <2> HIDE DEF z, e, h
  <2> QED BY <2>1, <2>2 DEF SectionMit
<1>5. uebersicht' = KategorieMit(uebersicht, k, z, e, g)
  BY DEF unterkategorieEntfernen, OhneUnterkategorie, KategorieMit, ListenVon,
         ListenOhneRubrik
<1>6. UNCHANGED <<uebersichtOffen, bearbeitet, popGeplant>>
  BY DEF unterkategorieEntfernen
<1> HIDE DEF s, c, x
<1>7. Listen(g, z, IWerte)
  BY <1>1, <1>2, ListenRemoveAt
<1>8. Listen(h, z, IWerte)
  BY <1>1, <1>2, <1>3, ListenRemoveAt
<1>9. IstFeld(h) /\ GleichBisKommentar(h, g)
  BY <1>3 DEF IstFeld, GleichBisKommentar, OhneKommentar, ListenOhneRubrik
<1>10. z \in Seq(UnterkategorieNamen) /\ e \in Seq(BOOLEAN) /\ Len(e) = Len(z)
  BY <1>1, <1>2, FolgeRemoveAtGleich
<1> HIDE DEF z, e, g, h
<1> QED BY <1>1, <1>4, <1>5, <1>6, <1>7, <1>8, <1>9, <1>10, KategorieErsetzenInv

LEMMA KategorieEntfernenInv ==
  ASSUME IInv, NEW k, NEW u, NEW r, Tippbar(k, u, r), kategorieEntfernen(k, u),
         UNCHANGED <<uebersichtOffen, bearbeitet>>
  PROVE  UebersichtInv'
<1>1. /\ Wohlgeformt(uebersicht, KategorieNamen, UnterkategorieNamen, IWerte)
      /\ Spiegel(dictionary, uebersicht, KategorieNamen, UnterkategorieNamen, IWerte)
      /\ k \in 1..Len(dictionary) /\ k \in 1..Len(uebersicht.Kategorien)
  BY TippbarLesen
<1>2. /\ Injektiv(uebersicht.Kategorien) /\ uebersichtOffen \in BOOLEAN
      /\ bearbeitet \in BearbeitetTyp /\ popGeplant \in BOOLEAN
  BY DEF IInv, UebersichtInv, Gueltig
<1>3. /\ uebersicht' = OhneKategorie(uebersicht, k) /\ dictionary' = RemoveAt(dictionary, k)
      /\ popGeplant' = (popGeplant \/ dictionary' = <<>>)
  BY DEF kategorieEntfernen
<1>4. Wohlgeformt(uebersicht', KategorieNamen, UnterkategorieNamen, IWerte)
  BY <1>1, <1>3, OhneKategorieWohlgeformt
<1>5. Spiegel(dictionary', uebersicht', KategorieNamen, UnterkategorieNamen, IWerte)
  BY <1>1, <1>3, SpiegelRemoveAt
<1>6. Injektiv(uebersicht'.Kategorien)
  <2>1. uebersicht.Kategorien \in Seq(KategorieNamen)
    BY <1>1, WohlgeformtFelder
  <2>2. uebersicht'.Kategorien = RemoveAt(uebersicht.Kategorien, k)
    BY <1>3 DEF OhneKategorie
  <2> QED BY <1>1, <1>2, <2>1, <2>2, InjektivRemoveAt
<1> QED BY <1>2, <1>3, <1>4, <1>5, <1>6 DEF UebersichtInv, Gueltig

\* What setting a quantity does to the arrays.
LEMMA MengeSetzenWirkung ==
  ASSUME IInv, NEW k, NEW u, NEW r, Tippbar(k, u, r), NEW n, mengeSetzen(k, u, r, n)
  PROVE  uebersicht'
           = ListenMit(uebersicht, k, WertMit(ListenVon(uebersicht, k), "ItemsMengen", u, r, n))
<1> DEFINE f0 == "ItemsMengen"
           s == dictionary[k]
           G == ListenVon(uebersicht, k)
           mengen == [s.felder[f0] EXCEPT ![u][r] = n]
<1>1. /\ Wohlgeformt(uebersicht, KategorieNamen, UnterkategorieNamen, IWerte)
      /\ k \in 1..Len(uebersicht.Kategorien) /\ Eintrag(s, uebersicht, k, IWerte)
  BY TippbarLesen
<1>2. f0 \in OhneKommentar /\ f0 \in Felder
  BY DEF OhneKommentar, Felder
<1>3. G[f0] = s.felder[f0]
  BY <1>1, <1>2 DEF Eintrag, ListenVon
<1>4. uebersicht' = FeldMit(uebersicht, f0, k, mengen)
  BY DEF mengeSetzen, FeldMit
<1>5. FeldMit(uebersicht, f0, k, mengen) = ListenMit(uebersicht, k, ListeMit(G, f0, mengen))
  <2> HIDE DEF mengen, f0
  <2> QED BY <1>1, <1>2, FeldErsetzen
<1>6. ListeMit(G, f0, mengen) = WertMit(G, f0, u, r, n)
  <2> HIDE DEF G, f0, s
  <2> QED BY <1>3 DEF WertMit, ListeMit
<1> QED BY <1>4, <1>5, <1>6

\* Plus and minus, with the quantity n that they arrive at.
LEMMA MengeSetzenInv ==
  ASSUME IInv, NEW k, NEW u, NEW r, Tippbar(k, u, r), NEW n \in Nat \ {0},
         mengeSetzen(k, u, r, n)
  PROVE  UebersichtInv'
<1> DEFINE f0 == "ItemsMengen"
           s == dictionary[k]
           z == uebersicht.Unterkategorien[k]
           G == ListenVon(uebersicht, k)
           g == WertMit(G, f0, u, r, n)
           h == WertMit(s.felder, f0, u, r, n)
<1>1. /\ Wohlgeformt(uebersicht, KategorieNamen, UnterkategorieNamen, IWerte)
      /\ k \in 1..Len(dictionary) /\ k \in 1..Len(uebersicht.Kategorien)
      /\ IstSection(s, KategorieNamen, UnterkategorieNamen, IWerte)
      /\ Eintrag(s, uebersicht, k, IWerte)
      /\ u \in 1..Len(z) /\ r \in 1..Len(s.felder["ItemsNamen"][u])
  BY TippbarLesen
<1>2. z \in Seq(UnterkategorieNamen) /\ Listen(G, z, IWerte)
  BY <1>1, KategorieLesen, ListenLesen
<1>3. /\ Listen(s.felder, z, IWerte) /\ GleichBisKommentar(s.felder, G)
      /\ IstFeld(s.felder) /\ IstFeld(G)
  BY <1>1 DEF Eintrag, IstSection, IstFeld, GleichBisKommentar, ListenVon, OhneKommentar
<1>4. /\ f0 \in OhneKommentar /\ f0 \in Felder /\ f0 # "ItemsNamen"
      /\ "ItemsNamen" \in OhneKommentar /\ OhneKommentar \subseteq Felder
      /\ n \in IWerte[f0]
  BY DEF OhneKommentar, Felder, IWerte
<1>5. r \in 1..Len(G["ItemsNamen"][u]) /\ G[f0] = s.felder[f0]
  BY <1>1, <1>3, <1>4 DEF GleichBisKommentar
<1>6. uebersicht' = ListenMit(uebersicht, k, g)
  BY MengeSetzenWirkung
<1>7. dictionary' = SectionListenMit(dictionary, k, h)
  BY DEF mengeSetzen, SectionListenMit, WertMit
<1>8. uebersichtOffen' \in BOOLEAN /\ bearbeitet' \in BearbeitetTyp /\ popGeplant' \in BOOLEAN
  BY DEF mengeSetzen, IInv, UebersichtInv
<1> HIDE DEF f0, s, z, G
<1>9. Listen(g, z, IWerte)
  BY <1>1, <1>2, <1>3, <1>4, <1>5, ListenWert
<1>10. Listen(h, z, IWerte)
  <2> DEFINE q == s.felder
  <2>1. Listen(q, z, IWerte) /\ IstFeld(q) /\ r \in 1..Len(q["ItemsNamen"][u])
    BY <1>1, <1>3
  <2> HIDE DEF q
  <2>2. Listen(WertMit(q, f0, u, r, n), z, IWerte)
    BY <1>1, <1>2, <1>4, <2>1, ListenWert
  <2> QED BY <2>2 DEF q
<1>11. IstFeld(h)
  BY <1>3, <1>4 DEF IstFeld, WertMit
<1>12. GleichBisKommentar(h, g)
  BY <1>3, <1>4, <1>5 DEF GleichBisKommentar, WertMit, IstFeld
<1> HIDE DEF g, h
<1> QED BY <1>1, <1>6, <1>7, <1>8, <1>9, <1>10, <1>11, <1>12, ListenErsetzenInv DEF z

\* What a new comment does to the arrays: the line is the one the cell was built for.
LEMMA KommentarWirkung ==
  ASSUME IInv, NEW k, NEW u, NEW r, InKommentaren(k, u, r), NEW text \in Kommentare,
         uebersicht' = [uebersicht EXCEPT !.felder["ItemsKommentar"][k][u][r] = text]
  PROVE  LET g == WertMit(ListenVon(uebersicht, k), "ItemsKommentar", u, r, text) IN
         /\ k \in 1..Len(uebersicht.Kategorien)
         /\ uebersicht' = ListenMit(uebersicht, k, g)
         /\ Listen(g, uebersicht.Unterkategorien[k], IWerte)
         /\ GleichBisKommentar(g, ListenVon(uebersicht, k))
<1> DEFINE f0 == "ItemsKommentar"
           z == uebersicht.Unterkategorien[k]
           G == ListenVon(uebersicht, k)
           v == [G[f0] EXCEPT ![u][r] = text]
           g == WertMit(G, f0, u, r, text)
<1>1. Wohlgeformt(uebersicht, KategorieNamen, UnterkategorieNamen, IWerte)
  BY DEF IInv, UebersichtInv, Gueltig
<1>2. f0 \in Felder /\ f0 # "ItemsNamen" /\ f0 \notin OhneKommentar
      /\ OhneKommentar \subseteq Felder /\ text \in IWerte[f0]
  BY DEF OhneKommentar, Felder, IWerte
<1>3. k \in 1..Len(uebersicht.Kategorien)
  <2> DEFINE x == uebersicht.felder[f0]  T == Seq(Seq(IWerte[f0]))
  <2>1. Feld(x, uebersicht.felder["ItemsNamen"], uebersicht.Unterkategorien, IWerte[f0])
        /\ Len(uebersicht.Unterkategorien) = Len(uebersicht.Kategorien)
    BY <1>1, <1>2, WohlgeformtFelder
  <2>2. x \in Seq(T) /\ Len(x) = Len(uebersicht.Kategorien)
    BY <2>1 DEF Feld, GleichLang
  <2>3. k \in DOMAIN x
    BY DEF InKommentaren
  <2> HIDE DEF x, T
  <2> QED BY <2>2, <2>3
<1>4. z \in Seq(UnterkategorieNamen) /\ Listen(G, z, IWerte)
  BY <1>1, <1>3, KategorieLesen, ListenLesen
<1>5. G[f0] = uebersicht.felder[f0][k] /\ IstFeld(G)
  BY <1>2 DEF ListenVon, IstFeld
<1>6. u \in DOMAIN G[f0] /\ r \in DOMAIN G[f0][u]
  BY <1>5 DEF InKommentaren
<1> HIDE DEF G, z
<1>7. u \in 1..Len(z) /\ r \in 1..Len(G["ItemsNamen"][u])
  <2> DEFINE x == G[f0]  y == G["ItemsNamen"]  S == IWerte[f0]  R == IWerte["ItemsNamen"]
  <2>1. x \in Seq(Seq(S)) /\ y \in Seq(Seq(R)) /\ GleichLang(x, y) /\ Len(x) = Len(z)
    BY <1>2, <1>4, ListenPaar
  <2>2. u \in DOMAIN x /\ r \in DOMAIN x[u]
    BY <1>6
  <2> HIDE DEF x, y, S, R
  <2>3. u \in 1..Len(x)
    BY <2>1, <2>2
  <2>4. x[u] \in Seq(S) /\ Len(x[u]) = Len(y[u])
    BY <2>1, <2>3, ListeLesen
  <2>5. r \in 1..Len(y[u])
    BY <2>2, <2>4
  <2> QED BY <2>1, <2>3, <2>5 DEF y
<1>8. Listen(g, z, IWerte)
  <2> HIDE DEF f0
  <2> QED BY <1>2, <1>4, <1>5, <1>7, ListenWert
<1>9. uebersicht' = ListenMit(uebersicht, k, g)
  <2>1. FeldMit(uebersicht, f0, k, v) = ListenMit(uebersicht, k, ListeMit(G, f0, v))
    <3> HIDE DEF v, f0
    <3> QED BY <1>1, <1>2, <1>3, FeldErsetzen DEF G
  <2>2. uebersicht' = FeldMit(uebersicht, f0, k, v)
    BY <1>5 DEF FeldMit
  <2>3. ListeMit(G, f0, v) = g
    BY DEF WertMit, ListeMit
  <2> QED BY <2>1, <2>2, <2>3
<1>10. GleichBisKommentar(g, G)
  BY <1>2, <1>5 DEF GleichBisKommentar, WertMit, IstFeld
<1> QED BY <1>3, <1>8, <1>9, <1>10 DEF G, z

LEMMA KommentarAendernInv ==
  ASSUME IInv, NEW k, NEW u, NEW r, InKommentaren(k, u, r), NEW text \in Kommentare,
         uebersicht' = [uebersicht EXCEPT !.felder["ItemsKommentar"][k][u][r] = text],
         UNCHANGED <<uebersichtOffen, dictionary, popGeplant>>, bearbeitet' = Niemand
  PROVE  UebersichtInv'
<1> DEFINE s == dictionary[k]
           z == uebersicht.Unterkategorien[k]
           G == ListenVon(uebersicht, k)
           g == WertMit(G, "ItemsKommentar", u, r, text)
           h == s.felder
<1>1. /\ Spiegel(dictionary, uebersicht, KategorieNamen, UnterkategorieNamen, IWerte)
      /\ uebersichtOffen \in BOOLEAN /\ popGeplant \in BOOLEAN
  BY DEF IInv, UebersichtInv
<1>2. /\ k \in 1..Len(uebersicht.Kategorien) /\ uebersicht' = ListenMit(uebersicht, k, g)
      /\ Listen(g, z, IWerte) /\ GleichBisKommentar(g, G)
  BY KommentarWirkung
<1>3. /\ k \in 1..Len(dictionary) /\ dictionary \in Seq(ToSet(dictionary))
      /\ IstSection(s, KategorieNamen, UnterkategorieNamen, IWerte)
      /\ Eintrag(s, uebersicht, k, IWerte)
  BY <1>1, <1>2, DictionaryLesen
<1>4. dictionary' = SectionListenMit(dictionary, k, h)
  <2>1. s = [Kategorie |-> s.Kategorie, Unterkategorie |-> s.Unterkategorie,
             expanded2 |-> s.expanded2, felder |-> s.felder]
    BY <1>3 DEF IstSection
  <2>2. [s EXCEPT !.felder = h] = s
    <3> HIDE DEF s
    <3> QED BY <2>1
  <2>3. [dictionary EXCEPT ![k] = s] = dictionary
    BY <1>3, ExceptSelbst
  <2> QED BY <2>2, <2>3 DEF SectionListenMit
<1>5. IstFeld(h) /\ Listen(h, z, IWerte)
  BY <1>3 DEF IstSection, IstFeld, Eintrag
<1>6. GleichBisKommentar(h, g)
  <2> HIDE DEF g
  <2>1. \A f \in OhneKommentar : h[f] = G[f]
    BY <1>3 DEF Eintrag, ListenVon, OhneKommentar
  <2> QED BY <1>2, <2>1 DEF GleichBisKommentar
<1> HIDE DEF s, z, g, h
<1>7. uebersichtOffen' \in BOOLEAN /\ bearbeitet' \in BearbeitetTyp /\ popGeplant' \in BOOLEAN
  BY <1>1 DEF BearbeitetTyp
<1> QED BY <1>2, <1>3, <1>4, <1>5, <1>6, <1>7, ListenErsetzenInv DEF z

\* A step of the overview's cells that keeps the screen.
LEMMA ZelleInv ==
  ASSUME IInv, UebersichtInv', UNCHANGED <<ansicht, menueVars, gesendet>>
  PROVE  IInv'
  BY UnveraendertInv DEF IInv, menueVars

LEMMA ZeileGeaendertInv ==
  ASSUME IInv, NEW k, NEW u, NEW r, ZeileGeaendert(k, u, r)
  PROVE  IInv'
<1> DEFINE menge == dictionary[k].felder["ItemsMengen"][u][r]
<1>1. ASSUME Tippbar(k, u, r) PROVE menge \in Nat \ {0}
  <2> DEFINE x == dictionary[k].felder["ItemsMengen"]
             y == dictionary[k].felder["ItemsNamen"]
             z == uebersicht.Unterkategorien[k]
  <2>1. /\ Eintrag(dictionary[k], uebersicht, k, IWerte) /\ k \in 1..Len(dictionary)
        /\ u \in 1..Len(z) /\ r \in 1..Len(y[u])
    BY <1>1, TippbarLesen
  <2>2. Listen(dictionary[k].felder, z, IWerte) /\ z \in Seq(UnterkategorieNamen)
    BY <2>1, RubrikenLesen DEF Eintrag
  <2>3. "ItemsMengen" \in Felder /\ IWerte["ItemsMengen"] = Nat \ {0}
    BY DEF Felder, IWerte
  <2>4. /\ x \in Seq(Seq(Nat \ {0})) /\ y \in Seq(Seq(IWerte["ItemsNamen"])) /\ GleichLang(x, y)
        /\ Len(x) = Len(z)
    BY <2>2, <2>3, ListenPaar
  <2> HIDE DEF x, y, z
  <2>5. x[u] \in Seq(Nat \ {0}) /\ Len(x[u]) = Len(y[u])
    BY <2>1, <2>4, ListeLesen
  <2>6. x[u][r] \in Nat \ {0}
    BY <2>1, <2>5
  <2> QED BY <2>6 DEF x
<1>2. CASE passItemEntfernen(k, u, r)
  <2>1. /\ Tippbar(k, u, r) /\ UNCHANGED <<uebersichtOffen, bearbeitet>>
        /\ UNCHANGED <<ansicht, menueVars, gesendet>>
        /\ \/ zeileEntfernen(k, u, r)
           \/ unterkategorieEntfernen(k, u)
           \/ kategorieEntfernen(k, u)
    BY <1>2 DEF passItemEntfernen
  <2>2. UebersichtInv'
    BY <2>1, ZeileEntfernenInv, UnterkategorieEntfernenInv, KategorieEntfernenInv
  <2> QED BY <2>1, <2>2, ZelleInv
<1>3. CASE passItemPlus(k, u, r)
  <2>1. /\ Tippbar(k, u, r) /\ mengeSetzen(k, u, r, menge + 1)
        /\ UNCHANGED <<ansicht, menueVars, gesendet>>
    BY <1>3 DEF passItemPlus, mengeSetzen
  <2>2. menge + 1 \in Nat \ {0}
    BY <1>1, <2>1
  <2> HIDE DEF menge
  <2>3. UebersichtInv'
    BY <2>1, <2>2, MengeSetzenInv
  <2> QED BY <2>1, <2>3, ZelleInv
<1>4. CASE passItemMinus(k, u, r)
  <2>1. /\ Tippbar(k, u, r) /\ mengeSetzen(k, u, r, menge - 1) /\ menge > 1
        /\ UNCHANGED <<ansicht, menueVars, gesendet>>
    BY <1>4 DEF passItemMinus, mengeSetzen
  <2>2. menge - 1 \in Nat \ {0}
    BY <1>1, <2>1
  <2> HIDE DEF menge
  <2>3. UebersichtInv'
    BY <2>1, <2>2, MengeSetzenInv
  <2> QED BY <2>1, <2>3, ZelleInv
<1>5. CASE kommentarBeginnen(k, u, r)
  <2>1. /\ Tippbar(k, u, r) /\ bearbeitet' = [k |-> k, u |-> u, r |-> r]
        /\ UNCHANGED <<ansicht, menueVars, gesendet>>
        /\ UNCHANGED <<uebersichtOffen, uebersicht, dictionary, popGeplant>>
    BY <1>5 DEF kommentarBeginnen
  <2>2. k \in Nat /\ u \in Nat /\ r \in Nat
    <3>1. /\ k \in 1..Len(dictionary) /\ u \in 1..Len(uebersicht.Unterkategorien[k])
          /\ r \in 1..Len(dictionary[k].felder["ItemsNamen"][u])
      BY <2>1, TippbarLesen
    <3> QED BY <3>1
  <2>3. UebersichtInv'
    BY <2>1, <2>2 DEF IInv, UebersichtInv, Gueltig, BearbeitetTyp
  <2> QED BY <2>1, <2>3, ZelleInv
<1> QED BY <1>2, <1>3, <1>4, <1>5 DEF ZeileGeaendert

LEMMA PassKommentarAendernInv ==
  ASSUME IInv, NEW text \in Kommentare, passKommentarAendern(text)
  PROVE  IInv'
<1>1. CASE Absturz
  BY <1>1, NeueSitzungInv DEF Absturz
<1>2. CASE ~Absturz
  <2> DEFINE k == bearbeitet.k  u == bearbeitet.u  r == bearbeitet.r
  <2>1. /\ InKommentaren(k, u, r) /\ bearbeitet' = Niemand
        /\ uebersicht' = [uebersicht EXCEPT !.felder["ItemsKommentar"][k][u][r] = text]
        /\ UNCHANGED <<uebersichtOffen, dictionary, popGeplant>>
        /\ UNCHANGED <<ansicht, menueVars, gesendet>>
    BY <1>2 DEF passKommentarAendern
  <2> HIDE DEF k, u, r
  <2>2. UebersichtInv'
    BY <2>1, KommentarAendernInv
  <2> QED BY <2>1, <2>2, ZelleInv
<1> QED BY <1>1, <1>2

-----------------------------------------------------------------------------
(* Moving between the screens.                                             *)

LEMMA BestellungPruefenInv ==
  ASSUME IInv, bestellungPruefen
  PROVE  IInv'
<1>1. /\ ansicht' = "uebersicht" /\ dictionary' = dictionaryVC2 \o Sections(bestellung)
      /\ dictionaryVC2' = <<>> /\ uebersichtOffen' = TRUE /\ uebersicht' = bestellung
      /\ bearbeitet' = Niemand /\ popGeplant' = FALSE
      /\ UNCHANGED <<entwurf, bestellung, gesendet>>
  BY DEF bestellungPruefen
<1>2. Gueltig(bestellung) /\ dictionaryVC2 = <<>>
  BY DEF IInv, MenueInv
<1>3. Spiegel(Sections(bestellung), bestellung, KategorieNamen, UnterkategorieNamen, IWerte)
  BY <1>2, SpiegelSections DEF Gueltig
<1>4. dictionary' = Sections(bestellung)
  <2> DEFINE d == Sections(bestellung)
  <2>1. d \in Seq(ToSet(d))
    BY <1>3, DictionaryLesen
  <2> HIDE DEF d
  <2>2. <<>> \o d = d
    BY <2>1
  <2> QED BY <1>1, <1>2, <2>2 DEF d
<1>5. EntwurfInv'
  BY <1>1 DEF IInv, EntwurfInv, Ansichten
<1>6. MenueInv'
  BY <1>1, <1>2 DEF MenueInv, Gueltig
<1>7. UebersichtInv'
  BY <1>1, <1>2, <1>3, <1>4 DEF UebersichtInv, BearbeitetTyp
<1> QED BY <1>1, <1>5, <1>6, <1>7, UnveraendertInv DEF IInv

LEMMA UebersichtSchliessenInv ==
  ASSUME IInv, ansicht' \in {"menue", "alert"}, uebersichtSchliessen
  PROVE  IInv'
<1>1. /\ bestellung' = uebersicht /\ uebersichtOffen' = FALSE
      /\ uebersicht' = LeereBestellung /\ dictionary' = <<>>
      /\ bearbeitet' = Niemand /\ popGeplant' = FALSE
      /\ UNCHANGED <<entwurf, dictionaryVC2, gesendet>>
  BY DEF uebersichtSchliessen
<1>2. EntwurfInv'
  BY <1>1 DEF IInv, EntwurfInv, Ansichten
<1>3. MenueInv'
  BY <1>1 DEF IInv, MenueInv, UebersichtInv, Gueltig
<1>4. UebersichtInv'
  BY <1>1, LeereBestellungGueltig, LeererSpiegel DEF UebersichtInv, BearbeitetTyp
<1> QED BY <1>1, <1>2, <1>3, <1>4, UnveraendertInv DEF IInv

\* Steps that change only the screen.
LEMMA AnsichtInv ==
  ASSUME IInv, ansicht' \in {"menue", "uebersicht", "alert", "abgeschickt"},
         UNCHANGED <<menueVars, uebersichtVars>>, GesendetInv'
  PROVE  IInv'
<1>1. EntwurfInv'
  BY DEF IInv, EntwurfInv, Ansichten, menueVars
<1> QED BY <1>1, UnveraendertInv DEF IInv, menueVars

LEMMA AlertAbschickenInv ==
  ASSUME IInv, alertAbschicken
  PROVE  IInv'
<1>1. /\ gesendet' = Append(gesendet, dictionary)
      /\ ansicht' \in {"menue", "abgeschickt"}
      /\ UNCHANGED <<menueVars, uebersichtVars>>
  BY DEF alertAbschicken
<1>2. /\ gesendet \in Seq(ToSet(gesendet))
      /\ \A n \in 1..Len(gesendet) :
           IstDictionary(gesendet[n], KategorieNamen, UnterkategorieNamen, IWerte)
  BY DEF IInv, GesendetInv
<1>3. IstDictionary(dictionary, KategorieNamen, UnterkategorieNamen, IWerte)
  BY DEF IInv, UebersichtInv, Spiegel
<1> DEFINE T == ToSet(gesendet) \cup {dictionary}
<1>4. gesendet \in Seq(T) /\ dictionary \in T
  BY <1>2
<1> HIDE DEF T
<1>5. /\ gesendet' \in Seq(T) /\ Len(gesendet') = Len(gesendet) + 1
      /\ \A n \in 1..Len(gesendet) : gesendet'[n] = gesendet[n]
      /\ gesendet'[Len(gesendet) + 1] = dictionary
      /\ Len(gesendet) \in Nat
  BY <1>1, <1>4, AppendFolge
<1>6. ASSUME NEW n \in 1..Len(gesendet')
      PROVE  IstDictionary(gesendet'[n], KategorieNamen, UnterkategorieNamen, IWerte)
  <2>1. n = Len(gesendet) + 1 \/ n \in 1..Len(gesendet)
    BY <1>5, BisNachfolger
  <2> QED BY <1>2, <1>3, <1>5, <2>1
<1>7. gesendet' \in Seq(ToSet(gesendet'))
  BY <1>5, FolgeIhrerWerte
<1>8. GesendetInv'
  BY <1>6, <1>7 DEF GesendetInv
<1> QED BY <1>1, <1>8, AnsichtInv

LEMMA NavigationInv ==
  ASSUME IInv, Navigation
  PROVE  IInv'
<1>1. CASE bestellungPruefen
  BY <1>1, BestellungPruefenInv
<1>2. CASE menueVerlassen
  BY <1>2, NeueSitzungInv DEF menueVerlassen
<1>3. CASE zurueck
  BY <1>3, UebersichtSchliessenInv DEF zurueck
<1>4. CASE abschicken
  BY <1>4, AnsichtInv, UnveraendertInv DEF abschicken, IInv
<1>5. CASE alertAbbrechen
  BY <1>5, AnsichtInv, UnveraendertInv DEF alertAbbrechen, IInv
<1>6. CASE alertAbschicken
  BY <1>6, AlertAbschickenInv
<1>7. CASE abgeschicktVerlassen
  BY <1>7, NeueSitzungInv DEF abgeschicktVerlassen
<1>8. CASE popNachLeer
  <2>1. CASE abgeschicktVerlassen
    BY <2>1, NeueSitzungInv DEF abgeschicktVerlassen
  <2>2. CASE ~abgeschicktVerlassen
    BY <1>8, <2>2, UebersichtSchliessenInv DEF popNachLeer
  <2> QED BY <2>1, <2>2
<1>9. CASE appStarten
  BY <1>9, NeueSitzungInv DEF appStarten
<1> QED BY <1>1, <1>2, <1>3, <1>4, <1>5, <1>6, <1>7, <1>8, <1>9 DEF Navigation

LEMMA NextInv ==
  ASSUME IInv, [Next]_vars
  PROVE  IInv'
<1>1. CASE Popup
  <2>1. ASSUME NEW t \in DOMAIN Speisekarte, NEW s \in DOMAIN Speisekarte,
               NEW s2, NEW r2, pass(t, s, s2, r2)
        PROVE  IInv'
    BY <2>1, PassInv
  <2>2. CASE selectExtra
    BY <2>2, SelectExtraInv
  <2>3. CASE dismissPopUp
    BY <2>3, DismissPopUpInv
  <2> QED BY <1>1, <2>1, <2>2, <2>3, EntwurfBleibtInv DEF Popup
<1>2. CASE Uebersicht
  BY <1>2, ZeileGeaendertInv, PassKommentarAendernInv DEF Uebersicht
<1>3. CASE Navigation
  BY <1>3, NavigationInv
<1>4. CASE UNCHANGED vars
  BY <1>4, UnveraendertInv DEF IInv, vars, menueVars, uebersichtVars
<1> QED BY <1>1, <1>2, <1>3, <1>4 DEF Next

-----------------------------------------------------------------------------
(* The theorems.                                                           *)

\* IInv is an inductive invariant of the composition of the two screens.
THEOREM SpecIInv == Spec => []IInv
<1>1. Init => IInv
  BY InitInv
<1>2. IInv /\ [Next]_vars => IInv'
  BY NextInv
<1> QED BY <1>1, <1>2, PTL DEF Spec

LEMMA SeqMonoton ==
  ASSUME NEW S, NEW T, S \subseteq T
  PROVE  Seq(S) \subseteq Seq(T)
  OBVIOUS

LEMMA IWerteWerte ==
  ASSUME NEW f \in Felder
  PROVE  IWerte[f] \subseteq Werte[f]
<1>1. CASE f = "ItemsMengen"
  BY <1>1 DEF IWerte, Werte
<1>2. CASE f \in {"ItemsNamen", "ItemsPreise", "ItemsLiter", "ItemsKommentar"}
  BY <1>2 DEF IWerte, Werte
<1>3. CASE f = "ExtrasName"
  <2> DEFINE S == Seq({x.name : x \in Extra} \cup {KeineExtras})
  <2>1. IWerte.ExtrasName = S
    BY DEF IWerte
  <2>2. Werte.ExtrasName = S
    BY DEF Werte
  <2> QED BY <1>3, <2>1, <2>2
<1>4. CASE f = "ExtrasPreise"
  <2> DEFINE S == Seq({x.preis : x \in Extra} \cup {0})
  <2>1. IWerte.ExtrasPreise = S
    BY DEF IWerte
  <2>2. Werte.ExtrasPreise = S
    BY DEF Werte
  <2> QED BY <1>4, <2>1, <2>2
<1> QED BY <1>1, <1>2, <1>3, <1>4 DEF Felder

\* What is true of arrays with quantities above zero is true of arrays.
LEMMA IstBestellungMonoton ==
  ASSUME NEW b, IstBestellung(b, KategorieNamen, UnterkategorieNamen, IWerte)
  PROVE  IstBestellung(b, KategorieNamen, UnterkategorieNamen, Werte)
<1>1. ASSUME NEW f \in Felder PROVE b.felder[f] \in Seq(Seq(Seq(Werte[f])))
  <2> DEFINE S == IWerte[f]  T == Werte[f]
  <2>1. S \subseteq T
    BY IWerteWerte
  <2>2. b.felder[f] \in Seq(Seq(Seq(S)))
    BY DEF IstBestellung
  <2> HIDE DEF S, T
  <2>3. Seq(Seq(Seq(S))) \subseteq Seq(Seq(Seq(T)))
    BY <2>1, SeqMonoton
  <2>4. b.felder[f] \in Seq(Seq(Seq(T)))
    BY <2>2, <2>3
  <2> QED BY <2>4 DEF T
<1> QED BY <1>1 DEF IstBestellung

LEMMA IstDictionaryMonoton ==
  ASSUME NEW d, IstDictionary(d, KategorieNamen, UnterkategorieNamen, IWerte)
  PROVE  IstDictionary(d, KategorieNamen, UnterkategorieNamen, Werte)
<1>1. ASSUME NEW k \in 1..Len(d), NEW f \in Felder PROVE d[k].felder[f] \in Seq(Seq(Werte[f]))
  <2> DEFINE S == IWerte[f]  T == Werte[f]
  <2>1. S \subseteq T
    BY IWerteWerte
  <2>2. d[k].felder[f] \in Seq(Seq(S))
    BY DEF IstDictionary, IstSection
  <2> HIDE DEF S, T
  <2>3. Seq(Seq(S)) \subseteq Seq(Seq(T))
    BY <2>1, SeqMonoton
  <2>4. d[k].felder[f] \in Seq(Seq(T))
    BY <2>2, <2>3
  <2> QED BY <2>4 DEF T
<1> QED BY <1>1 DEF IstDictionary, IstSection

\* Every variable keeps its type: whatever the menu, each of the arrays stays a
\* sequence of sequences of sequences of its values.
THEOREM TypKorrekt == Spec => []TypeOK
<1>1. ASSUME IInv PROVE TypeOK
  <2>1. /\ IstBestellung(bestellung, KategorieNamen, UnterkategorieNamen, Werte)
        /\ IstBestellung(uebersicht, KategorieNamen, UnterkategorieNamen, Werte)
    BY <1>1, IstBestellungMonoton DEF IInv, MenueInv, UebersichtInv, Gueltig, Wohlgeformt
  <2>2. IstDictionary(dictionaryVC2, KategorieNamen, UnterkategorieNamen, Werte)
    BY <1>1 DEF IInv, MenueInv, IstDictionary, ToSet
  <2>3. IstDictionary(dictionary, KategorieNamen, UnterkategorieNamen, Werte)
    BY <1>1, IstDictionaryMonoton DEF IInv, UebersichtInv, Spiegel
  <2>4. /\ gesendet \in Seq(ToSet(gesendet))
        /\ \A n \in 1..Len(gesendet) :
             IstDictionary(gesendet[n], KategorieNamen, UnterkategorieNamen, Werte)
    BY <1>1, IstDictionaryMonoton DEF IInv, GesendetInv
  <2>5. /\ ansicht \in Ansichten /\ entwurf \in EntwurfTyp
        /\ uebersichtOffen \in BOOLEAN /\ bearbeitet \in BearbeitetTyp
        /\ popGeplant \in BOOLEAN
    BY <1>1 DEF IInv, EntwurfInv, UebersichtInv
  <2>6. DOMAIN gesendet = 1..Len(gesendet)
    BY <2>4
  <2> QED BY <2>1, <2>2, <2>3, <2>4, <2>5, <2>6 DEF TypeOK
<1> QED BY <1>1, SpecIInv, PTL

\* No line of either view controller ever has quantity zero: the popup counts
\* down to zero, the overview to one, and the quantity is read off a label.
THEOREM MengenBleibenPositiv == Spec => []MengenPositiv
<1>1. ASSUME IInv, NEW b \in {bestellung, uebersicht}, NEW z \in Positionen(b)
      PROVE  b.felder["ItemsMengen"][z[1]][z[2]][z[3]] > 0
  <2> DEFINE x == b.felder["ItemsMengen"]  y == b.felder["ItemsNamen"]
             c == b.Unterkategorien  K == b.Kategorien
  <2>1. Wohlgeformt(b, KategorieNamen, UnterkategorieNamen, IWerte)
    BY <1>1 DEF IInv, MenueInv, UebersichtInv, Gueltig
  <2>2. /\ x \in Seq(Seq(Seq(Nat \ {0}))) /\ y \in Seq(Seq(Seq(IWerte["ItemsNamen"])))
        /\ c \in Seq(Seq(UnterkategorieNamen)) /\ K \in Seq(KategorieNamen)
    <3>1. "ItemsMengen" \in Felder /\ "ItemsNamen" \in Felder
      BY DEF Felder
    <3>2. IWerte["ItemsMengen"] = Nat \ {0}
      BY DEF IWerte
    <3> QED BY <2>1, <3>1, <3>2 DEF Wohlgeformt, IstBestellung
  <2>3. /\ Len(c) = Len(K) /\ GleichLang(x, c)
        /\ \A k \in 1..Len(c) : GleichLang(x[k], y[k])
    <3>1. "ItemsMengen" \in Felder
      BY DEF Felder
    <3> QED BY <2>1, <3>1 DEF Wohlgeformt, Ausgerichtet
  <2>4. PICK k \in DOMAIN K : \E u \in DOMAIN c[k] : \E r \in DOMAIN y[k][u] : z = <<k, u, r>>
    BY <1>1 DEF Positionen
  <2>4a. PICK u \in DOMAIN c[k] : \E r \in DOMAIN y[k][u] : z = <<k, u, r>>
    BY <2>4
  <2>4b. PICK r \in DOMAIN y[k][u] : z = <<k, u, r>>
    BY <2>4a
  <2> HIDE DEF x, y, c, K
  <2>5. k \in 1..Len(c) /\ u \in 1..Len(c[k])
    <3>1. k \in 1..Len(c)
      BY <2>2, <2>3, <2>4
    <3>2. c[k] \in Seq(UnterkategorieNamen)
      BY <2>2, <3>1
    <3> QED BY <2>4a, <3>1, <3>2
  <2>6. k \in 1..Len(x) /\ u \in 1..Len(x[k]) /\ GleichLang(x[k], y[k])
    BY <2>3, <2>5 DEF GleichLang
  <2>7. x[k] \in Seq(Seq(Nat \ {0}))
    BY <2>2, <2>6
  <2>8. x[k][u] \in Seq(Nat \ {0})
    BY <2>6, <2>7
  <2>9. u \in 1..Len(y[k]) /\ Len(x[k][u]) = Len(y[k][u])
    BY <2>6 DEF GleichLang
  <2>10. r \in 1..Len(x[k][u])
    <3>1. k \in 1..Len(y)
      BY <2>1, <2>5 DEF Wohlgeformt, Ausgerichtet, GleichLang, Felder, y, c
    <3>2. y[k] \in Seq(Seq(IWerte["ItemsNamen"]))
      BY <2>2, <3>1
    <3>3. y[k][u] \in Seq(IWerte["ItemsNamen"])
      BY <2>9, <3>2
    <3> QED BY <2>4b, <2>9, <3>3
  <2>11. x[k][u][r] \in Nat \ {0}
    BY <2>8, <2>10
  <2>12. x[k][u][r] > 0
    BY <2>11
  <2> QED BY <2>4b, <2>12 DEF x
<1>2. IInv => MengenPositiv
  BY <1>1 DEF MengenPositiv
<1> QED BY <1>2, SpecIInv, PTL

\* The ten arrays of both view controllers stay aligned, so that an index
\* found in one of them is good for all: no handler of the popup or the
\* overview, in any order, makes the app read past the end of another array.
THEOREM ArraysBleibenAusgerichtet == Spec => []ArraysAusgerichtet
<1>1. IInv => ArraysAusgerichtet
  BY DEF IInv, MenueInv, UebersichtInv, Gueltig, Wohlgeformt, ArraysAusgerichtet
<1> QED BY <1>1, SpecIInv, PTL

LEMMA SpiegelGleich ==
  ASSUME NEW b, NEW d, NEW e,
         Spiegel(d, b, KategorieNamen, UnterkategorieNamen, IWerte),
         Spiegel(e, b, KategorieNamen, UnterkategorieNamen, IWerte)
  PROVE  OhneKommentare(d) = OhneKommentare(e)
<1>1. /\ d \in Seq(ToSet(d)) /\ e \in Seq(ToSet(e)) /\ Len(d) = Len(e)
      /\ \A k \in 1..Len(d) :
           /\ IstSection(d[k], KategorieNamen, UnterkategorieNamen, IWerte)
           /\ IstSection(e[k], KategorieNamen, UnterkategorieNamen, IWerte)
           /\ Eintrag(d[k], b, k, IWerte) /\ Eintrag(e[k], b, k, IWerte)
  BY DictionaryLesen
<1>2. DOMAIN d = 1..Len(d) /\ DOMAIN e = 1..Len(d)
  BY <1>1
<1>3. ASSUME NEW k \in 1..Len(d)
      PROVE  [d[k] EXCEPT !.felder = [f \in OhneKommentar |-> d[k].felder[f]]]
               = [e[k] EXCEPT !.felder = [f \in OhneKommentar |-> e[k].felder[f]]]
  <2> DEFINE s == d[k]  t == e[k]
             F == [f \in OhneKommentar |-> s.felder[f]]
             G == [f \in OhneKommentar |-> t.felder[f]]
  <2>1. /\ IstSection(s, KategorieNamen, UnterkategorieNamen, IWerte) /\ Eintrag(s, b, k, IWerte)
        /\ IstSection(t, KategorieNamen, UnterkategorieNamen, IWerte) /\ Eintrag(t, b, k, IWerte)
    BY <1>1
  <2> HIDE DEF s, t
  <2>2. F = G
    BY <2>1 DEF Eintrag
  <2>3. /\ s = [Kategorie |-> s.Kategorie, Unterkategorie |-> s.Unterkategorie,
                expanded2 |-> s.expanded2, felder |-> s.felder]
        /\ t = [Kategorie |-> t.Kategorie, Unterkategorie |-> t.Unterkategorie,
                expanded2 |-> t.expanded2, felder |-> t.felder]
    BY <2>1 DEF IstSection
  <2>4. /\ s.Kategorie = t.Kategorie /\ s.Unterkategorie = t.Unterkategorie
        /\ s.expanded2 = t.expanded2
    BY <2>1 DEF Eintrag
  <2> HIDE DEF F, G
  <2>5. [s EXCEPT !.felder = F] = [t EXCEPT !.felder = G]
    BY <2>2, <2>3, <2>4
  <2> QED BY <2>5 DEF s, t, F, G
<1> QED BY <1>2, <1>3, Zenon DEF OhneKommentare

\* While the overview is open, what it shows and sends (the dictionary) and what
\* it hands back to the menu (the arrays) are the same order, comments aside.
THEOREM DictionaryBleibtGleichArrays == Spec => []DictionaryGleichArrays
<1>1. ASSUME IInv PROVE DictionaryGleichArrays
  <2>1. /\ Gueltig(uebersicht)
        /\ Spiegel(dictionary, uebersicht, KategorieNamen, UnterkategorieNamen, IWerte)
    BY <1>1 DEF IInv, UebersichtInv
  <2>2. Spiegel(Sections(uebersicht), uebersicht, KategorieNamen, UnterkategorieNamen, IWerte)
    BY <2>1, SpiegelSections DEF Gueltig
  <2> QED BY <2>1, <2>2, SpiegelGleich DEF DictionaryGleichArrays
<1> QED BY <1>1, SpecIInv, PTL
-----------------------------------------------------------------------------
(* Sending.                                                                *)

\* Once an order with lines is sent there is only the way out of the screen that
\* says so, and an alert that has outlived its overview has nothing to send.
VersandInv ==
  /\ \A m, n \in 1..Len(gesendet) : gesendet[m] # <<>> /\ gesendet[n] # <<>> => m = n
  /\ ansicht # "abgeschickt" => \A n \in 1..Len(gesendet) : gesendet[n] = <<>>
  /\ ~uebersichtOffen => dictionary = <<>>

LEMMA VersandInit == Init => VersandInv
  BY DEF Init, VersandInv

LEMMA NeueSitzungVersand == NeueSitzung => VersandInv'
  BY DEF NeueSitzung, VersandInv

\* Nothing is sent, and the overview has not been left without clearing it.
LEMMA NichtsGesendet ==
  ASSUME VersandInv, ansicht # "abgeschickt", UNCHANGED gesendet,
         ~uebersichtOffen' => dictionary' = <<>>
  PROVE  VersandInv'
  BY DEF VersandInv

LEMMA VersandPopup ==
  ASSUME VersandInv, Popup
  PROVE  VersandInv'
<1>1. ASSUME NEW t, NEW s, NEW s2, NEW r2, pass(t, s, s2, r2) PROVE VersandInv'
  <2>1. CASE Absturz
    BY <2>1, NeueSitzungVersand DEF Absturz
  <2>2. CASE ~Absturz
    BY <1>1, <2>2, NichtsGesendet DEF pass, uebersichtVars, VersandInv
  <2> QED BY <2>1, <2>2
<1>2. ASSUME NEW text, kommentarTippen(text) PROVE VersandInv'
  BY <1>2, NichtsGesendet DEF kommentarTippen, uebersichtVars, VersandInv
<1>3. CASE funcItemPlusTapped \/ funcItemMinusTapped
  BY <1>3, NichtsGesendet DEF funcItemPlusTapped, funcItemMinusTapped, uebersichtVars, VersandInv
<1>4. CASE openExtras \/ closeExtras \/ extrasHinzufuegen
  BY <1>4, NichtsGesendet DEF openExtras, closeExtras, extrasHinzufuegen, uebersichtVars, VersandInv
<1>5. CASE selectExtra
  BY <1>5, NichtsGesendet DEF selectExtra, uebersichtVars, VersandInv
<1>6. CASE aktualisierungAbbrechen
  BY <1>6, NichtsGesendet DEF aktualisierungAbbrechen, uebersichtVars, VersandInv
<1>7. CASE dismissPopUp
  BY <1>7, NichtsGesendet DEF dismissPopUp, uebersichtVars, VersandInv
<1> QED BY <1>1, <1>2, <1>3, <1>4, <1>5, <1>6, <1>7 DEF Popup

\* A line that can be tapped is in the dictionary, so the overview is open.
LEMMA VersandZeile ==
  ASSUME VersandInv, NEW k, NEW u, NEW r, ZeileGeaendert(k, u, r)
  PROVE  VersandInv'
<1>1. ansicht = "uebersicht" /\ k \in DOMAIN dictionary
  BY DEF ZeileGeaendert, passItemEntfernen, passItemPlus, passItemMinus, kommentarBeginnen, Tippbar
<1>2. DOMAIN <<>> = {}
  OBVIOUS
<1>3. uebersichtOffen
  <2> SUFFICES ASSUME ~uebersichtOffen PROVE FALSE
    OBVIOUS
  <2>1. dictionary = <<>>
    BY DEF VersandInv
  <2> QED BY <1>1, <1>2, <2>1
<1>4. UNCHANGED <<uebersichtOffen, gesendet>>
  BY DEF ZeileGeaendert, passItemEntfernen, passItemPlus, passItemMinus, mengeSetzen, kommentarBeginnen
<1> QED BY <1>1, <1>3, <1>4, NichtsGesendet

LEMMA VersandUebersicht ==
  ASSUME VersandInv, Uebersicht
  PROVE  VersandInv'
<1>1. ASSUME NEW text, passKommentarAendern(text) PROVE VersandInv'
  <2>1. CASE Absturz
    BY <2>1, NeueSitzungVersand DEF Absturz
  <2>2. CASE ~Absturz
    BY <1>1, <2>2, NichtsGesendet DEF passKommentarAendern, VersandInv
  <2> QED BY <2>1, <2>2
<1> QED BY <1>1, VersandZeile DEF Uebersicht

LEMMA VersandAbschicken ==
  ASSUME VersandInv, IInv, alertAbschicken
  PROVE  VersandInv'
<1>1. gesendet \in Seq(ToSet(gesendet))
  BY DEF IInv, GesendetInv
<1> DEFINE T == ToSet(gesendet) \cup {dictionary}
<1>2. gesendet \in Seq(T) /\ dictionary \in T
  BY <1>1
<1> HIDE DEF T
<1>3. /\ Len(gesendet') = Len(gesendet) + 1
      /\ \A n \in 1..Len(gesendet) : gesendet'[n] = gesendet[n]
      /\ gesendet'[Len(gesendet) + 1] = dictionary
      /\ Len(gesendet) \in Nat
  BY <1>2, AppendFolge DEF alertAbschicken
<1>4. \A n \in 1..Len(gesendet') : n = Len(gesendet) + 1 \/ n \in 1..Len(gesendet)
  BY <1>3, BisNachfolger
<1>5. \A n \in 1..Len(gesendet) : gesendet'[n] = <<>>
  BY <1>3 DEF alertAbschicken, VersandInv
<1>6. \A m, n \in 1..Len(gesendet') : gesendet'[m] # <<>> /\ gesendet'[n] # <<>> => m = n
  BY <1>4, <1>5
<1>7. ASSUME ansicht' # "abgeschickt" PROVE \A n \in 1..Len(gesendet') : gesendet'[n] = <<>>
  <2>1. dictionary = <<>>
    BY <1>7 DEF alertAbschicken, VersandInv
  <2> QED BY <1>3, <1>4, <1>5, <2>1
<1>8. ~uebersichtOffen' => dictionary' = <<>>
  BY DEF alertAbschicken, uebersichtVars, VersandInv
<1> QED BY <1>6, <1>7, <1>8 DEF VersandInv

LEMMA VersandNavigation ==
  ASSUME VersandInv, IInv, Navigation
  PROVE  VersandInv'
<1>1. CASE bestellungPruefen
  BY <1>1, NichtsGesendet DEF bestellungPruefen
<1>2. CASE menueVerlassen \/ abgeschicktVerlassen \/ appStarten
  BY <1>2, NeueSitzungVersand DEF menueVerlassen, abgeschicktVerlassen, appStarten
<1>3. CASE zurueck
  BY <1>3, NichtsGesendet DEF zurueck, uebersichtSchliessen
<1>4. CASE abschicken \/ alertAbbrechen
  BY <1>4, NichtsGesendet DEF abschicken, alertAbbrechen, uebersichtVars, VersandInv
<1>5. CASE alertAbschicken
  BY <1>5, VersandAbschicken
<1>6. CASE popNachLeer
  <2>1. CASE abgeschicktVerlassen
    BY <2>1, NeueSitzungVersand DEF abgeschicktVerlassen
  <2>2. CASE ~abgeschicktVerlassen
    BY <1>6, <2>2, NichtsGesendet DEF popNachLeer, uebersichtSchliessen
  <2> QED BY <2>1, <2>2
<1> QED BY <1>1, <1>2, <1>3, <1>4, <1>5, <1>6 DEF Navigation

LEMMA VersandNext == VersandInv /\ IInv /\ [Next]_vars => VersandInv'
<1> SUFFICES ASSUME VersandInv, IInv, [Next]_vars PROVE VersandInv'
  OBVIOUS
<1>1. CASE UNCHANGED vars
  BY <1>1 DEF vars, uebersichtVars, VersandInv
<1> QED BY <1>1, VersandPopup, VersandUebersicht, VersandNavigation DEF Next

\* However often the guest orders, goes back, cancels and confirms, and whenever
\* the timer pops the emptied overview: after one scan at most one order with lines
\* is handed to handleBestellung.
THEOREM EineBestellungJeScan == Spec => []HoechstensEineBestellung
<1>1. ASSUME VersandInv, IInv PROVE HoechstensEineBestellung
  <2> DEFINE N == {n \in DOMAIN gesendet : gesendet[n] # <<>>}
  <2>1. DOMAIN gesendet = 1..Len(gesendet)
    BY <1>1 DEF IInv, GesendetInv
  <2>2. \A m, n \in N : m = n
    BY <1>1, <2>1 DEF VersandInv
  <2>3. SUFFICES Cardinality(N) <= 1
    BY DEF HoechstensEineBestellung
  <2> HIDE DEF N
  <2>4. CASE N = {}
    BY <2>4, FS_EmptySet
  <2>5. ASSUME NEW n \in N PROVE Cardinality(N) <= 1
    <3>1. N = {n}
      BY <2>2
    <3>2. Cardinality({n}) = 1
      BY FS_Singleton
    <3> QED BY <3>1, <3>2
  <2> QED BY <2>4, <2>5
<1> QED BY <1>1, VersandInit, VersandNext, SpecIInv, PTL DEF Spec


-----------------------------------------------------------------------------
(* The headings c of a Kategorie and n, the names of the lines under each.  *)

RubrikGut(c, n) ==
  /\ c # <<>>
  /\ Injektiv(c)
  /\ \A u \in 1..Len(c) : n[u] # <<>>

RubrikenGut(C, N) == \A k \in 1..Len(C) : RubrikGut(C[k], N[k])

LEMMA RubrikNeu ==
  ASSUME NEW x, NEW y
  PROVE  RubrikGut(<<x>>, <<<<y>>>>)
  BY DEF RubrikGut, Injektiv

LEMMA RubrikAppend ==
  ASSUME NEW U, NEW T, NEW c \in Seq(U), NEW n \in Seq(Seq(T)), Len(n) = Len(c),
         NEW x \in U, NEW y \in T, RubrikGut(c, n), ~Contains(c, x)
  PROVE  RubrikGut(Append(c, x), Append(n, <<y>>))
<1>1. Injektiv(Append(c, x)) /\ Append(c, x) # <<>>
  BY InjektivAppend DEF RubrikGut
<1>2. /\ Len(Append(c, x)) = Len(c) + 1 /\ Len(c) \in Nat
      /\ \A u \in 1..Len(c) : Append(n, <<y>>)[u] = n[u]
      /\ Append(n, <<y>>)[Len(c) + 1] = <<y>>
  OBVIOUS
<1>3. ASSUME NEW u \in 1..(Len(c) + 1) PROVE Append(n, <<y>>)[u] # <<>>
  <2>1. u = Len(c) + 1 \/ u \in 1..Len(c)
    BY <1>2, BisNachfolger
  <2> QED BY <1>2, <2>1 DEF RubrikGut
<1> QED BY <1>1, <1>2, <1>3 DEF RubrikGut

\* The list under the u-th heading becomes v, which has lines.
LEMMA RubrikExcept ==
  ASSUME NEW U, NEW T, NEW c \in Seq(U), NEW n \in Seq(T), Len(n) = Len(c),
         NEW u \in 1..Len(c), NEW v \in T, v # <<>>, RubrikGut(c, n)
  PROVE  RubrikGut(c, [n EXCEPT ![u] = v])
<1>1. \A i \in 1..Len(c) : [n EXCEPT ![u] = v][i] = IF i = u THEN v ELSE n[i]
  BY ExceptFolge
<1> QED BY <1>1 DEF RubrikGut

LEMMA RubrikRemoveAt ==
  ASSUME NEW U, NEW T, NEW c \in Seq(U), NEW n \in Seq(T), Len(n) = Len(c),
         NEW u \in 1..Len(c), Len(c) # 1, RubrikGut(c, n)
  PROVE  RubrikGut(RemoveAt(c, u), RemoveAt(n, u))
<1>1. Injektiv(RemoveAt(c, u))
  BY InjektivRemoveAt DEF RubrikGut
<1>2. /\ Len(RemoveAt(c, u)) = Len(c) - 1 /\ Len(c) \in Nat
      /\ \A i \in 1..(u - 1) : RemoveAt(n, u)[i] = n[i]
      /\ \A i \in u..(Len(n) - 1) : RemoveAt(n, u)[i] = n[i + 1]
  BY RemoveAtFolge
<1>3. RemoveAt(c, u) # <<>>
  BY <1>2
<1>4. ASSUME NEW i \in 1..(Len(c) - 1) PROVE RemoveAt(n, u)[i] # <<>>
  <2>1. CASE i < u
    BY <1>2, <2>1 DEF RubrikGut
  <2>2. CASE i >= u
    BY <1>2, <2>2 DEF RubrikGut
  <2> QED BY <1>2, <2>1, <2>2
<1> QED BY <1>1, <1>2, <1>3, <1>4 DEF RubrikGut

-----------------------------------------------------------------------------
(* All Kategorien.                                                          *)

LEMMA RubrikenAppend ==
  ASSUME NEW S, NEW R, NEW C \in Seq(S), NEW N \in Seq(R), Len(N) = Len(C),
         NEW z \in S, NEW y \in R, RubrikenGut(C, N), RubrikGut(z, y)
  PROVE  RubrikenGut(Append(C, z), Append(N, y))
<1>1. /\ Len(Append(C, z)) = Len(C) + 1 /\ Len(C) \in Nat
      /\ \A k \in 1..Len(C) : Append(C, z)[k] = C[k] /\ Append(N, y)[k] = N[k]
      /\ Append(C, z)[Len(C) + 1] = z /\ Append(N, y)[Len(C) + 1] = y
  BY AppendFolge
<1>2. \A k \in 1..(Len(C) + 1) : k = Len(C) + 1 \/ k \in 1..Len(C)
  BY <1>1, BisNachfolger
<1> QED BY <1>1, <1>2 DEF RubrikenGut

LEMMA RubrikenExcept ==
  ASSUME NEW S, NEW R, NEW C \in Seq(S), NEW N \in Seq(R), Len(N) = Len(C),
         NEW k \in 1..Len(C), NEW z \in S, NEW y \in R, RubrikenGut(C, N), RubrikGut(z, y)
  PROVE  RubrikenGut([C EXCEPT ![k] = z], [N EXCEPT ![k] = y])
<1>1. /\ Len([C EXCEPT ![k] = z]) = Len(C)
      /\ [C EXCEPT ![k] = z][k] = z /\ [N EXCEPT ![k] = y][k] = y
      /\ \A i \in 1..Len(C) : i # k => /\ [C EXCEPT ![k] = z][i] = C[i]
                                       /\ [N EXCEPT ![k] = y][i] = N[i]
  BY ExceptFolge
<1> QED BY <1>1 DEF RubrikenGut

LEMMA RubrikenRemoveAt ==
  ASSUME NEW S, NEW R, NEW C \in Seq(S), NEW N \in Seq(R), Len(N) = Len(C),
         NEW k \in 1..Len(C), RubrikenGut(C, N)
  PROVE  RubrikenGut(RemoveAt(C, k), RemoveAt(N, k))
<1> DEFINE CC == RemoveAt(C, k)
           NN == RemoveAt(N, k)
<1>1. /\ Len(CC) = Len(C) - 1 /\ Len(C) \in Nat
      /\ \A i \in 1..(k - 1) : CC[i] = C[i] /\ NN[i] = N[i]
      /\ \A i \in k..(Len(C) - 1) : CC[i] = C[i + 1] /\ NN[i] = N[i + 1]
  BY RemoveAtFolge
<1> HIDE DEF CC, NN
<1>2. ASSUME NEW i \in 1..(Len(C) - 1) PROVE RubrikGut(CC[i], NN[i])
  <2>1. CASE i < k
    <3>1. i \in 1..(k - 1) /\ i \in 1..Len(C)
      BY <1>1, <2>1
    <3> QED BY <1>1, <3>1 DEF RubrikenGut
  <2>2. CASE i >= k
    <3>1. i \in k..(Len(C) - 1) /\ i + 1 \in 1..Len(C)
      BY <1>1, <2>2
    <3> QED BY <1>1, <3>1 DEF RubrikenGut
  <2> QED BY <1>1, <2>1, <2>2
<1>3. RubrikenGut(CC, NN)
  BY <1>1, <1>2 DEF RubrikenGut
<1> QED BY <1>3 DEF CC, NN

-----------------------------------------------------------------------------
(* The operations on the arrays b.                                          *)

NamenVon(b) == b.felder["ItemsNamen"]

Gut(b) == RubrikenGut(b.Unterkategorien, NamenVon(b))

\* The types of the two arrays of arrays, and those of one Kategorie.
LEMMA RubrikTypen ==
  ASSUME NEW b, Gueltig(b)
  PROVE  /\ b.Unterkategorien \in Seq(Seq(UnterkategorieNamen))
         /\ NamenVon(b) \in Seq(Seq(Seq(IWerte["ItemsNamen"])))
         /\ Len(NamenVon(b)) = Len(b.Unterkategorien)
         /\ Len(b.Unterkategorien) = Len(b.Kategorien)
         /\ \A k \in 1..Len(b.Unterkategorien) :
              /\ b.Unterkategorien[k] \in Seq(UnterkategorieNamen)
              /\ NamenVon(b)[k] \in Seq(Seq(IWerte["ItemsNamen"]))
              /\ Len(NamenVon(b)[k]) = Len(b.Unterkategorien[k])
<1>1. /\ b.Unterkategorien \in Seq(Seq(UnterkategorieNamen))
      /\ Len(b.Unterkategorien) = Len(b.Kategorien)
      /\ Feld(NamenVon(b), NamenVon(b), b.Unterkategorien, IWerte["ItemsNamen"])
  BY WohlgeformtFelder, ItemsNamenFelder DEF Gueltig, NamenVon
<1>2. /\ NamenVon(b) \in Seq(Seq(Seq(IWerte["ItemsNamen"])))
      /\ GleichLang(NamenVon(b), b.Unterkategorien)
  BY <1>1 DEF Feld
<1> DEFINE T == Seq(Seq(IWerte["ItemsNamen"]))
<1>3. \A k \in 1..Len(b.Unterkategorien) : NamenVon(b)[k] \in T
  <2> HIDE DEF T
  <2>1. NamenVon(b) \in Seq(T) /\ Len(NamenVon(b)) = Len(b.Unterkategorien)
    BY <1>2 DEF GleichLang, T
  <2> QED BY <2>1
<1> QED BY <1>1, <1>2, <1>3 DEF GleichLang

\* Only these two arrays and the Kategorien matter.
LEMMA GutGleich ==
  ASSUME NEW a, NEW b, Gut(b), a.Unterkategorien = b.Unterkategorien, NamenVon(a) = NamenVon(b)
  PROVE  Gut(a)
  BY DEF Gut

LEMMA GutLeer == Gut(LeereBestellung)
  BY DEF Gut, RubrikenGut, LeereBestellung

LEMMA GutMitZeile ==
  ASSUME NEW b, Gueltig(b), Gut(b), NEW kat \in KategorieNamen,
         NEW ukat \in UnterkategorieNamen, NEW w, w["ItemsNamen"] \in IWerte["ItemsNamen"]
  PROVE  Gut(MitZeile(b, kat, ukat, w))
<1> DEFINE C == b.Unterkategorien
           N == NamenVon(b)
           k == firstIndex(b.Kategorien, kat)
           u == firstIndex(C[k], ukat)
           x == w["ItemsNamen"]
           B == MitZeile(b, kat, ukat, w)
           S == Seq(UnterkategorieNamen)
           T == IWerte["ItemsNamen"]
           R == Seq(Seq(T))
<1>1. /\ C \in Seq(S) /\ N \in Seq(R) /\ Len(N) = Len(C) /\ Len(C) = Len(b.Kategorien)
      /\ \A i \in 1..Len(C) : C[i] \in S /\ N[i] \in R /\ Len(N[i]) = Len(C[i])
  BY RubrikTypen
<1>2. b.Kategorien \in Seq(KategorieNamen)
  BY WohlgeformtFelder DEF Gueltig
<1>3. CASE ~Contains(b.Kategorien, kat)
  <2>1. B.Unterkategorien = Append(C, <<ukat>>) /\ NamenVon(B) = Append(N, <<<<x>>>>)
    BY <1>3, ItemsNamenFelder DEF MitZeile, NeueKategorie, NamenVon
  <2>2. <<ukat>> \in S /\ <<<<x>>>> \in R
    <3>1. x \in T
      OBVIOUS
    <3> HIDE DEF x, T
    <3> QED BY <3>1, EineZeile
  <2>3. RubrikGut(<<ukat>>, <<<<x>>>>)
    BY RubrikNeu
  <2> HIDE DEF C, N, S, R, B, x
  <2>4. RubrikenGut(Append(C, <<ukat>>), Append(N, <<<<x>>>>))
    BY <1>1, <2>2, <2>3, RubrikenAppend DEF Gut, C, N
  <2> QED BY <2>1, <2>4 DEF Gut, B
<1>4. CASE Contains(b.Kategorien, kat)
  <2>1. k \in 1..Len(C)
    BY <1>1, <1>2, <1>4, FirstIndex
  <2>2. /\ C[k] \in S /\ N[k] \in R /\ Len(N[k]) = Len(C[k]) /\ RubrikGut(C[k], N[k])
    BY <1>1, <2>1 DEF Gut, RubrikenGut
  <2>3. CASE ~Contains(C[k], ukat)
    <3>1. /\ B.Unterkategorien = [C EXCEPT ![k] = Append(C[k], ukat)]
          /\ NamenVon(B) = [N EXCEPT ![k] = Append(N[k], <<x>>)]
      BY <1>4, <2>3, ItemsNamenFelder DEF MitZeile, NeueUnterkategorie, NamenVon
    <3> DEFINE c == C[k]  n == N[k]
    <3>2. Append(c, ukat) \in S /\ Append(n, <<x>>) \in R
      <4> HIDE DEF c, n
      <4>1. c \in Seq(UnterkategorieNamen) /\ n \in Seq(Seq(T))
        BY <2>2 DEF c, n
      <4>2. <<x>> \in Seq(T)
        <5>1. x \in T
          OBVIOUS
        <5> HIDE DEF x, T
        <5> QED BY <5>1, EineZeile
      <4> QED BY <4>1, <4>2
    <3>3. RubrikGut(Append(c, ukat), Append(n, <<x>>))
      <4> HIDE DEF c, n, k, x, T
      <4> QED BY <2>2, <2>3, RubrikAppend DEF c, n, x, T
    <3> HIDE DEF C, N, S, R, B, x, k
    <3>4. RubrikenGut([C EXCEPT ![k] = Append(C[k], ukat)], [N EXCEPT ![k] = Append(N[k], <<x>>)])
      BY <1>1, <2>1, <3>2, <3>3, RubrikenExcept DEF Gut, C, N
    <3> QED BY <3>1, <3>4 DEF Gut, B
  <2>4. CASE Contains(C[k], ukat)
    <3>1. u \in 1..Len(C[k])
      BY <2>2, <2>4, FirstIndex
    <3> DEFINE n == N[k]
               v == Append(n[u], x)
               y == [n EXCEPT ![u] = v]
    <3>2. B.Unterkategorien = C /\ NamenVon(B) = [N EXCEPT ![k] = y]
      BY <1>4, <2>4, ItemsNamenFelder DEF MitZeile, NeueZeile, NamenVon
    <3>3. v \in Seq(T) /\ v # <<>>
      <4> HIDE DEF n, u, k, T, C
      <4>1. n \in Seq(Seq(T)) /\ u \in 1..Len(n)
        BY <2>2, <3>1 DEF n
      <4>2. n[u] \in Seq(T)
        BY <4>1
      <4>3. x \in T
        BY DEF T
      <4> QED BY <4>2, <4>3
    <3>4. y \in R /\ RubrikGut(C[k], y)
      <4>1. n \in Seq(Seq(T)) /\ u \in 1..Len(n)
        BY <2>2, <3>1
      <4>2. C[k] \in Seq(UnterkategorieNamen) /\ u \in 1..Len(C[k])
        BY <2>2, <3>1
      <4>3. RubrikGut(C[k], n) /\ Len(n) = Len(C[k])
        BY <2>2
      <4> DEFINE c == C[k]
      <4> HIDE DEF n, v, u, C, k, T, c
      <4>4. y \in Seq(Seq(T))
        BY <3>3, <4>1, ExceptFolge
      <4>5. RubrikGut(c, y)
        BY <3>3, <4>1, <4>2, <4>3, RubrikExcept DEF c
      <4> QED BY <4>4, <4>5 DEF c
    <3>5. [C EXCEPT ![k] = C[k]] = C
      <4> HIDE DEF C, k, S
      <4> QED BY <1>1, <2>1, ExceptSelbst
    <3> HIDE DEF C, N, S, R, B, y, k
    <3>6. RubrikenGut([C EXCEPT ![k] = C[k]], [N EXCEPT ![k] = y])
      BY <1>1, <2>1, <2>2, <3>4, RubrikenExcept DEF Gut, C, N
    <3> QED BY <3>2, <3>5, <3>6 DEF Gut, B
  <2> QED BY <2>3, <2>4
<1> QED BY <1>3, <1>4

LEMMA GutOhneUnterkategorie ==
  ASSUME NEW b, Gueltig(b), Gut(b), NEW k \in 1..Len(b.Unterkategorien),
         NEW u \in 1..Len(b.Unterkategorien[k]), Len(b.Unterkategorien[k]) # 1
  PROVE  Gut(OhneUnterkategorie(b, k, u))
<1> DEFINE C == b.Unterkategorien
           N == NamenVon(b)
           c == C[k]
           n == N[k]
           B == OhneUnterkategorie(b, k, u)
           T == Seq(IWerte["ItemsNamen"])
           S == Seq(UnterkategorieNamen)
           R == Seq(T)
<1>1. /\ C \in Seq(S) /\ N \in Seq(R) /\ Len(N) = Len(C)
      /\ c \in S /\ n \in R /\ Len(n) = Len(c)
  BY RubrikTypen
<1>2. /\ B.Unterkategorien = [C EXCEPT ![k] = RemoveAt(c, u)]
      /\ NamenVon(B) = [N EXCEPT ![k] = RemoveAt(n, u)]
  BY ItemsNamenFelder DEF OhneUnterkategorie, NamenVon
<1>3. k \in 1..Len(C) /\ u \in 1..Len(c) /\ Len(c) # 1 /\ RubrikGut(c, n) /\ RubrikenGut(C, N)
  BY DEF Gut, RubrikenGut
<1> HIDE DEF C, N, c, n, B, T
<1>4. RubrikGut(RemoveAt(c, u), RemoveAt(n, u)) /\ RemoveAt(c, u) \in S /\ RemoveAt(n, u) \in R
  BY <1>1, <1>3, RubrikRemoveAt, FolgeRemoveAtGleich
<1> HIDE DEF S, R
<1>5. RubrikenGut([C EXCEPT ![k] = RemoveAt(c, u)], [N EXCEPT ![k] = RemoveAt(n, u)])
  BY <1>1, <1>3, <1>4, RubrikenExcept
<1> QED BY <1>2, <1>5 DEF Gut, B

LEMMA GutOhneKategorie ==
  ASSUME NEW b, Gueltig(b), Gut(b), NEW k \in 1..Len(b.Unterkategorien)
  PROVE  Gut(OhneKategorie(b, k))
<1> DEFINE C == b.Unterkategorien
           N == NamenVon(b)
           B == OhneKategorie(b, k)
           S == Seq(UnterkategorieNamen)
           R == Seq(Seq(IWerte["ItemsNamen"]))
<1>1. C \in Seq(S) /\ N \in Seq(R) /\ Len(N) = Len(C) /\ RubrikenGut(C, N)
  BY RubrikTypen DEF Gut
<1>2. B.Unterkategorien = RemoveAt(C, k) /\ NamenVon(B) = RemoveAt(N, k) /\ k \in 1..Len(C)
  BY ItemsNamenFelder DEF OhneKategorie, NamenVon
<1> HIDE DEF C, N, B, S, R
<1>3. RubrikenGut(RemoveAt(C, k), RemoveAt(N, k))
  BY <1>1, <1>2, RubrikenRemoveAt
<1> QED BY <1>2, <1>3 DEF Gut, B

-----------------------------------------------------------------------------
(* The steps.                                                               *)

RubrikInv == Gut(bestellung) /\ Gut(uebersicht)

LEMMA NeueSitzungRubrik == NeueSitzung => RubrikInv'
  BY GutLeer DEF NeueSitzung, RubrikInv

LEMMA UnveraendertRubrik ==
  ASSUME RubrikInv, UNCHANGED <<bestellung, uebersicht>>
  PROVE  RubrikInv'
  BY DEF RubrikInv

LEMMA PopupRubrik ==
  ASSUME IInv, RubrikInv, Popup
  PROVE  RubrikInv'
<1>1. ASSUME NEW t, NEW s, NEW s2, NEW r2, pass(t, s, s2, r2) PROVE RubrikInv'
  <2>1. CASE Absturz
    BY <2>1, NeueSitzungRubrik DEF Absturz
  <2>2. CASE ~Absturz
    BY <1>1, <2>2, UnveraendertRubrik DEF pass, uebersichtVars
  <2> QED BY <2>1, <2>2
<1>2. ASSUME NEW text, kommentarTippen(text) PROVE RubrikInv'
  BY <1>2, UnveraendertRubrik DEF kommentarTippen, uebersichtVars
<1>3. CASE funcItemPlusTapped \/ funcItemMinusTapped \/ openExtras \/ closeExtras
  BY <1>3, UnveraendertRubrik
     DEF funcItemPlusTapped, funcItemMinusTapped, openExtras, closeExtras, uebersichtVars
<1>4. CASE extrasHinzufuegen \/ selectExtra \/ aktualisierungAbbrechen
  BY <1>4, UnveraendertRubrik
     DEF extrasHinzufuegen, selectExtra, aktualisierungAbbrechen, menueVars, uebersichtVars
<1>5. CASE dismissPopUp
  <2>1. CASE UNCHANGED bestellung
    BY <1>5, <2>1, UnveraendertRubrik DEF dismissPopUp, uebersichtVars
  <2>2. CASE ~UNCHANGED bestellung
    <3>1. /\ ansicht = "popup" /\ entwurf.i > 0 /\ UNCHANGED uebersicht
          /\ bestellung' = MitZeile(bestellung, entwurf.Kategorie,
                                    entwurf.Unterkategorie, Zeile(entwurf))
      BY <1>5, <2>2 DEF dismissPopUp, uebersichtVars
    <3>2. /\ entwurf \in EntwurfTyp /\ entwurf.artikel \in Artikel
          /\ entwurf.Kategorie \in KategorieNamen
          /\ entwurf.Unterkategorie \in UnterkategorieNamen
          /\ entwurf.itemCountLbl \in {1, entwurf.i}
      BY <3>1 DEF IInv, EntwurfInv
    <3>3. Zeile(entwurf)["ItemsNamen"] \in IWerte["ItemsNamen"]
      BY <3>1, <3>2, ItemsNamenFelder, ZeileTyp
    <3>4. Gueltig(bestellung) /\ Gut(bestellung) /\ Gut(uebersicht)
      BY DEF IInv, MenueInv, RubrikInv
    <3>5. Gut(bestellung')
      BY <3>1, <3>2, <3>3, <3>4, GutMitZeile
    <3> QED BY <3>1, <3>4, <3>5 DEF RubrikInv
  <2> QED BY <2>1, <2>2
<1> QED BY <1>1, <1>2, <1>3, <1>4, <1>5 DEF Popup

\* The names that the overview shows for the k-th Kategorie are those of its arrays.
LEMMA TippbarRubrik ==
  ASSUME IInv, RubrikInv, NEW k, NEW u, NEW r, Tippbar(k, u, r)
  PROVE  /\ Gueltig(uebersicht) /\ Gut(uebersicht)
         /\ k \in 1..Len(uebersicht.Unterkategorien)
         /\ u \in 1..Len(uebersicht.Unterkategorien[k])
         /\ dictionary[k].Unterkategorie = uebersicht.Unterkategorien[k]
         /\ dictionary[k].felder["ItemsNamen"] = NamenVon(uebersicht)[k]
         /\ r \in 1..Len(NamenVon(uebersicht)[k][u])
<1>1. Gueltig(uebersicht) /\ Gut(uebersicht)
  BY DEF IInv, UebersichtInv, RubrikInv
<1>2. /\ k \in 1..Len(uebersicht.Kategorien) /\ Eintrag(dictionary[k], uebersicht, k, IWerte)
      /\ u \in 1..Len(uebersicht.Unterkategorien[k])
      /\ r \in 1..Len(dictionary[k].felder["ItemsNamen"][u])
  BY TippbarLesen
<1>3. /\ dictionary[k].Unterkategorie = uebersicht.Unterkategorien[k]
      /\ dictionary[k].felder["ItemsNamen"] = NamenVon(uebersicht)[k]
  BY <1>2 DEF Eintrag, OhneKommentar, Felder, NamenVon
<1>4. Len(uebersicht.Unterkategorien) = Len(uebersicht.Kategorien)
  BY <1>1, RubrikTypen
<1> QED BY <1>1, <1>2, <1>3, <1>4

LEMMA ZeileEntfernenRubrik ==
  ASSUME IInv, RubrikInv, NEW k, NEW u, NEW r, Tippbar(k, u, r), zeileEntfernen(k, u, r)
  PROVE  Gut(uebersicht')
<1> DEFINE C == uebersicht.Unterkategorien
           N == NamenVon(uebersicht)
           c == C[k]
           n == N[k]
           v == RemoveAt(n[u], r)
           y == [n EXCEPT ![u] = v]
           T == Seq(IWerte["ItemsNamen"])
           S == Seq(UnterkategorieNamen)
           R == Seq(T)
<1>1. /\ C \in Seq(S) /\ N \in Seq(R) /\ Len(N) = Len(C)
      /\ c \in S /\ n \in R /\ Len(n) = Len(c)
      /\ k \in 1..Len(C) /\ u \in 1..Len(c) /\ r \in 1..Len(n[u])
      /\ dictionary[k].felder["ItemsNamen"] = n
  BY TippbarRubrik, RubrikTypen
<1>2. RubrikGut(c, n) /\ RubrikenGut(C, N)
  BY <1>1 DEF RubrikInv, Gut, RubrikenGut
<1>3. uebersicht'.Unterkategorien = C /\ NamenVon(uebersicht') = [N EXCEPT ![k] = y]
  <2> DEFINE s == dictionary[k]
             h == ZeilenOhne(s, u, r)
  <2>1. h["ItemsNamen"] = y
    BY <1>1, ItemsNamenFelder DEF ZeilenOhne
  <2>2. uebersicht' = [uebersicht EXCEPT !.felder = [f \in Felder |->
           [uebersicht.felder[f] EXCEPT ![k] = [s EXCEPT !.felder = h].felder[f]]]]
    BY DEF zeileEntfernen, SectionUebernehmen
  <2>3. [s EXCEPT !.felder = h].felder = h
    <3>1. s = [Kategorie |-> s.Kategorie, Unterkategorie |-> s.Unterkategorie,
               expanded2 |-> s.expanded2, felder |-> s.felder]
      BY TippbarLesen DEF IstSection
    <3> HIDE DEF s, h
    <3> QED BY <3>1
  <2>4. uebersicht = [Kategorien |-> uebersicht.Kategorien,
                      Unterkategorien |-> uebersicht.Unterkategorien,
                      Expanded2 |-> uebersicht.Expanded2, felder |-> uebersicht.felder]
    BY WohlgeformtFelder DEF IInv, UebersichtInv, Gueltig
  <2> HIDE DEF s, h, y
  <2>5. uebersicht'.Unterkategorien = uebersicht.Unterkategorien
    BY <2>2, <2>4
  <2>6. uebersicht'.felder["ItemsNamen"] = [uebersicht.felder["ItemsNamen"] EXCEPT ![k] = y]
    BY <2>1, <2>2, <2>3, <2>4, ItemsNamenFelder
  <2> QED BY <2>5, <2>6 DEF NamenVon
<1>4. Len(n[u]) # 1
  BY <1>1 DEF zeileEntfernen
<1> HIDE DEF C, N, c, n
<1>5. n[u] \in T /\ u \in 1..Len(n)
  BY <1>1
<1>6. v \in T /\ v # <<>>
  <2> DEFINE m == n[u]
  <2>1. m \in T /\ r \in 1..Len(m) /\ Len(m) # 1
    BY <1>1, <1>4, <1>5
  <2> HIDE DEF m
  <2>2. RemoveAt(m, r) \in T /\ Len(RemoveAt(m, r)) = Len(m) - 1
    BY <2>1, RemoveAtFolge
  <2>3. RemoveAt(m, r) # <<>>
    BY <2>1, <2>2
  <2> QED BY <2>2, <2>3 DEF m
<1> HIDE DEF v, T
<1>7. RubrikGut(c, y) /\ y \in R
  BY <1>1, <1>2, <1>5, <1>6, RubrikExcept, ExceptFolge
<1>8. [C EXCEPT ![k] = c] = C
  <2> HIDE DEF S, R
  <2> QED BY <1>1, ExceptSelbst DEF c
<1> HIDE DEF S, R, y
<1>9. RubrikenGut([C EXCEPT ![k] = c], [N EXCEPT ![k] = y])
  BY <1>1, <1>2, <1>7, RubrikenExcept
<1> QED BY <1>3, <1>8, <1>9 DEF Gut

LEMMA ZeileGeaendertRubrik ==
  ASSUME IInv, RubrikInv, NEW k, NEW u, NEW r, ZeileGeaendert(k, u, r)
  PROVE  RubrikInv'
<1>1. Tippbar(k, u, r) /\ UNCHANGED bestellung
  BY DEF ZeileGeaendert, passItemEntfernen, passItemPlus, passItemMinus, mengeSetzen,
         kommentarBeginnen, menueVars
<1>2. SUFFICES Gut(uebersicht')
  BY <1>1 DEF RubrikInv
<1>3. /\ Gueltig(uebersicht) /\ Gut(uebersicht)
      /\ k \in 1..Len(uebersicht.Unterkategorien)
      /\ u \in 1..Len(uebersicht.Unterkategorien[k])
      /\ dictionary[k].Unterkategorie = uebersicht.Unterkategorien[k]
  BY <1>1, TippbarRubrik
<1>4. CASE zeileEntfernen(k, u, r)
  BY <1>1, <1>4, ZeileEntfernenRubrik
<1>5. CASE unterkategorieEntfernen(k, u)
  BY <1>3, <1>5, GutOhneUnterkategorie DEF unterkategorieEntfernen
<1>6. CASE kategorieEntfernen(k, u)
  BY <1>3, <1>6, GutOhneKategorie DEF kategorieEntfernen
<1>7. ASSUME NEW m, mengeSetzen(k, u, r, m) PROVE Gut(uebersicht')
  <2>1. /\ uebersicht'.Unterkategorien = uebersicht.Unterkategorien
        /\ NamenVon(uebersicht') = NamenVon(uebersicht)
    BY <1>7 DEF mengeSetzen, NamenVon
  <2> QED BY <1>3, <2>1, GutGleich
<1>8. CASE kommentarBeginnen(k, u, r)
  BY <1>3, <1>8 DEF kommentarBeginnen
<1> QED BY <1>4, <1>5, <1>6, <1>7, <1>8
       DEF ZeileGeaendert, passItemEntfernen, passItemPlus, passItemMinus

LEMMA UebersichtRubrik ==
  ASSUME IInv, RubrikInv, Uebersicht
  PROVE  RubrikInv'
<1>1. ASSUME NEW text, passKommentarAendern(text) PROVE RubrikInv'
  <2>1. CASE Absturz
    BY <2>1, NeueSitzungRubrik DEF Absturz
  <2>2. CASE ~Absturz
    <3> DEFINE k == bearbeitet.k  u == bearbeitet.u  r == bearbeitet.r
    <3>1. /\ uebersicht' = [uebersicht EXCEPT !.felder["ItemsKommentar"][k][u][r] = text]
          /\ UNCHANGED bestellung
      BY <1>1, <2>2 DEF passKommentarAendern, menueVars
    <3> HIDE DEF k, u, r
    <3>2. /\ uebersicht'.Unterkategorien = uebersicht.Unterkategorien
          /\ NamenVon(uebersicht') = NamenVon(uebersicht)
      BY <3>1 DEF NamenVon
    <3>3. Gut(uebersicht')
      BY <3>2, GutGleich DEF RubrikInv
    <3> QED BY <3>1, <3>3 DEF RubrikInv
  <2> QED BY <2>1, <2>2
<1> QED BY <1>1, ZeileGeaendertRubrik DEF Uebersicht

LEMMA NavigationRubrik ==
  ASSUME RubrikInv, Navigation
  PROVE  RubrikInv'
<1>1. CASE bestellungPruefen
  BY <1>1 DEF bestellungPruefen, RubrikInv
<1>2. CASE menueVerlassen \/ abgeschicktVerlassen \/ appStarten
  BY <1>2, NeueSitzungRubrik DEF menueVerlassen, abgeschicktVerlassen, appStarten
<1>3. ASSUME uebersichtSchliessen PROVE RubrikInv'
  BY <1>3, GutLeer DEF uebersichtSchliessen, RubrikInv
<1>4. CASE abschicken \/ alertAbbrechen \/ alertAbschicken
  BY <1>4, UnveraendertRubrik
     DEF abschicken, alertAbbrechen, alertAbschicken, menueVars, uebersichtVars
<1> QED BY <1>1, <1>2, <1>3, <1>4, NeueSitzungRubrik
       DEF Navigation, zurueck, popNachLeer, abgeschicktVerlassen

LEMMA NextRubrik == IInv /\ RubrikInv /\ [Next]_vars => RubrikInv'
<1> SUFFICES ASSUME IInv, RubrikInv, [Next]_vars PROVE RubrikInv'
  OBVIOUS
<1>1. CASE UNCHANGED vars
  BY <1>1, UnveraendertRubrik DEF vars, menueVars, uebersichtVars
<1> QED BY <1>1, PopupRubrik, UebersichtRubrik, NavigationRubrik DEF Next

\* After any additions and removals, in the menu and in the overview, no Kategorie
\* and no Unterkategorie is listed twice or left without lines, so that every line
\* is found by its headings when the order is reviewed and sent.
THEOREM RubrikenBleibenStimmig == Spec => []RubrikenStimmig
<1>1. ASSUME NEW b, Gueltig(b), Gut(b) PROVE OhneLeere(b) /\ Eindeutig(b)
  <2>1. /\ DOMAIN b.Kategorien = 1..Len(b.Unterkategorien) /\ Injektiv(b.Kategorien)
        /\ \A k \in 1..Len(b.Unterkategorien) :
             DOMAIN b.Unterkategorien[k] = 1..Len(b.Unterkategorien[k])
    <3>1. b.Kategorien \in Seq(KategorieNamen) /\ Injektiv(b.Kategorien)
      BY <1>1, WohlgeformtFelder DEF Gueltig
    <3>2. /\ Len(b.Unterkategorien) = Len(b.Kategorien)
          /\ \A k \in 1..Len(b.Unterkategorien) :
               b.Unterkategorien[k] \in Seq(UnterkategorieNamen)
      BY <1>1, RubrikTypen
    <3> QED BY <3>1, <3>2
  <2>2. \A k \in 1..Len(b.Unterkategorien) : RubrikGut(b.Unterkategorien[k], NamenVon(b)[k])
    BY <1>1 DEF Gut, RubrikenGut
  <2> QED BY <2>1, <2>2 DEF RubrikGut, OhneLeere, Eindeutig, NamenVon
<1>2. Init => RubrikInv
  BY GutLeer DEF Init, RubrikInv
<1>3. IInv /\ RubrikInv => RubrikenStimmig
  BY <1>1 DEF IInv, MenueInv, UebersichtInv, RubrikInv, RubrikenStimmig
<1> QED BY <1>2, <1>3, NextRubrik, SpecIInv, PTL DEF Spec


-----------------------------------------------------------------------------
(* Two sequences in step: their i-th elements are a pair of R.             *)

Paare(S, T, R) ==
  {z \in Seq(S) \X Seq(T) :
     Len(z[1]) = Len(z[2]) /\ \A i \in 1..Len(z[1]) : <<z[1][i], z[2][i]>> \in R}

LEMMA PaareLesen ==
  ASSUME NEW S, NEW T, NEW R, NEW a, NEW b
  PROVE  <<a, b>> \in Paare(S, T, R) <=>
           /\ a \in Seq(S) /\ b \in Seq(T) /\ Len(a) = Len(b)
           /\ \A i \in 1..Len(a) : <<a[i], b[i]>> \in R
  BY DEF Paare

LEMMA PaareLeer ==
  ASSUME NEW S, NEW T, NEW R
  PROVE  << <<>>, <<>> >> \in Paare(S, T, R)
<1>1. <<>> \in Seq(S) /\ <<>> \in Seq(T) /\ Len(<<>>) = 0
  OBVIOUS
<1>2. \A i \in 1..0 : <<<<>>[i], <<>>[i]>> \in R
  OBVIOUS
<1> QED BY <1>1, <1>2, PaareLesen

LEMMA PaareEins ==
  ASSUME NEW S, NEW T, NEW R, NEW x \in S, NEW y \in T, <<x, y>> \in R
  PROVE  << <<x>>, <<y>> >> \in Paare(S, T, R)
  BY DEF Paare

LEMMA PaareAppend ==
  ASSUME NEW S, NEW T, NEW R, NEW a, NEW b, <<a, b>> \in Paare(S, T, R),
         NEW x \in S, NEW y \in T, <<x, y>> \in R
  PROVE  <<Append(a, x), Append(b, y)>> \in Paare(S, T, R)
<1>1. /\ a \in Seq(S) /\ b \in Seq(T) /\ Len(a) = Len(b)
      /\ \A i \in 1..Len(a) : <<a[i], b[i]>> \in R
  BY PaareLesen
<1>2. /\ Append(a, x) \in Seq(S) /\ Append(b, y) \in Seq(T)
      /\ Len(Append(a, x)) = Len(a) + 1 /\ Len(Append(b, y)) = Len(a) + 1
      /\ \A i \in 1..Len(a) : Append(a, x)[i] = a[i] /\ Append(b, y)[i] = b[i]
      /\ Append(a, x)[Len(a) + 1] = x /\ Append(b, y)[Len(a) + 1] = y
  BY <1>1, AppendFolge
<1>3. \A i \in 1..(Len(a) + 1) : i = Len(a) + 1 \/ i \in 1..Len(a)
  BY <1>1, BisNachfolger
<1>4. \A i \in 1..(Len(a) + 1) : <<Append(a, x)[i], Append(b, y)[i]>> \in R
  BY <1>1, <1>2, <1>3
<1> QED BY <1>2, <1>4, PaareLesen

LEMMA PaareExcept ==
  ASSUME NEW S, NEW T, NEW R, NEW a, NEW b, <<a, b>> \in Paare(S, T, R),
         NEW k \in 1..Len(a), NEW x \in S, NEW y \in T, <<x, y>> \in R
  PROVE  <<[a EXCEPT ![k] = x], [b EXCEPT ![k] = y]>> \in Paare(S, T, R)
<1> DEFINE aa == [a EXCEPT ![k] = x]
           bb == [b EXCEPT ![k] = y]
<1>1. /\ a \in Seq(S) /\ b \in Seq(T) /\ Len(a) = Len(b)
      /\ \A i \in 1..Len(a) : <<a[i], b[i]>> \in R
  BY PaareLesen
<1>2. /\ aa \in Seq(S) /\ bb \in Seq(T) /\ Len(aa) = Len(a) /\ Len(bb) = Len(a)
      /\ aa[k] = x /\ bb[k] = y
      /\ \A i \in 1..Len(a) : i # k => aa[i] = a[i] /\ bb[i] = b[i]
  BY <1>1, ExceptFolge
<1> HIDE DEF aa, bb
<1>3. \A i \in 1..Len(aa) : <<aa[i], bb[i]>> \in R
  BY <1>1, <1>2
<1>4. <<aa, bb>> \in Paare(S, T, R)
  BY <1>2, <1>3, PaareLesen
<1> QED BY <1>4 DEF aa, bb

LEMMA PaareRemoveAt ==
  ASSUME NEW S, NEW T, NEW R, NEW a, NEW b, <<a, b>> \in Paare(S, T, R),
         NEW k \in 1..Len(a)
  PROVE  <<RemoveAt(a, k), RemoveAt(b, k)>> \in Paare(S, T, R)
<1> DEFINE aa == RemoveAt(a, k)
           bb == RemoveAt(b, k)
<1>1. /\ a \in Seq(S) /\ b \in Seq(T) /\ Len(a) = Len(b) /\ Len(a) \in Nat
      /\ \A i \in 1..Len(a) : <<a[i], b[i]>> \in R
  BY PaareLesen
<1>2. /\ aa \in Seq(S) /\ bb \in Seq(T) /\ Len(aa) = Len(a) - 1 /\ Len(bb) = Len(a) - 1
      /\ \A i \in 1..(k - 1) : aa[i] = a[i] /\ bb[i] = b[i]
      /\ \A i \in k..(Len(a) - 1) : aa[i] = a[i + 1] /\ bb[i] = b[i + 1]
  BY <1>1, RemoveAtFolge
<1> HIDE DEF aa, bb
<1>3. ASSUME NEW i \in 1..(Len(a) - 1) PROVE <<aa[i], bb[i]>> \in R
  <2>1. CASE i < k
    <3>1. i \in 1..(k - 1) /\ i \in 1..Len(a)
      BY <1>1, <2>1
    <3> QED BY <1>1, <1>2, <3>1
  <2>2. CASE i >= k
    <3>1. i \in k..(Len(a) - 1) /\ i + 1 \in 1..Len(a)
      BY <1>1, <2>2
    <3> QED BY <1>1, <1>2, <3>1
  <2> QED BY <1>1, <2>1, <2>2
<1>4. <<aa, bb>> \in Paare(S, T, R)
  BY <1>2, <1>3, PaareLesen
<1> QED BY <1>4 DEF aa, bb

-----------------------------------------------------------------------------
(* Extras: those chosen in the popup, those of a line, of the lines of an  *)
(* Unterkategorie, of a Kategorie, and of the whole order.                 *)

Namen == {x.name : x \in Extra} \cup {KeineExtras}
Preise == {x.preis : x \in Extra} \cup {0}

NN == Seq(Namen)
PP == Seq(Preise)

Extrapaare == {<<x.name, x.preis>> : x \in Extra}

Auswahl(e) ==
  /\ <<e.extrasNamen, e.extrasPreise>> \in Paare(Namen, Preise, Extrapaare)
  /\ Injektiv(e.extrasNamen)

Zeilenpaare ==
  {z \in Paare(Namen, Preise, Extrapaare \cup {<<KeineExtras, 0>>}) :
     z[1] # <<>> /\ Injektiv(z[1])}

Listenpaare == Paare(NN, PP, Zeilenpaare)

Rubrikpaare == Paare(Seq(NN), Seq(PP), Listenpaare)

ExtrasVonBestellung(b) == b.felder["ExtrasName"]
PreiseVonBestellung(b) == b.felder["ExtrasPreise"]

Gepaart(b) ==
  <<ExtrasVonBestellung(b), PreiseVonBestellung(b)>>
    \in Paare(Seq(Seq(NN)), Seq(Seq(PP)), Rubrikpaare)

LEMMA ExtrasFelder == "ExtrasName" \in Felder /\ "ExtrasPreise" \in Felder
  BY DEF Felder

LEMMA GepaartLeer == Gepaart(LeereBestellung)
  BY ExtrasFelder, PaareLeer
     DEF Gepaart, ExtrasVonBestellung, PreiseVonBestellung, LeereBestellung

\* Only these two arrays matter.
LEMMA GepaartGleich ==
  ASSUME NEW a, NEW b, Gepaart(b),
         ExtrasVonBestellung(a) = ExtrasVonBestellung(b),
         PreiseVonBestellung(a) = PreiseVonBestellung(b)
  PROVE  Gepaart(a)
  BY DEF Gepaart

\* What is in step at each level.
LEMMA GepaartLesen ==
  ASSUME NEW b, Gepaart(b), NEW k \in 1..Len(ExtrasVonBestellung(b))
  PROVE  /\ ExtrasVonBestellung(b)[k] \in Seq(Seq(NN))
         /\ PreiseVonBestellung(b)[k] \in Seq(Seq(PP))
         /\ <<ExtrasVonBestellung(b)[k], PreiseVonBestellung(b)[k]>> \in Rubrikpaare
         /\ \A u \in 1..Len(ExtrasVonBestellung(b)[k]) :
              /\ ExtrasVonBestellung(b)[k][u] \in Seq(NN)
              /\ PreiseVonBestellung(b)[k][u] \in Seq(PP)
              /\ <<ExtrasVonBestellung(b)[k][u], PreiseVonBestellung(b)[k][u]>> \in Listenpaare
<1> DEFINE n == ExtrasVonBestellung(b)[k]
           p == PreiseVonBestellung(b)[k]
<1>1. <<n, p>> \in Rubrikpaare
  BY PaareLesen DEF Gepaart
<1>2. /\ n \in Seq(Seq(NN)) /\ p \in Seq(Seq(PP)) /\ Len(n) = Len(p)
      /\ \A u \in 1..Len(n) : <<n[u], p[u]>> \in Listenpaare
  BY <1>1, PaareLesen DEF Rubrikpaare
<1> HIDE DEF n, p
<1>3. \A u \in 1..Len(n) : n[u] \in Seq(NN) /\ p[u] \in Seq(PP)
  BY <1>2, PaareLesen DEF Listenpaare
<1> QED BY <1>1, <1>2, <1>3 DEF n, p

\* The extras of an array are as many as its lines.
LEMMA ExtrasIndizes ==
  ASSUME NEW b, Gueltig(b)
  PROVE  /\ Len(b.Unterkategorien) = Len(b.Kategorien)
         /\ Len(ExtrasVonBestellung(b)) = Len(b.Unterkategorien)
         /\ \A k \in 1..Len(b.Unterkategorien) :
              /\ b.Unterkategorien[k] \in Seq(UnterkategorieNamen)
              /\ Len(ExtrasVonBestellung(b)[k]) = Len(b.Unterkategorien[k])
              /\ GleichLang(ExtrasVonBestellung(b)[k], b.felder["ItemsNamen"][k])
<1>1. /\ Len(b.Unterkategorien) = Len(b.Kategorien)
      /\ b.Unterkategorien \in Seq(Seq(UnterkategorieNamen))
      /\ Feld(ExtrasVonBestellung(b), b.felder["ItemsNamen"], b.Unterkategorien,
              IWerte["ExtrasName"])
  BY WohlgeformtFelder, ExtrasFelder DEF Gueltig, ExtrasVonBestellung
<1>2. \A k \in 1..Len(b.Unterkategorien) : b.Unterkategorien[k] \in Seq(UnterkategorieNamen)
  BY <1>1
<1>3. /\ GleichLang(ExtrasVonBestellung(b), b.Unterkategorien)
      /\ \A k \in 1..Len(b.Unterkategorien) :
           GleichLang(ExtrasVonBestellung(b)[k], b.felder["ItemsNamen"][k])
  BY <1>1 DEF Feld
<1> QED BY <1>1, <1>2, <1>3 DEF GleichLang

-----------------------------------------------------------------------------
(* The operations on the arrays b.                                          *)

LEMMA GepaartMitZeile ==
  ASSUME NEW b, Gueltig(b), Gepaart(b), NEW kat \in KategorieNamen,
         NEW ukat \in UnterkategorieNamen, NEW w,
         w["ExtrasName"] \in NN, w["ExtrasPreise"] \in PP,
         <<w["ExtrasName"], w["ExtrasPreise"]>> \in Zeilenpaare
  PROVE  Gepaart(MitZeile(b, kat, ukat, w))
<1> DEFINE N == ExtrasVonBestellung(b)
           P == PreiseVonBestellung(b)
           C == b.Unterkategorien
           k == firstIndex(b.Kategorien, kat)
           u == firstIndex(C[k], ukat)
           x == w["ExtrasName"]
           y == w["ExtrasPreise"]
           B == MitZeile(b, kat, ukat, w)
           S == Seq(Seq(NN))
           T == Seq(Seq(PP))
<1>1. /\ <<N, P>> \in Paare(S, T, Rubrikpaare)
      /\ x \in NN /\ y \in PP /\ <<x, y>> \in Zeilenpaare
  BY DEF Gepaart
<1>2. b.Kategorien \in Seq(KategorieNamen) /\ Len(C) = Len(b.Kategorien) /\ Len(N) = Len(C)
  BY WohlgeformtFelder, ExtrasIndizes DEF Gueltig
<1>3. SUFFICES \E n \in S, p \in T :
         /\ <<n, p>> \in Rubrikpaare
         /\ \/ ExtrasVonBestellung(B) = Append(N, n) /\ PreiseVonBestellung(B) = Append(P, p)
            \/ /\ k \in 1..Len(N)
               /\ ExtrasVonBestellung(B) = [N EXCEPT ![k] = n]
               /\ PreiseVonBestellung(B) = [P EXCEPT ![k] = p]
  <2> HIDE DEF N, P, k, B, S, T
  <2>1. PICK n \in S, p \in T :
         /\ <<n, p>> \in Rubrikpaare
         /\ \/ ExtrasVonBestellung(B) = Append(N, n) /\ PreiseVonBestellung(B) = Append(P, p)
            \/ /\ k \in 1..Len(N)
               /\ ExtrasVonBestellung(B) = [N EXCEPT ![k] = n]
               /\ PreiseVonBestellung(B) = [P EXCEPT ![k] = p]
    BY <1>3
  <2>2. <<ExtrasVonBestellung(B), PreiseVonBestellung(B)>> \in Paare(S, T, Rubrikpaare)
    <3>1. CASE ExtrasVonBestellung(B) = Append(N, n) /\ PreiseVonBestellung(B) = Append(P, p)
      <4>1. <<Append(N, n), Append(P, p)>> \in Paare(S, T, Rubrikpaare)
        BY <1>1, <2>1, PaareAppend
      <4> QED BY <3>1, <4>1
    <3>2. CASE /\ k \in 1..Len(N)
               /\ ExtrasVonBestellung(B) = [N EXCEPT ![k] = n]
               /\ PreiseVonBestellung(B) = [P EXCEPT ![k] = p]
      <4>1. <<[N EXCEPT ![k] = n], [P EXCEPT ![k] = p]>> \in Paare(S, T, Rubrikpaare)
        BY <1>1, <2>1, <3>2, PaareExcept
      <4> QED BY <3>2, <4>1
    <3> QED BY <2>1, <3>1, <3>2
  <2> QED BY <2>2 DEF Gepaart, B, S, T
<1>4. << <<x>>, <<y>> >> \in Listenpaare /\ <<x>> \in Seq(NN) /\ <<y>> \in Seq(PP)
  <2> HIDE DEF x, y
  <2> QED BY <1>1, PaareEins, EineZeile DEF Listenpaare
<1>5. CASE ~Contains(b.Kategorien, kat)
  <2>1. /\ ExtrasVonBestellung(B) = Append(N, <<<<x>>>>)
        /\ PreiseVonBestellung(B) = Append(P, <<<<y>>>>)
    BY <1>5, ExtrasFelder DEF MitZeile, NeueKategorie, ExtrasVonBestellung, PreiseVonBestellung
  <2>2. << <<<<x>>>>, <<<<y>>>> >> \in Rubrikpaare /\ <<<<x>>>> \in S /\ <<<<y>>>> \in T
    <3> HIDE DEF x, y
    <3> QED BY <1>1, <1>4, PaareEins, EineZeile DEF Rubrikpaare
  <2> QED BY <2>1, <2>2
<1>6. CASE Contains(b.Kategorien, kat)
  <2>1. k \in 1..Len(N)
    BY <1>2, <1>6, FirstIndex
  <2> DEFINE n == N[k]
             p == P[k]
  <2>2. /\ n \in S /\ p \in T /\ <<n, p>> \in Rubrikpaare
        /\ \A i \in 1..Len(n) : n[i] \in Seq(NN) /\ p[i] \in Seq(PP) /\ <<n[i], p[i]>> \in Listenpaare
    BY <2>1, GepaartLesen
  <2>3. C[k] \in Seq(UnterkategorieNamen) /\ Len(n) = Len(C[k])
    BY <1>2, <2>1, ExtrasIndizes
  <2>4. CASE ~Contains(C[k], ukat)
    <3>1. /\ ExtrasVonBestellung(B) = [N EXCEPT ![k] = Append(n, <<x>>)]
          /\ PreiseVonBestellung(B) = [P EXCEPT ![k] = Append(p, <<y>>)]
      BY <1>6, <2>4, ExtrasFelder
         DEF MitZeile, NeueUnterkategorie, ExtrasVonBestellung, PreiseVonBestellung
    <3> HIDE DEF n, p, x, y
    <3>2. <<Append(n, <<x>>), Append(p, <<y>>)>> \in Rubrikpaare
      BY <1>4, <2>2, PaareAppend DEF Rubrikpaare
    <3>3. Append(n, <<x>>) \in S /\ Append(p, <<y>>) \in T
      BY <3>2, PaareLesen DEF Rubrikpaare
    <3> HIDE DEF N, P, k, S, T, B
    <3> QED BY <2>1, <3>1, <3>2, <3>3
  <2>5. CASE Contains(C[k], ukat)
    <3>1. u \in 1..Len(n)
      BY <2>3, <2>5, FirstIndex
    <3> DEFINE nn == [n EXCEPT ![u] = Append(n[u], x)]
               pp == [p EXCEPT ![u] = Append(p[u], y)]
    <3>2. /\ ExtrasVonBestellung(B) = [N EXCEPT ![k] = nn]
          /\ PreiseVonBestellung(B) = [P EXCEPT ![k] = pp]
      <4> DEFINE F == [f \in Felder |-> [b.felder[f] EXCEPT ![k][u] = Append(@, w[f])]]
      <4>0. B = NeueZeile(b, k, u, w)
        BY <1>6, <2>5 DEF MitZeile
      <4>1. B = [b EXCEPT !.felder = F]
        BY <4>0 DEF NeueZeile
      <4>2. b = [Kategorien |-> b.Kategorien, Unterkategorien |-> b.Unterkategorien,
                 Expanded2 |-> b.Expanded2, felder |-> b.felder]
        BY WohlgeformtFelder DEF Gueltig
      <4>3. F["ExtrasName"] = [N EXCEPT ![k] = nn] /\ F["ExtrasPreise"] = [P EXCEPT ![k] = pp]
        BY ExtrasFelder DEF ExtrasVonBestellung, PreiseVonBestellung
      <4> HIDE DEF F, B, N, P, nn, pp, k
      <4>4. B.felder = F
        BY <4>1, <4>2, FelderErsetzen
      <4> QED BY <4>3, <4>4 DEF ExtrasVonBestellung, PreiseVonBestellung
    <3>3. <<Append(n[u], x), Append(p[u], y)>> \in Listenpaare
      <4> HIDE DEF n, p, x, y, u
      <4> QED BY <1>1, <2>2, <3>1, PaareAppend DEF Listenpaare
    <3>4. Append(n[u], x) \in Seq(NN) /\ Append(p[u], y) \in Seq(PP)
      <4> HIDE DEF n, p, x, y, u
      <4> QED BY <3>3, PaareLesen DEF Listenpaare
    <3>5. <<nn, pp>> \in Rubrikpaare
      <4> HIDE DEF n, p, x, y, u
      <4> QED BY <2>2, <3>1, <3>3, <3>4, PaareExcept DEF Rubrikpaare
    <3> HIDE DEF nn, pp
    <3>6. nn \in S /\ pp \in T
      BY <3>5, PaareLesen DEF Rubrikpaare
    <3> HIDE DEF N, P, k, S, T, B
    <3> QED BY <2>1, <3>2, <3>5, <3>6
  <2> QED BY <2>4, <2>5
<1> QED BY <1>5, <1>6

\* The k-th Kategorie gets other lists.
LEMMA GepaartExcept ==
  ASSUME NEW b, Gepaart(b), NEW B, NEW k \in 1..Len(ExtrasVonBestellung(b)),
         NEW n, NEW p, <<n, p>> \in Rubrikpaare,
         ExtrasVonBestellung(B) = [ExtrasVonBestellung(b) EXCEPT ![k] = n],
         PreiseVonBestellung(B) = [PreiseVonBestellung(b) EXCEPT ![k] = p]
  PROVE  Gepaart(B)
<1>1. n \in Seq(Seq(NN)) /\ p \in Seq(Seq(PP))
  BY PaareLesen DEF Rubrikpaare
<1> QED BY <1>1, PaareExcept DEF Gepaart

LEMMA GepaartOhneUnterkategorie ==
  ASSUME NEW b, Gueltig(b), Gepaart(b), NEW k \in 1..Len(b.Unterkategorien),
         NEW u \in 1..Len(b.Unterkategorien[k])
  PROVE  Gepaart(OhneUnterkategorie(b, k, u))
<1> DEFINE n == ExtrasVonBestellung(b)[k]
           p == PreiseVonBestellung(b)[k]
           B == OhneUnterkategorie(b, k, u)
<1>1. k \in 1..Len(ExtrasVonBestellung(b)) /\ u \in 1..Len(n)
  BY ExtrasIndizes
<1>2. <<n, p>> \in Rubrikpaare
  BY <1>1, GepaartLesen
<1>3. /\ ExtrasVonBestellung(B) = [ExtrasVonBestellung(b) EXCEPT ![k] = RemoveAt(n, u)]
      /\ PreiseVonBestellung(B) = [PreiseVonBestellung(b) EXCEPT ![k] = RemoveAt(p, u)]
  BY ExtrasFelder DEF OhneUnterkategorie, ExtrasVonBestellung, PreiseVonBestellung
<1> HIDE DEF n, p, B
<1>4. <<RemoveAt(n, u), RemoveAt(p, u)>> \in Rubrikpaare
  BY <1>1, <1>2, PaareRemoveAt DEF Rubrikpaare
<1>5. Gepaart(B)
  BY <1>1, <1>3, <1>4, GepaartExcept
<1> QED BY <1>5 DEF B

LEMMA GepaartOhneKategorie ==
  ASSUME NEW b, Gueltig(b), Gepaart(b), NEW k \in 1..Len(b.Unterkategorien)
  PROVE  Gepaart(OhneKategorie(b, k))
<1>1. k \in 1..Len(ExtrasVonBestellung(b))
  BY ExtrasIndizes
<1>2. /\ ExtrasVonBestellung(OhneKategorie(b, k)) = RemoveAt(ExtrasVonBestellung(b), k)
      /\ PreiseVonBestellung(OhneKategorie(b, k)) = RemoveAt(PreiseVonBestellung(b), k)
  BY ExtrasFelder DEF OhneKategorie, ExtrasVonBestellung, PreiseVonBestellung
<1> QED BY <1>1, <1>2, PaareRemoveAt DEF Gepaart

-----------------------------------------------------------------------------
(* The popup: its selection, and the line that is read off it.             *)

LEMMA AuswahlLeer == \A e : e.extrasNamen = <<>> /\ e.extrasPreise = <<>> => Auswahl(e)
  BY PaareLeer DEF Auswahl, Injektiv

LEMMA AuswahlGleich ==
  ASSUME NEW e, Auswahl(e), NEW d, d.extrasNamen = e.extrasNamen, d.extrasPreise = e.extrasPreise
  PROVE  Auswahl(d)
  BY DEF Auswahl

\* Selecting and deselecting.
LEMMA AuswahlSelectExtra ==
  ASSUME entwurf \in EntwurfTyp, Auswahl(entwurf), selectExtra
  PROVE  Auswahl(entwurf')
<1> DEFINE x == ExtrasVon[entwurf.Kategorie][1]
           namen == entwurf.extrasNamen
           preise == entwurf.extrasPreise
           n == firstIndex(namen, x.name)
<1>1. /\ <<namen, preise>> \in Paare(Namen, Preise, Extrapaare) /\ Injektiv(namen)
      /\ namen \in Seq(Namen) /\ preise \in Seq(Preise)
  BY PaareLesen DEF Auswahl
<1>2. x.name \in Namen /\ x.preis \in Preise /\ <<x.name, x.preis>> \in Extrapaare
  <2>1. entwurf.Kategorie \in DOMAIN ExtrasVon
    BY DEF selectExtra
  <2>2. ExtrasVon[entwurf.Kategorie] \in Seq(Extra) /\ ExtrasVon[entwurf.Kategorie] # <<>>
    BY <2>1, ExtrasAssumption DEF ExtrasAssumption
  <2>3. x \in Extra
    BY <2>2
  <2> QED BY <2>3 DEF Namen, Preise, Extrapaare
<1>3. entwurf' = IF Contains(namen, x.name) THEN OhneExtra(entwurf, x.name)
                 ELSE MitExtra(entwurf, x)
  BY DEF selectExtra
<1> HIDE DEF x
<1>4. CASE Contains(namen, x.name)
  <2>1. n \in 1..Len(namen)
    BY <1>1, <1>4, FirstIndex
  <2>2. entwurf'.extrasNamen = RemoveAt(namen, n) /\ entwurf'.extrasPreise = RemoveAt(preise, n)
    BY <1>3, <1>4 DEF OhneExtra, EntwurfTyp
  <2> HIDE DEF namen, preise, n
  <2>3. /\ <<RemoveAt(namen, n), RemoveAt(preise, n)>> \in Paare(Namen, Preise, Extrapaare)
        /\ Injektiv(RemoveAt(namen, n))
    BY <1>1, <2>1, PaareRemoveAt, InjektivRemoveAt
  <2> QED BY <2>2, <2>3 DEF Auswahl
<1>5. CASE ~Contains(namen, x.name)
  <2>1. /\ entwurf'.extrasNamen = Append(namen, x.name)
        /\ entwurf'.extrasPreise = Append(preise, x.preis)
    BY <1>3, <1>5 DEF MitExtra, EntwurfTyp
  <2> HIDE DEF namen, preise
  <2>2. /\ <<Append(namen, x.name), Append(preise, x.preis)>> \in Paare(Namen, Preise, Extrapaare)
        /\ Injektiv(Append(namen, x.name))
    BY <1>1, <1>2, <1>5, PaareAppend, InjektivAppend
  <2> QED BY <2>1, <2>2 DEF Auswahl
<1> QED BY <1>4, <1>5

LEMMA ZeileGepaart ==
  ASSUME Auswahl(entwurf)
  PROVE  /\ Zeile(entwurf)["ExtrasName"] \in NN /\ Zeile(entwurf)["ExtrasPreise"] \in PP
         /\ <<Zeile(entwurf)["ExtrasName"], Zeile(entwurf)["ExtrasPreise"]>> \in Zeilenpaare
<1> DEFINE n == entwurf.extrasNamen
           p == entwurf.extrasPreise
           R == Extrapaare \cup {<<KeineExtras, 0>>}
<1>1. n \in NN /\ p \in PP /\ Injektiv(n) /\ <<n, p>> \in Paare(Namen, Preise, R)
  <2>1. <<n, p>> \in Paare(Namen, Preise, Extrapaare) /\ Injektiv(n)
    BY DEF Auswahl
  <2> HIDE DEF n, p
  <2> QED BY <2>1, PaareLesen DEF NN, PP
<1>2. KeineExtras \in Namen /\ 0 \in Preise
  BY DEF Namen, Preise
<1>3. /\ <<KeineExtras>> \in NN /\ <<0>> \in PP /\ Injektiv(<<KeineExtras>>)
      /\ << <<KeineExtras>>, <<0>> >> \in Paare(Namen, Preise, R)
  <2>1. <<KeineExtras>> \in NN /\ <<0>> \in PP
    BY <1>2 DEF NN, PP
  <2>2. Injektiv(<<KeineExtras>>)
    BY DEF Injektiv
  <2>3. <<KeineExtras, 0>> \in R
    OBVIOUS
  <2> HIDE DEF R
  <2> QED BY <1>2, <2>1, <2>2, <2>3, PaareEins
<1>4. CASE n = <<>>
  <2>1. Zeile(entwurf)["ExtrasName"] = <<KeineExtras>> /\ Zeile(entwurf)["ExtrasPreise"] = <<0>>
    BY <1>4 DEF Zeile
  <2>2. << <<KeineExtras>>, <<0>> >> \in Zeilenpaare
    BY <1>3 DEF Zeilenpaare
  <2> QED BY <1>3, <2>1, <2>2
<1>5. CASE n # <<>>
  <2>1. Zeile(entwurf)["ExtrasName"] = n /\ Zeile(entwurf)["ExtrasPreise"] = p
    BY <1>5 DEF Zeile
  <2>2. <<n, p>> \in Zeilenpaare
    BY <1>1, <1>5 DEF Zeilenpaare
  <2> QED BY <1>1, <2>1, <2>2
<1> QED BY <1>4, <1>5

-----------------------------------------------------------------------------
(* The steps.                                                               *)

PaareInv == Auswahl(entwurf) /\ Gepaart(bestellung) /\ Gepaart(uebersicht)

LEMMA NeueSitzungPaare == NeueSitzung => PaareInv'
  BY GepaartLeer, AuswahlLeer DEF NeueSitzung, PaareInv, LeererEntwurf

LEMMA UnveraendertPaare ==
  ASSUME PaareInv, UNCHANGED <<entwurf, bestellung, uebersicht>>
  PROVE  PaareInv'
  BY DEF PaareInv

\* The popup changes something else than the selection.
LEMMA EntwurfPaare ==
  ASSUME PaareInv, UNCHANGED <<bestellung, uebersicht>>,
         entwurf'.extrasNamen = entwurf.extrasNamen,
         entwurf'.extrasPreise = entwurf.extrasPreise
  PROVE  PaareInv'
  BY AuswahlGleich DEF PaareInv

LEMMA PopupPaare ==
  ASSUME IInv, PaareInv, Popup
  PROVE  PaareInv'
<1>0. entwurf \in EntwurfTyp
  BY DEF IInv, EntwurfInv
<1>1. ASSUME NEW t, NEW s, NEW s2, NEW r2, pass(t, s, s2, r2) PROVE PaareInv'
  <2>1. CASE Absturz
    BY <2>1, NeueSitzungPaare DEF Absturz
  <2>2. CASE ~Absturz
    BY <1>0, <1>1, <2>2, EntwurfPaare DEF pass, uebersichtVars, EntwurfTyp
  <2> QED BY <2>1, <2>2
<1>2. ASSUME NEW text, kommentarTippen(text) PROVE PaareInv'
  BY <1>0, <1>2, EntwurfPaare DEF kommentarTippen, uebersichtVars, EntwurfTyp
<1>3. CASE funcItemPlusTapped \/ funcItemMinusTapped \/ openExtras
  BY <1>0, <1>3, EntwurfPaare
     DEF funcItemPlusTapped, funcItemMinusTapped, openExtras, uebersichtVars, EntwurfTyp
<1>4. CASE closeExtras
  BY <1>0, <1>4, AuswahlLeer DEF closeExtras, uebersichtVars, EntwurfTyp, PaareInv
<1>5. CASE extrasHinzufuegen
  BY <1>5, UnveraendertPaare DEF extrasHinzufuegen, menueVars, uebersichtVars
<1>6. CASE selectExtra
  <2>1. UNCHANGED <<bestellung, uebersicht>>
    BY <1>6 DEF selectExtra, uebersichtVars
  <2> QED BY <1>0, <1>6, <2>1, AuswahlSelectExtra DEF PaareInv
<1>7. CASE aktualisierungAbbrechen
  BY <1>0, <1>7, EntwurfPaare
     DEF aktualisierungAbbrechen, Geschlossen, uebersichtVars, EntwurfTyp
<1>8. CASE dismissPopUp
  <2>1. CASE entwurf.i = 0
    <3>1. /\ entwurf' = [Geschlossen(entwurf) EXCEPT !.i = 1]
          /\ UNCHANGED <<bestellung, uebersicht>>
      BY <1>8, <2>1 DEF dismissPopUp, uebersichtVars
    <3>2. /\ entwurf'.extrasNamen = entwurf.extrasNamen
          /\ entwurf'.extrasPreise = entwurf.extrasPreise
      BY <1>0, <3>1 DEF Geschlossen, EntwurfTyp
    <3> QED BY <3>1, <3>2, EntwurfPaare
  <2>2. CASE entwurf.i # 0
    <3>1. /\ ansicht = "popup" /\ UNCHANGED uebersicht
          /\ bestellung' = MitZeile(bestellung, entwurf.Kategorie,
                                    entwurf.Unterkategorie, Zeile(entwurf))
          /\ entwurf' = [Geschlossen(entwurf) EXCEPT
               !.i = 1, !.extrasNamen = <<>>, !.extrasPreise = <<>>]
      BY <1>8, <2>2 DEF dismissPopUp, uebersichtVars
    <3>2. entwurf.Kategorie \in KategorieNamen /\ entwurf.Unterkategorie \in UnterkategorieNamen
      BY <3>1 DEF IInv, EntwurfInv
    <3>3. Gueltig(bestellung) /\ Gepaart(bestellung) /\ Auswahl(entwurf) /\ Gepaart(uebersicht)
      BY DEF IInv, MenueInv, PaareInv
    <3>4. Gepaart(bestellung')
      BY <3>1, <3>2, <3>3, ZeileGepaart, GepaartMitZeile
    <3>5. Auswahl(entwurf')
      BY <1>0, <3>1, AuswahlLeer DEF Geschlossen, EntwurfTyp
    <3> QED BY <3>1, <3>3, <3>4, <3>5 DEF PaareInv
  <2> QED BY <2>1, <2>2
<1> QED BY <1>1, <1>2, <1>3, <1>4, <1>5, <1>6, <1>7, <1>8 DEF Popup

\* The k-th section that the overview shows has the extras of its arrays.
LEMMA TippbarPaare ==
  ASSUME IInv, PaareInv, NEW k, NEW u, NEW r, Tippbar(k, u, r)
  PROVE  /\ Gueltig(uebersicht) /\ Gepaart(uebersicht)
         /\ k \in 1..Len(uebersicht.Unterkategorien)
         /\ u \in 1..Len(uebersicht.Unterkategorien[k])
         /\ k \in 1..Len(ExtrasVonBestellung(uebersicht))
         /\ u \in 1..Len(ExtrasVonBestellung(uebersicht)[k])
         /\ r \in 1..Len(ExtrasVonBestellung(uebersicht)[k][u])
         /\ dictionary[k].felder["ExtrasName"] = ExtrasVonBestellung(uebersicht)[k]
         /\ dictionary[k].felder["ExtrasPreise"] = PreiseVonBestellung(uebersicht)[k]
<1>1. Gueltig(uebersicht) /\ Gepaart(uebersicht)
  BY DEF IInv, UebersichtInv, PaareInv
<1>2. /\ k \in 1..Len(uebersicht.Kategorien) /\ Eintrag(dictionary[k], uebersicht, k, IWerte)
      /\ u \in 1..Len(uebersicht.Unterkategorien[k])
      /\ r \in 1..Len(dictionary[k].felder["ItemsNamen"][u])
  BY TippbarLesen
<1>3. /\ dictionary[k].felder["ItemsNamen"] = uebersicht.felder["ItemsNamen"][k]
      /\ dictionary[k].felder["ExtrasName"] = ExtrasVonBestellung(uebersicht)[k]
      /\ dictionary[k].felder["ExtrasPreise"] = PreiseVonBestellung(uebersicht)[k]
  BY <1>2 DEF Eintrag, OhneKommentar, Felder, ExtrasVonBestellung, PreiseVonBestellung
<1>4. /\ k \in 1..Len(uebersicht.Unterkategorien)
      /\ k \in 1..Len(ExtrasVonBestellung(uebersicht))
      /\ u \in 1..Len(ExtrasVonBestellung(uebersicht)[k])
      /\ GleichLang(ExtrasVonBestellung(uebersicht)[k], uebersicht.felder["ItemsNamen"][k])
  BY <1>1, <1>2, ExtrasIndizes
<1>5. r \in 1..Len(ExtrasVonBestellung(uebersicht)[k][u])
  BY <1>2, <1>3, <1>4 DEF GleichLang
<1> QED BY <1>1, <1>2, <1>3, <1>4, <1>5

LEMMA ZeileEntfernenPaare ==
  ASSUME IInv, PaareInv, NEW k, NEW u, NEW r, Tippbar(k, u, r), zeileEntfernen(k, u, r)
  PROVE  Gepaart(uebersicht')
<1> DEFINE n == ExtrasVonBestellung(uebersicht)[k]
           p == PreiseVonBestellung(uebersicht)[k]
           nn == [n EXCEPT ![u] = RemoveAt(n[u], r)]
           pp == [p EXCEPT ![u] = RemoveAt(p[u], r)]
           s == dictionary[k]
           h == ZeilenOhne(s, u, r)
<1>1. /\ Gepaart(uebersicht) /\ k \in 1..Len(ExtrasVonBestellung(uebersicht))
      /\ u \in 1..Len(n) /\ r \in 1..Len(n[u])
      /\ s.felder["ExtrasName"] = n /\ s.felder["ExtrasPreise"] = p
  BY TippbarPaare
<1>2. <<n, p>> \in Rubrikpaare /\ <<n[u], p[u]>> \in Listenpaare
  BY <1>1, GepaartLesen
<1>3. <<RemoveAt(n[u], r), RemoveAt(p[u], r)>> \in Listenpaare
  <2> HIDE DEF n, p
  <2> QED BY <1>1, <1>2, PaareRemoveAt DEF Listenpaare
<1>4. <<nn, pp>> \in Rubrikpaare
  <2> HIDE DEF n, p
  <2>1. RemoveAt(n[u], r) \in Seq(NN) /\ RemoveAt(p[u], r) \in Seq(PP)
    BY <1>3, PaareLesen DEF Listenpaare
  <2> QED BY <1>1, <1>2, <1>3, <2>1, PaareExcept DEF Rubrikpaare
<1>5. h["ExtrasName"] = nn /\ h["ExtrasPreise"] = pp
  BY <1>1, ExtrasFelder DEF ZeilenOhne
<1>6. uebersicht' = [uebersicht EXCEPT !.felder = [f \in Felder |->
        [uebersicht.felder[f] EXCEPT ![k] = [s EXCEPT !.felder = h].felder[f]]]]
  BY DEF zeileEntfernen, SectionUebernehmen
<1>7. [s EXCEPT !.felder = h].felder = h
  <2>1. s = [Kategorie |-> s.Kategorie, Unterkategorie |-> s.Unterkategorie,
             expanded2 |-> s.expanded2, felder |-> s.felder]
    BY TippbarLesen DEF IstSection
  <2> HIDE DEF s, h
  <2> QED BY <2>1
<1>8. uebersicht = [Kategorien |-> uebersicht.Kategorien,
                    Unterkategorien |-> uebersicht.Unterkategorien,
                    Expanded2 |-> uebersicht.Expanded2, felder |-> uebersicht.felder]
  BY WohlgeformtFelder DEF IInv, UebersichtInv, Gueltig
<1> HIDE DEF s, h, nn, pp, n, p
<1>9. uebersicht'.felder = [f \in Felder |-> [uebersicht.felder[f] EXCEPT ![k] = h[f]]]
  BY <1>6, <1>7, <1>8
<1>10. /\ ExtrasVonBestellung(uebersicht') = [ExtrasVonBestellung(uebersicht) EXCEPT ![k] = nn]
       /\ PreiseVonBestellung(uebersicht') = [PreiseVonBestellung(uebersicht) EXCEPT ![k] = pp]
  BY <1>5, <1>9, ExtrasFelder DEF ExtrasVonBestellung, PreiseVonBestellung
<1> QED BY <1>1, <1>4, <1>10, GepaartExcept

LEMMA ZeileGeaendertPaare ==
  ASSUME IInv, PaareInv, NEW k, NEW u, NEW r, ZeileGeaendert(k, u, r)
  PROVE  PaareInv'
<1>1. Tippbar(k, u, r) /\ UNCHANGED <<entwurf, bestellung>>
  BY DEF ZeileGeaendert, passItemEntfernen, passItemPlus, passItemMinus, mengeSetzen,
         kommentarBeginnen, menueVars
<1>2. SUFFICES Gepaart(uebersicht')
  BY <1>1 DEF PaareInv
<1>3. /\ Gueltig(uebersicht) /\ Gepaart(uebersicht)
      /\ k \in 1..Len(uebersicht.Unterkategorien)
      /\ u \in 1..Len(uebersicht.Unterkategorien[k])
  BY <1>1, TippbarPaare
<1>4. CASE zeileEntfernen(k, u, r)
  BY <1>1, <1>4, ZeileEntfernenPaare
<1>5. CASE unterkategorieEntfernen(k, u)
  BY <1>3, <1>5, GepaartOhneUnterkategorie DEF unterkategorieEntfernen
<1>6. CASE kategorieEntfernen(k, u)
  BY <1>3, <1>6, GepaartOhneKategorie DEF kategorieEntfernen
<1>7. ASSUME NEW m, mengeSetzen(k, u, r, m) PROVE Gepaart(uebersicht')
  <2>1. /\ ExtrasVonBestellung(uebersicht') = ExtrasVonBestellung(uebersicht)
        /\ PreiseVonBestellung(uebersicht') = PreiseVonBestellung(uebersicht)
    BY <1>7 DEF mengeSetzen, ExtrasVonBestellung, PreiseVonBestellung
  <2> QED BY <1>3, <2>1, GepaartGleich
<1>8. CASE kommentarBeginnen(k, u, r)
  BY <1>3, <1>8 DEF kommentarBeginnen
<1> QED BY <1>4, <1>5, <1>6, <1>7, <1>8
       DEF ZeileGeaendert, passItemEntfernen, passItemPlus, passItemMinus

LEMMA UebersichtPaare ==
  ASSUME IInv, PaareInv, Uebersicht
  PROVE  PaareInv'
<1>1. ASSUME NEW text, passKommentarAendern(text) PROVE PaareInv'
  <2>1. CASE Absturz
    BY <2>1, NeueSitzungPaare DEF Absturz
  <2>2. CASE ~Absturz
    <3> DEFINE k == bearbeitet.k  u == bearbeitet.u  r == bearbeitet.r
    <3>1. /\ uebersicht' = [uebersicht EXCEPT !.felder["ItemsKommentar"][k][u][r] = text]
          /\ UNCHANGED <<entwurf, bestellung>>
      BY <1>1, <2>2 DEF passKommentarAendern, menueVars
    <3> HIDE DEF k, u, r
    <3>2. /\ ExtrasVonBestellung(uebersicht') = ExtrasVonBestellung(uebersicht)
          /\ PreiseVonBestellung(uebersicht') = PreiseVonBestellung(uebersicht)
      BY <3>1 DEF ExtrasVonBestellung, PreiseVonBestellung
    <3>3. Gepaart(uebersicht')
      BY <3>2, GepaartGleich DEF PaareInv
    <3> QED BY <3>1, <3>3 DEF PaareInv
  <2> QED BY <2>1, <2>2
<1> QED BY <1>1, ZeileGeaendertPaare DEF Uebersicht

LEMMA NavigationPaare ==
  ASSUME PaareInv, Navigation
  PROVE  PaareInv'
<1>1. CASE bestellungPruefen
  BY <1>1 DEF bestellungPruefen, PaareInv
<1>2. CASE menueVerlassen \/ abgeschicktVerlassen \/ appStarten
  BY <1>2, NeueSitzungPaare DEF menueVerlassen, abgeschicktVerlassen, appStarten
<1>3. ASSUME uebersichtSchliessen PROVE PaareInv'
  BY <1>3, GepaartLeer DEF uebersichtSchliessen, PaareInv
<1>4. CASE abschicken \/ alertAbbrechen \/ alertAbschicken
  BY <1>4, UnveraendertPaare
     DEF abschicken, alertAbbrechen, alertAbschicken, menueVars, uebersichtVars
<1> QED BY <1>1, <1>2, <1>3, <1>4, NeueSitzungPaare
       DEF Navigation, zurueck, popNachLeer, abgeschicktVerlassen

LEMMA NextPaare == IInv /\ PaareInv /\ [Next]_vars => PaareInv'
<1> SUFFICES ASSUME IInv, PaareInv, [Next]_vars PROVE PaareInv'
  OBVIOUS
<1>1. CASE UNCHANGED vars
  BY <1>1, UnveraendertPaare DEF vars, menueVars, uebersichtVars
<1> QED BY <1>1, PopupPaare, UebersichtPaare, NavigationPaare DEF Next

\* At every line, the names and prices of its extras.
LEMMA PositionGepaart ==
  ASSUME NEW b, Gueltig(b), Gepaart(b), NEW z \in Positionen(b)
  PROVE  <<ExtrasVonBestellung(b)[z[1]][z[2]][z[3]],
           PreiseVonBestellung(b)[z[1]][z[2]][z[3]]>> \in Zeilenpaare
<1> DEFINE N == ExtrasVonBestellung(b)
           P == PreiseVonBestellung(b)
           M == b.felder["ItemsNamen"]
<1>1. PICK k \in DOMAIN b.Kategorien : \E u \in DOMAIN b.Unterkategorien[k] :
        \E r \in DOMAIN M[k][u] : z = <<k, u, r>>
  BY DEF Positionen
<1>2. PICK u \in DOMAIN b.Unterkategorien[k] : \E r \in DOMAIN M[k][u] : z = <<k, u, r>>
  BY <1>1
<1>3. PICK r \in DOMAIN M[k][u] : z = <<k, u, r>>
  BY <1>2
<1>4. /\ k \in 1..Len(b.Unterkategorien) /\ k \in 1..Len(N)
      /\ u \in 1..Len(N[k]) /\ GleichLang(N[k], M[k])
  <2>1. b.Kategorien \in Seq(KategorieNamen)
    BY WohlgeformtFelder DEF Gueltig
  <2>2. Len(b.Unterkategorien) = Len(b.Kategorien) /\ Len(N) = Len(b.Unterkategorien)
    BY ExtrasIndizes
  <2>3. k \in 1..Len(b.Unterkategorien) /\ k \in 1..Len(N)
    <3>1. DOMAIN b.Kategorien = 1..Len(b.Kategorien)
      BY <2>1
    <3> HIDE DEF N, M
    <3> QED BY <1>1, <2>2, <3>1
  <2>4. /\ b.Unterkategorien[k] \in Seq(UnterkategorieNamen)
        /\ Len(N[k]) = Len(b.Unterkategorien[k]) /\ GleichLang(N[k], M[k])
    BY <2>3, ExtrasIndizes
  <2>5. u \in 1..Len(N[k])
    <3>1. DOMAIN b.Unterkategorien[k] = 1..Len(b.Unterkategorien[k])
      BY <2>4
    <3> HIDE DEF N, M
    <3> QED BY <1>2, <2>4, <3>1
  <2> QED BY <2>3, <2>4, <2>5
<1>5. <<N[k][u], P[k][u]>> \in Listenpaare
  BY <1>4, GepaartLesen
<1>6. M[k][u] \in Seq(IWerte["ItemsNamen"])
  <2>1. /\ M \in Seq(Seq(Seq(IWerte["ItemsNamen"]))) /\ GleichLang(M, b.Unterkategorien)
    BY WohlgeformtFelder, ItemsNamenFelder DEF Gueltig, Feld
  <2>2. k \in 1..Len(M) /\ u \in 1..Len(M[k])
    BY <1>4, <2>1 DEF GleichLang
  <2> HIDE DEF M
  <2>3. M[k] \in Seq(Seq(IWerte["ItemsNamen"]))
    BY <2>1, <2>2
  <2> QED BY <2>2, <2>3
<1>7. r \in 1..Len(N[k][u])
  <2>1. Len(N[k][u]) = Len(M[k][u])
    BY <1>4 DEF GleichLang
  <2> QED BY <1>3, <1>6, <2>1
<1>8. <<N[k][u][r], P[k][u][r]>> \in Zeilenpaare
  <2> HIDE DEF N, P
  <2> QED BY <1>5, <1>7, PaareLesen DEF Listenpaare
<1> QED BY <1>3, <1>8

\* Whatever the guest selects, deselects, cancels, adds and removes, every line has
\* as many prices as extras, each price is that of its name, and no extra occurs
\* twice on a line: what handleBestellung relies on when it looks up each name.
THEOREM ExtrasBleibenGepaart == Spec => []ExtrasGepaart
<1>1. ASSUME NEW b, Gueltig(b), Gepaart(b), NEW z \in Positionen(b)
      PROVE  LET namen  == b.felder["ExtrasName"][z[1]][z[2]][z[3]]
                 preise == b.felder["ExtrasPreise"][z[1]][z[2]][z[3]] IN
             /\ namen # <<>> /\ Len(namen) = Len(preise) /\ Injektiv(namen)
             /\ \A n \in DOMAIN namen :
                  \/ \E x \in Extra : namen[n] = x.name /\ preise[n] = x.preis
                  \/ namen[n] = KeineExtras /\ preise[n] = 0
  <2> DEFINE namen == b.felder["ExtrasName"][z[1]][z[2]][z[3]]
             preise == b.felder["ExtrasPreise"][z[1]][z[2]][z[3]]
  <2>1. <<namen, preise>> \in Zeilenpaare
    BY <1>1, PositionGepaart DEF ExtrasVonBestellung, PreiseVonBestellung
  <2> HIDE DEF namen, preise
  <2>2. /\ namen # <<>> /\ Injektiv(namen)
        /\ <<namen, preise>> \in Paare(Namen, Preise, Extrapaare \cup {<<KeineExtras, 0>>})
    BY <2>1 DEF Zeilenpaare
  <2>3. /\ namen \in Seq(Namen) /\ Len(namen) = Len(preise)
        /\ \A n \in 1..Len(namen) :
             <<namen[n], preise[n]>> \in Extrapaare \cup {<<KeineExtras, 0>>}
    BY <2>2, PaareLesen
  <2>4. \A n \in DOMAIN namen :
          \/ \E x \in Extra : namen[n] = x.name /\ preise[n] = x.preis
          \/ namen[n] = KeineExtras /\ preise[n] = 0
    BY <2>3 DEF Extrapaare
  <2>5. /\ namen # <<>> /\ Len(namen) = Len(preise) /\ Injektiv(namen)
        /\ \A n \in DOMAIN namen :
             \/ \E x \in Extra : namen[n] = x.name /\ preise[n] = x.preis
             \/ namen[n] = KeineExtras /\ preise[n] = 0
    BY <2>2, <2>3, <2>4
  <2> QED BY <2>5 DEF namen, preise
<1>2. Init => PaareInv
  BY GepaartLeer, AuswahlLeer DEF Init, PaareInv, LeererEntwurf
<1>3. IInv /\ PaareInv => ExtrasGepaart
  BY <1>1 DEF IInv, MenueInv, UebersichtInv, PaareInv, ExtrasGepaart
<1> QED BY <1>2, <1>3, NextPaare, SpecIInv, PTL DEF Spec

-----------------------------------------------------------------------------
(* The hand-over to handleBestellung.                                      *)

LEMMA FolgeVonFolgen ==
  ASSUME NEW S, NEW s \in Seq(Seq(S))
  PROVE  s \in Seq(Seq(UNION {ToSet(z) : z \in ToSet(s)}))
<1> DEFINE T == UNION {ToSet(z) : z \in ToSet(s)}
<1>1. \A k \in 1..Len(s) : s[k] \in Seq(T)
  <2> TAKE k \in 1..Len(s)
  <2>1. s[k] \in Seq(S) /\ s[k] \in ToSet(s)
    BY DEF ToSet
  <2>2. \A r \in 1..Len(s[k]) : s[k][r] \in ToSet(s[k])
    BY <2>1 DEF ToSet
  <2>3. \A r \in 1..Len(s[k]) : s[k][r] \in T
    BY <2>1, <2>2
  <2> DEFINE z == s[k]
  <2>4. z \in Seq(S) /\ \A r \in 1..Len(z) : z[r] \in T
    BY <2>1, <2>3
  <2> HIDE DEF T, z
  <2>5. z \in Seq(T)
    BY <2>4
  <2> QED BY <2>5 DEF z
<1> HIDE DEF T
<1>2. s \in Seq(Seq(T))
  BY <1>1
<1> QED BY <1>2 DEF T

\* The dictionary of the overview can be sent at any time.
LEMMA DictionaryVersendbar ==
  ASSUME IInv, RubrikInv, PaareInv
  PROVE  Versendbar(dictionary)
<1> DEFINE d == dictionary
           b == uebersicht
<1>1. /\ Gueltig(b) /\ Gut(b) /\ Gepaart(b)
      /\ Spiegel(d, b, KategorieNamen, UnterkategorieNamen, IWerte)
  BY DEF IInv, UebersichtInv, RubrikInv, PaareInv
<1> HIDE DEF d, b
<1>2. /\ d \in Seq(ToSet(d)) /\ Len(d) = Len(b.Kategorien)
      /\ \A k \in 1..Len(d) : Eintrag(d[k], b, k, IWerte)
  BY <1>1, DictionaryLesen
<1>3. b.Kategorien \in Seq(KategorieNamen) /\ Injektiv(b.Kategorien)
  BY <1>1, WohlgeformtFelder DEF Gueltig
<1>4. Injektiv([k \in DOMAIN d |-> d[k].Kategorie])
  <2>1. \A k \in DOMAIN d : d[k].Kategorie = b.Kategorien[k] /\ k \in DOMAIN b.Kategorien
    BY <1>2, <1>3 DEF Eintrag
  <2> QED BY <1>3, <2>1 DEF Injektiv
<1>5. ASSUME NEW k \in 1..Len(d)
      PROVE  SectionVersendbar(d[k])
  <2> DEFINE s == d[k]
             N == s.felder["ItemsNamen"]
             W == IWerte["ItemsNamen"]
  <2>1. /\ k \in 1..Len(b.Kategorien) /\ s.Unterkategorie = b.Unterkategorien[k]
        /\ Listen(s.felder, b.Unterkategorien[k], IWerte)
        /\ \A f \in OhneKommentar : s.felder[f] = b.felder[f][k]
    BY <1>2 DEF Eintrag
  <2>2. /\ k \in 1..Len(b.Unterkategorien)
        /\ b.Unterkategorien[k] \in Seq(UnterkategorieNamen)
    BY <1>1, <2>1, KategorieLesen DEF Gueltig
  <2>3. /\ N = b.felder["ItemsNamen"][k]
        /\ s.felder["ExtrasName"] = b.felder["ExtrasName"][k]
        /\ s.felder["ExtrasPreise"] = b.felder["ExtrasPreise"][k]
    BY <2>1 DEF OhneKommentar, Felder
  <2>4. /\ N \in Seq(Seq(W)) /\ Len(N) = Len(s.Unterkategorie)
        /\ \A f \in Felder : GleichLang(s.felder[f], N)
    BY <2>1, ItemsNamenFelder DEF Listen
  <2>5. /\ Injektiv(s.Unterkategorie) /\ s.Unterkategorie # <<>>
        /\ \A u \in DOMAIN s.Unterkategorie : N[u] # <<>>
    <3>1. RubrikGut(b.Unterkategorien[k], N)
      BY <1>1, <2>2, <2>3 DEF Gut, RubrikenGut, NamenVon
    <3>2. \A u \in DOMAIN b.Unterkategorien[k] : u \in 1..Len(b.Unterkategorien[k])
      BY <2>2
    <3> QED BY <2>1, <3>1, <3>2 DEF RubrikGut
  <2>6. ASSUME NEW u \in DOMAIN N, NEW r \in DOMAIN N[u]
        PROVE  ExtrasVersendbar(s.felder["ExtrasName"][u][r], s.felder["ExtrasPreise"][u][r])
    <3> DEFINE namen == b.felder["ExtrasName"][k][u][r]
               preise == b.felder["ExtrasPreise"][k][u][r]
    <3>1. /\ k \in DOMAIN b.Kategorien /\ u \in DOMAIN b.Unterkategorien[k]
          /\ r \in DOMAIN b.felder["ItemsNamen"][k][u]
      <4>1. u \in 1..Len(N)
        BY <2>4
      <4> QED BY <1>3, <2>1, <2>2, <2>3, <2>4, <2>6, <4>1
    <3> DEFINE z == <<k, u, r>>
    <3>2. z \in Positionen(b)
      BY <3>1 DEF Positionen
    <3>3. z[1] = k /\ z[2] = u /\ z[3] = r
      OBVIOUS
    <3> HIDE DEF z
    <3>4. <<namen, preise>> \in Zeilenpaare
      BY <1>1, <3>2, <3>3, PositionGepaart DEF ExtrasVonBestellung, PreiseVonBestellung
    <3> HIDE DEF namen, preise
    <3>5. /\ namen # <<>> /\ Injektiv(namen)
          /\ <<namen, preise>> \in Paare(Namen, Preise, Extrapaare \cup {<<KeineExtras, 0>>})
      BY <3>4 DEF Zeilenpaare
    <3>6. namen \in Seq(Namen) /\ Len(namen) = Len(preise)
      BY <3>5, PaareLesen
    <3>7. ExtrasVersendbar(namen, preise)
      BY <3>5, <3>6, FolgeIhrerWerte DEF ExtrasVersendbar
    <3> QED BY <2>3, <3>7 DEF namen, preise
  <2>7. s.Unterkategorie \in Seq(ToSet(s.Unterkategorie))
    BY <2>1, <2>2, FolgeIhrerWerte
  <2>8. N \in Seq(Seq(UNION {ToSet(z) : z \in ToSet(N)}))
    <3> HIDE DEF N, W
    <3> QED BY <2>4, FolgeVonFolgen
  <2> QED BY <2>4, <2>5, <2>6, <2>7, <2>8, Zenon DEF SectionVersendbar
<1>6. \A k \in DOMAIN d : SectionVersendbar(d[k])
  BY <1>2, <1>5
<1>7. Versendbar(d)
  BY <1>2, <1>4, <1>6 DEF Versendbar
<1> QED BY <1>7 DEF d

\* Every dictionary that is handed to handleBestellung fits together: what sending an
\* order assumes of it (AuftraegeAssumption of BestellungSenden) is what composing
\* it ensures.
NurVersendbares == \A n \in DOMAIN gesendet : Versendbar(gesendet[n])

LEMMA NextVersendbar ==
  ASSUME IInv, RubrikInv, PaareInv, NurVersendbares, [Next]_vars
  PROVE  NurVersendbares'
<1>1. CASE alertAbschicken
  <2>1. gesendet \in Seq(ToSet(gesendet)) /\ gesendet' = Append(gesendet, dictionary)
    BY <1>1 DEF IInv, GesendetInv, alertAbschicken
  <2> DEFINE T == ToSet(gesendet) \cup {dictionary}
  <2>2. gesendet \in Seq(T) /\ dictionary \in T
    BY <2>1
  <2> HIDE DEF T
  <2>3. /\ DOMAIN gesendet' = 1..(Len(gesendet) + 1) /\ Len(gesendet) \in Nat
        /\ DOMAIN gesendet = 1..Len(gesendet)
        /\ \A n \in 1..Len(gesendet) : gesendet'[n] = gesendet[n]
        /\ gesendet'[Len(gesendet) + 1] = dictionary
    BY <2>1, <2>2, AppendFolge
  <2>4. \A n \in DOMAIN gesendet' : n = Len(gesendet) + 1 \/ n \in DOMAIN gesendet
    BY <2>3, BisNachfolger
  <2>5. Versendbar(dictionary)
    BY DictionaryVersendbar
  <2>6. \A n \in DOMAIN gesendet' : Versendbar(gesendet'[n])
    <3> TAKE n \in DOMAIN gesendet'
    <3>1. CASE n = Len(gesendet) + 1
      BY <2>3, <2>5, <3>1
    <3>2. CASE n \in DOMAIN gesendet
      BY <2>3, <3>2 DEF NurVersendbares
    <3> QED BY <2>4, <3>1, <3>2
  <2> QED BY <2>6 DEF NurVersendbares
<1>2. CASE NeueSitzung
  <2>1. gesendet' = <<>>
    BY <1>2 DEF NeueSitzung
  <2> QED BY <2>1 DEF NurVersendbares
<1>3. CASE UNCHANGED gesendet
  BY <1>3 DEF NurVersendbares
<1>4. alertAbschicken \/ NeueSitzung \/ UNCHANGED gesendet
  <2>1. Popup => NeueSitzung \/ UNCHANGED gesendet
    <3>1. ASSUME NEW t, NEW s, NEW s2, NEW r2, pass(t, s, s2, r2)
          PROVE  NeueSitzung \/ UNCHANGED gesendet
      BY <3>1 DEF pass, Absturz
    <3>2. ASSUME NEW text, kommentarTippen(text) PROVE UNCHANGED gesendet
      BY <3>2 DEF kommentarTippen
    <3>3. /\ funcItemPlusTapped \/ funcItemMinusTapped => UNCHANGED gesendet
          /\ openExtras \/ closeExtras \/ extrasHinzufuegen => UNCHANGED gesendet
      BY DEF funcItemPlusTapped, funcItemMinusTapped, openExtras, closeExtras, extrasHinzufuegen
    <3>4. selectExtra \/ aktualisierungAbbrechen \/ dismissPopUp => UNCHANGED gesendet
      BY DEF selectExtra, aktualisierungAbbrechen, dismissPopUp
    <3> QED BY <3>1, <3>2, <3>3, <3>4, Zenon DEF Popup
  <2>2. Uebersicht => NeueSitzung \/ UNCHANGED gesendet
    <3>1. ASSUME NEW k, NEW u, NEW r, ZeileGeaendert(k, u, r) PROVE UNCHANGED gesendet
      BY <3>1 DEF ZeileGeaendert, passItemEntfernen, passItemPlus, passItemMinus, mengeSetzen,
                  kommentarBeginnen
    <3>2. ASSUME NEW text, passKommentarAendern(text) PROVE NeueSitzung \/ UNCHANGED gesendet
      BY <3>2 DEF passKommentarAendern, Absturz
    <3> QED BY <3>1, <3>2 DEF Uebersicht
  <2>3. Navigation => alertAbschicken \/ NeueSitzung \/ UNCHANGED gesendet
    BY DEF Navigation, bestellungPruefen, menueVerlassen, zurueck, uebersichtSchliessen, abschicken,
           alertAbbrechen, abgeschicktVerlassen, popNachLeer, appStarten
  <2> QED BY <2>1, <2>2, <2>3 DEF Next, vars
<1> QED BY <1>1, <1>2, <1>3, <1>4

THEOREM UebergibtVersendbares == Spec => []NurVersendbares
<1>1. Init => RubrikInv /\ PaareInv /\ NurVersendbares
  BY GutLeer, GepaartLeer, AuswahlLeer DEF Init, RubrikInv, PaareInv, LeererEntwurf, NurVersendbares
<1>2. IInv /\ RubrikInv /\ PaareInv /\ NurVersendbares /\ [Next]_vars
        => RubrikInv' /\ PaareInv' /\ NurVersendbares'
  BY NextRubrik, NextPaare, NextVersendbar
<1> QED BY <1>1, <1>2, SpecIInv, PTL DEF Spec

-----------------------------------------------------------------------------
(* The lines of one Unterkategorie: the u-th of the lists g.               *)

OhneText(w) == [f \in OhneKommentar |-> w[f]]

ZeileAn(g, u, r) == [f \in OhneKommentar |-> g[f][u][r]]

ReiheVon(g, u) == [r \in DOMAIN g["ItemsNamen"][u] |-> ZeileAn(g, u, r)]

\* The u-th Unterkategorie has n lines.
Lang(g, u, n, W) ==
  \A f \in OhneKommentar : g[f][u] \in Seq(W[f]) /\ Len(g[f][u]) = n

ZeilenBis(g, u, n) == {ZeileAn(g, u, r) : r \in 1..n}

LEMMA OhneKommentarFelder ==
  /\ OhneKommentar \subseteq Felder
  /\ "ItemsNamen" \in OhneKommentar /\ "ItemsMengen" \in OhneKommentar
  /\ "ItemsMengen" # "ItemsNamen"
  BY DEF OhneKommentar, Felder

LEMMA ListenGleich ==
  ASSUME NEW S, NEW T, NEW s \in Seq(S), NEW t \in Seq(T), Len(s) = Len(t),
         \A i \in 1..Len(s) : s[i] = t[i]
  PROVE  s = t
  OBVIOUS

LEMMA ListenLang ==
  ASSUME NEW U, NEW W, NEW g, NEW z \in Seq(U), Listen(g, z, W), NEW u \in 1..Len(z)
  PROVE  /\ Len(g["ItemsNamen"][u]) \in Nat
         /\ Lang(g, u, Len(g["ItemsNamen"][u]), W)
<1>1. ASSUME NEW f \in OhneKommentar
      PROVE  /\ g[f][u] \in Seq(W[f]) /\ g["ItemsNamen"][u] \in Seq(W["ItemsNamen"])
             /\ Len(g[f][u]) = Len(g["ItemsNamen"][u])
  <2> DEFINE x == g[f]  y == g["ItemsNamen"]  S == W[f]  R == W["ItemsNamen"]
  <2>1. x \in Seq(Seq(S)) /\ y \in Seq(Seq(R)) /\ GleichLang(x, y) /\ Len(x) = Len(z)
    BY ListenPaar, OhneKommentarFelder
  <2> HIDE DEF x, y, S, R
  <2>2. x[u] \in Seq(S) /\ y[u] \in Seq(R) /\ Len(x[u]) = Len(y[u])
    BY <2>1, ListeLesen
  <2> QED BY <2>2 DEF x, y, S, R
<1>2. Len(g["ItemsNamen"][u]) \in Nat
  <2>1. g["ItemsNamen"][u] \in Seq(W["ItemsNamen"])
    BY <1>1, OhneKommentarFelder
  <2> QED BY <2>1
<1> QED BY <1>1, <1>2, Zenon DEF Lang

LEMMA ReiheLesen ==
  ASSUME NEW W, NEW g, NEW u, NEW n \in Nat, Lang(g, u, n, W)
  PROVE  /\ ReiheVon(g, u) \in Seq(ZeilenBis(g, u, n))
         /\ Len(ReiheVon(g, u)) = n
         /\ \A r \in 1..n : ReiheVon(g, u)[r] = ZeileAn(g, u, r)
<1> DEFINE x == g["ItemsNamen"][u]
           T == ZeilenBis(g, u, n)
           s == ReiheVon(g, u)
<1>1. x \in Seq(W["ItemsNamen"]) /\ Len(x) = n
  BY OhneKommentarFelder DEF Lang
<1>2. DOMAIN x = 1..n
  BY <1>1
<1>3. s = [r \in 1..n |-> ZeileAn(g, u, r)]
  BY <1>2 DEF ReiheVon
<1>4. s \in [1..n -> T]
  BY <1>3 DEF ZeilenBis
<1>5. \A r \in 1..n : s[r] = ZeileAn(g, u, r)
  BY <1>3
<1> HIDE DEF s, T
<1>6. s \in Seq(T) /\ Len(s) = n
  BY <1>4
<1> QED BY <1>5, <1>6 DEF s, T

LEMMA ReiheAppend ==
  ASSUME NEW W, NEW g, NEW h, NEW u, NEW n \in Nat, Lang(g, u, n, W),
         NEW w, \A f \in OhneKommentar : w[f] \in W[f],
         \A f \in OhneKommentar : h[f][u] = Append(g[f][u], w[f])
  PROVE  ReiheVon(h, u) = Append(ReiheVon(g, u), OhneText(w))
<1>1. ASSUME NEW f \in OhneKommentar
      PROVE  /\ h[f][u] \in Seq(W[f]) /\ Len(h[f][u]) = n + 1
             /\ \A r \in 1..n : h[f][u][r] = g[f][u][r]
             /\ h[f][u][n + 1] = w[f]
  <2> DEFINE x == g[f][u]  v == w[f]  S == W[f]
  <2>1. x \in Seq(S) /\ Len(x) = n /\ v \in S
    BY DEF Lang
  <2>2. h[f][u] = Append(x, v)
    OBVIOUS
  <2> HIDE DEF x, v, S
  <2>3. /\ Append(x, v) \in Seq(S) /\ Len(Append(x, v)) = n + 1
        /\ \A r \in 1..n : Append(x, v)[r] = x[r]
        /\ Append(x, v)[n + 1] = v
    BY <2>1, AppendFolge
  <2> QED BY <2>2, <2>3 DEF x, v, S
<1>2. Lang(h, u, n + 1, W) /\ n + 1 \in Nat
  BY <1>1 DEF Lang
<1>3. \A r \in 1..n : ZeileAn(h, u, r) = ZeileAn(g, u, r)
  BY <1>1 DEF ZeileAn
<1>4. ZeileAn(h, u, n + 1) = OhneText(w)
  BY <1>1 DEF ZeileAn, OhneText
<1> DEFINE s == ReiheVon(g, u)
           t == ReiheVon(h, u)
           S == ZeilenBis(g, u, n) \cup {OhneText(w)}
           T == ZeilenBis(h, u, n + 1)
           v == OhneText(w)
<1>5. s \in Seq(ZeilenBis(g, u, n)) /\ Len(s) = n
      /\ \A r \in 1..n : s[r] = ZeileAn(g, u, r)
  BY ReiheLesen
<1>6. t \in Seq(T) /\ Len(t) = n + 1 /\ \A r \in 1..(n + 1) : t[r] = ZeileAn(h, u, r)
  BY <1>2, ReiheLesen
<1>7. s \in Seq(S) /\ v \in S
  BY <1>5
<1> HIDE DEF s, t, S, T, v
<1>8. /\ Append(s, v) \in Seq(S) /\ Len(Append(s, v)) = n + 1
      /\ \A r \in 1..n : Append(s, v)[r] = s[r]
      /\ Append(s, v)[n + 1] = v
  BY <1>5, <1>7, AppendFolge
<1>9. \A r \in 1..(n + 1) : t[r] = Append(s, v)[r]
  <2> TAKE r \in 1..(n + 1)
  <2>1. CASE r = n + 1
    BY <1>4, <1>6, <1>8, <2>1 DEF v
  <2>2. CASE r \in 1..n
    BY <1>3, <1>5, <1>6, <1>8, <2>2
  <2> QED BY <2>1, <2>2, BisNachfolger
<1>10. t = Append(s, v)
  BY <1>6, <1>8, <1>9, ListenGleich
<1> QED BY <1>10 DEF t, s, v

LEMMA ReiheRemoveAt ==
  ASSUME NEW W, NEW g, NEW h, NEW u, NEW n \in Nat, Lang(g, u, n, W), NEW k \in 1..n,
         \A f \in OhneKommentar : h[f][u] = RemoveAt(g[f][u], k)
  PROVE  ReiheVon(h, u) = RemoveAt(ReiheVon(g, u), k)
<1>1. ASSUME NEW f \in OhneKommentar
      PROVE  /\ h[f][u] \in Seq(W[f]) /\ Len(h[f][u]) = n - 1
             /\ \A r \in 1..(k - 1) : h[f][u][r] = g[f][u][r]
             /\ \A r \in k..(n - 1) : h[f][u][r] = g[f][u][r + 1]
  <2> DEFINE x == g[f][u]  S == W[f]
  <2>1. x \in Seq(S) /\ Len(x) = n
    BY DEF Lang
  <2>2. h[f][u] = RemoveAt(x, k)
    OBVIOUS
  <2> HIDE DEF x, S
  <2>3. /\ RemoveAt(x, k) \in Seq(S) /\ Len(RemoveAt(x, k)) = n - 1
        /\ \A r \in 1..(k - 1) : RemoveAt(x, k)[r] = x[r]
        /\ \A r \in k..(n - 1) : RemoveAt(x, k)[r] = x[r + 1]
    BY <2>1, RemoveAtFolge
  <2> QED BY <2>2, <2>3 DEF x, S
<1>2. Lang(h, u, n - 1, W) /\ n - 1 \in Nat
  BY <1>1 DEF Lang
<1>3. \A r \in 1..(k - 1) : ZeileAn(h, u, r) = ZeileAn(g, u, r)
  BY <1>1 DEF ZeileAn
<1>4. \A r \in k..(n - 1) : ZeileAn(h, u, r) = ZeileAn(g, u, r + 1)
  BY <1>1 DEF ZeileAn
<1> DEFINE s == ReiheVon(g, u)
           t == ReiheVon(h, u)
           S == ZeilenBis(g, u, n)
           T == ZeilenBis(h, u, n - 1)
<1>5. s \in Seq(S) /\ Len(s) = n /\ \A r \in 1..n : s[r] = ZeileAn(g, u, r)
  BY ReiheLesen
<1>6. t \in Seq(T) /\ Len(t) = n - 1 /\ \A r \in 1..(n - 1) : t[r] = ZeileAn(h, u, r)
  BY <1>2, ReiheLesen
<1> HIDE DEF s, t, S, T
<1>7. /\ RemoveAt(s, k) \in Seq(S) /\ Len(RemoveAt(s, k)) = n - 1
      /\ \A r \in 1..(k - 1) : RemoveAt(s, k)[r] = s[r]
      /\ \A r \in k..(n - 1) : RemoveAt(s, k)[r] = s[r + 1]
  BY <1>5, RemoveAtFolge
<1>8. \A r \in 1..(n - 1) : t[r] = RemoveAt(s, k)[r]
  <2> TAKE r \in 1..(n - 1)
  <2>1. CASE r < k
    <3>1. r \in 1..(k - 1) /\ r \in 1..n
      BY <2>1
    <3> QED BY <1>3, <1>5, <1>6, <1>7, <3>1
  <2>2. CASE r >= k
    <3>1. r \in k..(n - 1) /\ r + 1 \in 1..n
      BY <2>2
    <3> QED BY <1>4, <1>5, <1>6, <1>7, <3>1
  <2> QED BY <2>1, <2>2
<1>9. t = RemoveAt(s, k)
  BY <1>6, <1>7, <1>8, ListenGleich
<1> QED BY <1>9 DEF t, s

LEMMA ReiheWert ==
  ASSUME NEW W, NEW g, NEW h, NEW u, NEW n \in Nat, Lang(g, u, n, W), NEW k \in 1..n,
         NEW m \in W["ItemsMengen"],
         h["ItemsMengen"][u] = [g["ItemsMengen"][u] EXCEPT ![k] = m],
         \A f \in OhneKommentar : f # "ItemsMengen" => h[f][u] = g[f][u]
  PROVE  ReiheVon(h, u) = [ReiheVon(g, u) EXCEPT ![k].ItemsMengen = m]
<1> DEFINE x == g["ItemsMengen"][u]
           y == h["ItemsMengen"][u]
<1>1. x \in Seq(W["ItemsMengen"]) /\ Len(x) = n /\ y = [x EXCEPT ![k] = m]
  BY OhneKommentarFelder DEF Lang
<1> HIDE DEF x, y
<1>2. y[k] = m /\ \A r \in 1..n : r # k => y[r] = x[r]
  BY <1>1
<1>3. h["ItemsNamen"][u] = g["ItemsNamen"][u]
  BY OhneKommentarFelder
<1>4. DOMAIN g["ItemsNamen"][u] = 1..n
  BY OhneKommentarFelder DEF Lang
<1>5. \A r \in 1..n : r # k => ZeileAn(h, u, r) = ZeileAn(g, u, r)
  BY <1>2 DEF ZeileAn, x, y
<1> DEFINE neu == [ZeileAn(g, u, k) EXCEPT !.ItemsMengen = m]
<1>6. ZeileAn(h, u, k) = neu
  BY <1>2, OhneKommentarFelder DEF ZeileAn, x, y
<1>7. ReiheVon(h, u) = [r \in 1..n |-> ZeileAn(h, u, r)]
      /\ ReiheVon(g, u) = [r \in 1..n |-> ZeileAn(g, u, r)]
  BY <1>3, <1>4 DEF ReiheVon
<1>8. [ReiheVon(g, u) EXCEPT ![k].ItemsMengen = m]
        = [r \in 1..n |-> IF r = k THEN neu ELSE ZeileAn(g, u, r)]
  BY <1>7
<1> HIDE DEF neu
<1>9. \A r \in 1..n : ZeileAn(h, u, r) = IF r = k THEN neu ELSE ZeileAn(g, u, r)
  BY <1>5, <1>6, Zenon
<1> HIDE DEF x, y
<1> QED BY <1>7, <1>8, <1>9, SMTT(20)

-----------------------------------------------------------------------------
(* The lines of one Kategorie, whose headings are z.                       *)

UnterRubrik(z, g, x) ==
  IF ~Contains(z, x) THEN <<>> ELSE ReiheVon(g, firstIndex(z, x))

LEMMA ReiheGleich ==
  ASSUME NEW g, NEW h, NEW u, \A f \in OhneKommentar : h[f][u] = g[f][u]
  PROVE  ReiheVon(h, u) = ReiheVon(g, u)
<1>1. h["ItemsNamen"][u] = g["ItemsNamen"][u]
  BY OhneKommentarFelder
<1>2. \A r : ZeileAn(h, u, r) = ZeileAn(g, u, r)
  BY DEF ZeileAn
<1> QED BY <1>1, <1>2 DEF ReiheVon

LEMMA UnterRubrikGleich ==
  ASSUME NEW g, NEW h, GleichBisKommentar(h, g), NEW z, NEW x
  PROVE  UnterRubrik(z, h, x) = UnterRubrik(z, g, x)
<1>1. \A u : ReiheVon(h, u) = ReiheVon(g, u)
  BY ReiheGleich DEF GleichBisKommentar
<1> QED BY <1>1 DEF UnterRubrik

LEMMA UnterRubrikLesen ==
  ASSUME NEW U, NEW z \in Seq(U), Injektiv(z), NEW u \in 1..Len(z), NEW g
  PROVE  UnterRubrik(z, g, z[u]) = ReiheVon(g, u)
<1>1. Contains(z, z[u])
  BY DEF Contains
<1>2. firstIndex(z, z[u]) = u
  BY FirstIndexInjektiv
<1> QED BY <1>1, <1>2 DEF UnterRubrik

\* Every heading has an index.
LEMMA EnthaltenIndex ==
  ASSUME NEW U, NEW z \in Seq(U), NEW x, Contains(z, x)
  PROVE  \E u \in 1..Len(z) : z[u] = x
  BY FirstIndex

\* Only the lines of the u-th Unterkategorie change.
LEMMA UnterRubrikEine ==
  ASSUME NEW U, NEW z \in Seq(U), Injektiv(z), NEW u \in 1..Len(z), NEW g, NEW h,
         \A j \in 1..Len(z) : j # u => ReiheVon(h, j) = ReiheVon(g, j), NEW x
  PROVE  UnterRubrik(z, h, x)
           = IF x = z[u] THEN ReiheVon(h, u) ELSE UnterRubrik(z, g, x)
<1>1. CASE x = z[u]
  BY <1>1, UnterRubrikLesen
<1>2. CASE x # z[u] /\ Contains(z, x)
  <2>1. PICK j \in 1..Len(z) : z[j] = x
    BY <1>2, EnthaltenIndex
  <2>2. UnterRubrik(z, h, z[j]) = ReiheVon(h, j) /\ UnterRubrik(z, g, z[j]) = ReiheVon(g, j)
    BY UnterRubrikLesen
  <2> QED BY <1>2, <2>1, <2>2
<1>3. CASE x # z[u] /\ ~Contains(z, x)
  BY <1>3 DEF UnterRubrik
<1> QED BY <1>1, <1>2, <1>3

\* What Listen says of the u-th entry of one array.
LEMMA ListeVon ==
  ASSUME NEW U, NEW W, NEW g, NEW z \in Seq(U), Listen(g, z, W), NEW f \in OhneKommentar
  PROVE  /\ g[f] \in Seq(Seq(W[f])) /\ Len(g[f]) = Len(z)
         /\ \A u \in 1..Len(z) : g[f][u] \in Seq(W[f])
<1> DEFINE x == g[f]  S == W[f]
<1>1. x \in Seq(Seq(S)) /\ Len(x) = Len(z)
  BY ListenPaar, OhneKommentarFelder
<1> HIDE DEF x, S
<1>2. \A u \in 1..Len(z) : x[u] \in Seq(S)
  BY <1>1
<1> QED BY <1>1, <1>2 DEF x, S

\* A line is added under a heading that was not there ...
LEMMA UnterRubrikNeu ==
  ASSUME NEW U, NEW W, NEW g, NEW z \in Seq(U), Listen(g, z, W), Injektiv(z),
         NEW y \in U, ~Contains(z, y), NEW w, \A f \in Felder : w[f] \in W[f], NEW x
  PROVE  UnterRubrik(Append(z, y), ListenMitRubrik(g, w), x)
           = IF x = y THEN Append(UnterRubrik(z, g, x), OhneText(w)) ELSE UnterRubrik(z, g, x)
<1> DEFINE h == ListenMitRubrik(g, w)
           m == Len(z)
           zz == Append(z, y)
<1>1. m \in Nat /\ m + 1 \in 1..(m + 1)
  OBVIOUS
<1>2. /\ zz \in Seq(U) /\ Len(zz) = m + 1 /\ zz[m + 1] = y
      /\ \A j \in 1..m : zz[j] = z[j]
  BY AppendFolge
<1>3. Injektiv(zz)
  BY InjektivAppend
<1>4. ASSUME NEW f \in OhneKommentar
      PROVE  h[f][m + 1] = <<w[f]>> /\ \A j \in 1..m : h[f][j] = g[f][j]
  <2> DEFINE a == g[f]  v == w[f]  S == W[f]
  <2>1. a \in Seq(Seq(S)) /\ Len(a) = m /\ v \in S
    BY ListeVon, OhneKommentarFelder
  <2>2. h[f] = Append(a, <<v>>)
    BY OhneKommentarFelder DEF ListenMitRubrik
  <2> HIDE DEF a, v, S, h, m
  <2>3. <<v>> \in Seq(S)
    BY <2>1, EineZeile
  <2>4. Append(a, <<v>>)[m + 1] = <<v>> /\ \A j \in 1..m : Append(a, <<v>>)[j] = a[j]
    BY <2>1, <2>3, AppendFolge
  <2> QED BY <2>2, <2>4 DEF a, v
<1>5. \A j \in 1..m : ReiheVon(h, j) = ReiheVon(g, j)
  BY <1>4, ReiheGleich
<1>6. ReiheVon(h, m + 1) = <<OhneText(w)>>
  <2>1. h["ItemsNamen"][m + 1] = <<w["ItemsNamen"]>>
    BY <1>4, OhneKommentarFelder
  <2>2. ZeileAn(h, m + 1, 1) = OhneText(w)
    BY <1>4 DEF ZeileAn, OhneText
  <2> HIDE DEF h, m
  <2>3. DOMAIN <<w["ItemsNamen"]>> = 1..1
    OBVIOUS
  <2>4. ReiheVon(h, m + 1) = [r \in 1..1 |-> ZeileAn(h, m + 1, r)]
    BY <2>1, <2>3 DEF ReiheVon
  <2> DEFINE v == OhneText(w)
  <2>5. \A r \in 1..1 : ZeileAn(h, m + 1, r) = v
    BY <2>2
  <2> HIDE DEF v
  <2>6. [r \in 1..1 |-> ZeileAn(h, m + 1, r)] = [r \in 1..1 |-> v]
    BY <2>5
  <2>7. [r \in 1..1 |-> v] = <<v>>
    OBVIOUS
  <2> QED BY <2>4, <2>6, <2>7 DEF v
<1> HIDE DEF h, zz, m
<1>7. CASE x = y
  <2>1. UnterRubrik(zz, h, zz[m + 1]) = ReiheVon(h, m + 1)
    BY <1>1, <1>2, <1>3, UnterRubrikLesen
  <2>2. UnterRubrik(z, g, x) = <<>>
    BY <1>7 DEF UnterRubrik
  <2>3. Append(<<>>, OhneText(w)) = <<OhneText(w)>>
    <3> DEFINE v == OhneText(w)
    <3> HIDE DEF v
    <3>1. Append(<<>>, v) = <<v>>
      OBVIOUS
    <3> QED BY <3>1 DEF v
  <2> QED BY <1>2, <1>6, <1>7, <2>1, <2>2, <2>3 DEF h, zz
<1>8. CASE x # y /\ Contains(z, x)
  <2>1. PICK j \in 1..m : z[j] = x
    BY <1>8, EnthaltenIndex DEF m
  <2>2. UnterRubrik(z, g, z[j]) = ReiheVon(g, j)
    BY <2>1, UnterRubrikLesen DEF m
  <2>3. j \in 1..Len(zz)
    BY <1>1, <1>2
  <2>4. UnterRubrik(zz, h, zz[j]) = ReiheVon(h, j)
    BY <1>2, <1>3, <2>3, UnterRubrikLesen
  <2> QED BY <1>2, <1>5, <1>8, <2>1, <2>2, <2>4 DEF h, zz
<1>9. CASE x # y /\ ~Contains(z, x)
  <2>1. ASSUME Contains(zz, x) PROVE FALSE
    <3>1. PICK j \in 1..Len(zz) : zz[j] = x
      BY <1>2, <2>1, EnthaltenIndex
    <3>2. j \in 1..m
      BY <1>1, <1>2, <1>9, <3>1, BisNachfolger
    <3>3. z[j] = x /\ j \in DOMAIN z
      BY <1>2, <3>1, <3>2 DEF m
    <3> QED BY <1>9, <3>3 DEF Contains
  <2> QED BY <1>9, <2>1 DEF UnterRubrik, h, zz
<1> QED BY <1>7, <1>8, <1>9

\* ... or under one that was.
LEMMA UnterRubrikAppend ==
  ASSUME NEW U, NEW W, NEW g, NEW z \in Seq(U), Listen(g, z, W), Injektiv(z),
         NEW u \in 1..Len(z), NEW w, \A f \in Felder : w[f] \in W[f], NEW x
  PROVE  UnterRubrik(z, ListenMitZeile(g, u, w), x)
           = IF x = z[u] THEN Append(UnterRubrik(z, g, x), OhneText(w)) ELSE UnterRubrik(z, g, x)
<1> DEFINE h == ListenMitZeile(g, u, w)
           n == Len(g["ItemsNamen"][u])
<1>1. n \in Nat /\ Lang(g, u, n, W)
  BY ListenLang
<1>2. ASSUME NEW f \in OhneKommentar
      PROVE  h[f][u] = Append(g[f][u], w[f]) /\ \A j \in 1..Len(z) : j # u => h[f][j] = g[f][j]
  <2> DEFINE a == g[f]  p == Append(g[f][u], w[f])  S == Seq(W[f])
  <2>1. a \in Seq(S) /\ Len(a) = Len(z)
    BY ListeVon
  <2>2. h[f] = [a EXCEPT ![u] = p]
    BY OhneKommentarFelder DEF ListenMitZeile
  <2> HIDE DEF a, p, S, h
  <2>3. [a EXCEPT ![u] = p][u] = p /\ \A j \in 1..Len(z) : j # u => [a EXCEPT ![u] = p][j] = a[j]
    BY <2>1
  <2> QED BY <2>2, <2>3 DEF a, p
<1> HIDE DEF h, n
<1>3. \A f \in OhneKommentar : h[f][u] = Append(g[f][u], w[f])
  BY <1>2
<1>4. \A f \in OhneKommentar : w[f] \in W[f]
  BY OhneKommentarFelder
<1>5. ReiheVon(h, u) = Append(ReiheVon(g, u), OhneText(w))
  BY <1>1, <1>3, <1>4, ReiheAppend
<1>6. \A j \in 1..Len(z) : j # u => ReiheVon(h, j) = ReiheVon(g, j)
  BY <1>2, ReiheGleich
<1>7. UnterRubrik(z, h, x) = IF x = z[u] THEN ReiheVon(h, u) ELSE UnterRubrik(z, g, x)
  BY <1>6, UnterRubrikEine
<1>8. UnterRubrik(z, g, z[u]) = ReiheVon(g, u)
  BY UnterRubrikLesen
<1> QED BY <1>5, <1>7, <1>8 DEF h

\* In the lists h the line r of the heading y is missing, compared with g.
ZeileFehlt(z, h, g, y, r) ==
  \A x : UnterRubrik(z, h, x) = IF x = y THEN RemoveAt(UnterRubrik(z, g, x), r)
                                ELSE UnterRubrik(z, g, x)

\* A line goes, and others stay under its heading ...
LEMMA UnterRubrikOhneZeile ==
  ASSUME NEW U, NEW W, NEW s, NEW z \in Seq(U), Listen(s.felder, z, W), Injektiv(z),
         NEW u \in 1..Len(z), NEW r \in 1..Len(s.felder["ItemsNamen"][u])
  PROVE  ZeileFehlt(z, ZeilenOhne(s, u, r), s.felder, z[u], r)
<1> DEFINE g == s.felder
           h == ZeilenOhne(s, u, r)
           n == Len(g["ItemsNamen"][u])
<1>1. n \in Nat /\ Lang(g, u, n, W) /\ r \in 1..n
  BY ListenLang
<1>2. ASSUME NEW f \in OhneKommentar
      PROVE  h[f][u] = RemoveAt(g[f][u], r) /\ \A j \in 1..Len(z) : j # u => h[f][j] = g[f][j]
  <2> DEFINE a == g[f]  p == RemoveAt(g[f][u], r)  S == Seq(W[f])
  <2>1. a \in Seq(S) /\ Len(a) = Len(z)
    BY ListeVon
  <2>2. h[f] = [a EXCEPT ![u] = p]
    BY OhneKommentarFelder DEF ZeilenOhne
  <2> HIDE DEF a, p, S, h
  <2>3. [a EXCEPT ![u] = p][u] = p /\ \A j \in 1..Len(z) : j # u => [a EXCEPT ![u] = p][j] = a[j]
    BY <2>1
  <2> QED BY <2>2, <2>3 DEF a, p
<1>3. UnterRubrik(z, g, z[u]) = ReiheVon(g, u)
  BY UnterRubrikLesen
<1> HIDE DEF g, h, n
<1>4. \A f \in OhneKommentar : h[f][u] = RemoveAt(g[f][u], r)
  BY <1>2
<1>5. ReiheVon(h, u) = RemoveAt(ReiheVon(g, u), r)
  BY <1>1, <1>4, ReiheRemoveAt
<1>6. \A j \in 1..Len(z) : j # u => ReiheVon(h, j) = ReiheVon(g, j)
  BY <1>2, ReiheGleich
<1>7. \A x : UnterRubrik(z, h, x) = IF x = z[u] THEN ReiheVon(h, u) ELSE UnterRubrik(z, g, x)
  BY <1>6, UnterRubrikEine
<1>8. ZeileFehlt(z, h, g, z[u], r)
  BY <1>3, <1>5, <1>7 DEF ZeileFehlt
<1> QED BY <1>8 DEF h, g

\* ... or the heading goes with its only line.
LEMMA UnterRubrikOhneRubrik ==
  ASSUME NEW U, NEW W, NEW g, NEW z \in Seq(U), Listen(g, z, W), Injektiv(z),
         NEW u \in 1..Len(z), Len(g["ItemsNamen"][u]) = 1, NEW x
  PROVE  UnterRubrik(RemoveAt(z, u), ListenOhneRubrik(g, u), x)
           = IF x = z[u] THEN RemoveAt(UnterRubrik(z, g, x), 1) ELSE UnterRubrik(z, g, x)
<1> DEFINE h == ListenOhneRubrik(g, u)
           m == Len(z)
           zz == RemoveAt(z, u)
<1>1. m \in Nat /\ u \in 1..m
  OBVIOUS
<1>2. /\ zz \in Seq(U) /\ Len(zz) = m - 1
      /\ \A j \in 1..(u - 1) : zz[j] = z[j]
      /\ \A j \in u..(m - 1) : zz[j] = z[j + 1]
  BY RemoveAtFolge
<1>3. Injektiv(zz)
  BY InjektivRemoveAt
<1>4. ASSUME NEW f \in OhneKommentar
      PROVE  /\ \A j \in 1..(u - 1) : h[f][j] = g[f][j]
             /\ \A j \in u..(m - 1) : h[f][j] = g[f][j + 1]
  <2> DEFINE a == g[f]  S == Seq(W[f])
  <2>1. a \in Seq(S) /\ Len(a) = m
    BY ListeVon
  <2>2. h[f] = RemoveAt(a, u)
    BY OhneKommentarFelder DEF ListenOhneRubrik
  <2> HIDE DEF a, S, h, m
  <2>3. /\ \A j \in 1..(u - 1) : RemoveAt(a, u)[j] = a[j]
        /\ \A j \in u..(m - 1) : RemoveAt(a, u)[j] = a[j + 1]
    BY <1>1, <2>1, RemoveAtFolge
  <2> QED BY <2>2, <2>3 DEF a
<1> HIDE DEF h, zz, m
<1>5. \A j \in 1..(u - 1) : ReiheVon(h, j) = ReiheVon(g, j)
  BY <1>4, ReiheGleich
<1>6. ASSUME NEW j \in u..(m - 1) PROVE ReiheVon(h, j) = ReiheVon(g, j + 1)
  <2>1. \A r : ZeileAn(h, j, r) = ZeileAn(g, j + 1, r)
    BY <1>4 DEF ZeileAn
  <2>2. h["ItemsNamen"][j] = g["ItemsNamen"][j + 1]
    BY <1>4, OhneKommentarFelder
  <2> QED BY <2>1, <2>2 DEF ReiheVon
<1>7. CASE x = z[u]
  <2>1. ASSUME Contains(zz, x) PROVE FALSE
    <3>1. PICK j \in 1..Len(zz) : zz[j] = x
      BY <1>2, <2>1, EnthaltenIndex
    <3>2. CASE j < u
      <4>1. j \in 1..(u - 1) /\ j \in DOMAIN z /\ u \in DOMAIN z /\ j # u
        BY <1>1, <3>1, <3>2 DEF m
      <4> QED BY <1>2, <1>7, <3>1, <4>1 DEF Injektiv
    <3>3. CASE j >= u
      <4>1. j \in u..(m - 1) /\ j + 1 \in DOMAIN z /\ u \in DOMAIN z /\ j + 1 # u
        BY <1>1, <1>2, <3>1, <3>3 DEF m
      <4> QED BY <1>2, <1>7, <3>1, <4>1 DEF Injektiv
    <3> QED BY <1>1, <3>1, <3>2, <3>3
  <2>2. UnterRubrik(z, g, x) = ReiheVon(g, u)
    BY <1>7, UnterRubrikLesen
  <2>3. RemoveAt(ReiheVon(g, u), 1) = <<>>
    <3> DEFINE S == ZeilenBis(g, u, 1)
               q == ReiheVon(g, u)
    <3>1. Lang(g, u, 1, W)
      BY ListenLang
    <3>2. q \in Seq(S) /\ Len(q) = 1
      BY <3>1, ReiheLesen
    <3> HIDE DEF S, q
    <3>3. 1 \in 1..Len(q)
      BY <3>2
    <3>4. RemoveAt(q, 1) \in Seq(S) /\ Len(RemoveAt(q, 1)) = Len(q) - 1
      BY <3>2, <3>3, RemoveAtFolge
    <3>5. RemoveAt(q, 1) = <<>>
      BY <3>2, <3>4
    <3> QED BY <3>5 DEF q
  <2> QED BY <1>7, <2>1, <2>2, <2>3 DEF UnterRubrik, h, zz
<1>8. CASE x # z[u] /\ Contains(z, x)
  <2>1. PICK j \in 1..m : z[j] = x
    BY <1>8, EnthaltenIndex DEF m
  <2>2. UnterRubrik(z, g, z[j]) = ReiheVon(g, j)
    BY <2>1, UnterRubrikLesen DEF m
  <2>3. CASE j < u
    <3>1. j \in 1..(u - 1) /\ j \in 1..Len(zz)
      BY <1>1, <1>2, <2>1, <2>3
    <3>2. UnterRubrik(zz, h, zz[j]) = ReiheVon(h, j)
      BY <1>2, <1>3, <3>1, UnterRubrikLesen
    <3> QED BY <1>2, <1>5, <1>8, <2>1, <2>2, <3>1, <3>2 DEF h, zz
  <2>4. CASE j > u
    <3>1. j - 1 \in u..(m - 1) /\ j - 1 \in 1..Len(zz) /\ (j - 1) + 1 = j
      BY <1>1, <1>2, <2>1, <2>4
    <3>2. UnterRubrik(zz, h, zz[j - 1]) = ReiheVon(h, j - 1)
      BY <1>2, <1>3, <3>1, UnterRubrikLesen
    <3>3. zz[j - 1] = z[j] /\ ReiheVon(h, j - 1) = ReiheVon(g, j)
      BY <1>2, <1>6, <3>1
    <3> QED BY <1>8, <2>1, <2>2, <3>2, <3>3 DEF h, zz
  <2> QED BY <1>1, <1>8, <2>1, <2>3, <2>4
<1>9. CASE x # z[u] /\ ~Contains(z, x)
  <2>1. ASSUME Contains(zz, x) PROVE FALSE
    <3>1. PICK j \in 1..Len(zz) : zz[j] = x
      BY <1>2, <2>1, EnthaltenIndex
    <3>2. \E i \in DOMAIN z : z[i] = x
      <4>1. CASE j < u
        <5>1. j \in 1..(u - 1) /\ j \in DOMAIN z
          BY <1>1, <3>1, <4>1 DEF m
        <5> QED BY <1>2, <3>1, <5>1
      <4>2. CASE j >= u
        <5>1. j \in u..(m - 1) /\ j + 1 \in DOMAIN z
          BY <1>1, <1>2, <3>1, <4>2 DEF m
        <5> QED BY <1>2, <3>1, <5>1
      <4> QED BY <1>1, <3>1, <4>1, <4>2
    <3> QED BY <1>9, <3>2 DEF Contains
  <2> QED BY <1>9, <2>1 DEF UnterRubrik, h, zz
<1> QED BY <1>7, <1>8, <1>9

\* A quantity changes.
LEMMA UnterRubrikWert ==
  ASSUME NEW U, NEW W, NEW g, IstFeld(g), NEW z \in Seq(U), Listen(g, z, W), Injektiv(z),
         NEW u \in 1..Len(z), NEW r \in 1..Len(g["ItemsNamen"][u]), NEW m \in W["ItemsMengen"],
         NEW x
  PROVE  UnterRubrik(z, WertMit(g, "ItemsMengen", u, r, m), x)
           = IF x = z[u] THEN [UnterRubrik(z, g, x) EXCEPT ![r].ItemsMengen = m]
             ELSE UnterRubrik(z, g, x)
<1> DEFINE f0 == "ItemsMengen"
           h == WertMit(g, f0, u, r, m)
           n == Len(g["ItemsNamen"][u])
           a == g[f0]  p == [g[f0][u] EXCEPT ![r] = m]  S == Seq(W[f0])
<1>1. n \in Nat /\ Lang(g, u, n, W) /\ r \in 1..n
  BY ListenLang
<1>2. a \in Seq(S) /\ Len(a) = Len(z)
  BY ListeVon, OhneKommentarFelder
<1>3. h[f0] = [a EXCEPT ![u] = p] /\ \A f \in OhneKommentar : f # f0 => h[f] = g[f]
  BY OhneKommentarFelder DEF WertMit, IstFeld
<1>4. UnterRubrik(z, g, z[u]) = ReiheVon(g, u)
  BY UnterRubrikLesen
<1> HIDE DEF a, p, S, h, n
<1>5. h[f0][u] = p /\ \A j \in 1..Len(z) : j # u => h[f0][j] = a[j]
  BY <1>2, <1>3
<1>6. /\ h["ItemsMengen"][u] = [g["ItemsMengen"][u] EXCEPT ![r] = m]
      /\ \A f \in OhneKommentar : f # "ItemsMengen" => h[f][u] = g[f][u]
  BY <1>3, <1>5 DEF p
<1>7. ReiheVon(h, u) = [ReiheVon(g, u) EXCEPT ![r].ItemsMengen = m]
  BY <1>1, <1>6, ReiheWert
<1>8. ASSUME NEW j \in 1..Len(z), j # u PROVE ReiheVon(h, j) = ReiheVon(g, j)
  <2>1. \A f \in OhneKommentar : h[f][j] = g[f][j]
    <3> TAKE f \in OhneKommentar
    <3>1. CASE f = f0
      BY <1>5, <1>8, <3>1 DEF a
    <3>2. CASE f # f0
      BY <1>3, <3>2
    <3> QED BY <3>1, <3>2
  <2> QED BY <2>1, ReiheGleich
<1>9. UnterRubrik(z, h, x) = IF x = z[u] THEN ReiheVon(h, u) ELSE UnterRubrik(z, g, x)
  BY <1>8, UnterRubrikEine
<1> QED BY <1>4, <1>7, <1>9 DEF h

-----------------------------------------------------------------------------
(* The list that the arrays b stand for.                                   *)

LEMMA ZeilenUnterLesen ==
  ASSUME NEW b, b.Kategorien \in Seq(KategorieNamen), Injektiv(b.Kategorien),
         NEW k \in 1..Len(b.Kategorien), NEW p, p[1] = b.Kategorien[k]
  PROVE  ZeilenUnter(b, p) = UnterRubrik(b.Unterkategorien[k], ListenVon(b, k), p[2])
<1>1. Contains(b.Kategorien, p[1])
  BY DEF Contains
<1>2. firstIndex(b.Kategorien, p[1]) = k
  BY FirstIndexInjektiv
<1> DEFINE z == b.Unterkategorien[k]
           u == firstIndex(z, p[2])
<1>3. ZeilenUnter(b, p)
        = IF ~Contains(z, p[2]) THEN <<>>
          ELSE [r \in DOMAIN b.felder["ItemsNamen"][k][u] |->
                  [f \in OhneKommentar |-> b.felder[f][k][u][r]]]
  BY <1>1, <1>2 DEF ZeilenUnter
<1> HIDE DEF u, z
<1>4. ListenVon(b, k)["ItemsNamen"] = b.felder["ItemsNamen"][k]
  BY ItemsNamenFelder DEF ListenVon
<1>5. \A f \in OhneKommentar : ListenVon(b, k)[f] = b.felder[f][k]
  BY OhneKommentarFelder DEF ListenVon
<1>6. \A r : ZeileAn(ListenVon(b, k), u, r) = [f \in OhneKommentar |-> b.felder[f][k][u][r]]
  BY <1>5 DEF ZeileAn
<1>7. ReiheVon(ListenVon(b, k), u)
        = [r \in DOMAIN b.felder["ItemsNamen"][k][u] |->
             [f \in OhneKommentar |-> b.felder[f][k][u][r]]]
  BY <1>4, <1>6 DEF ReiheVon
<1> QED BY <1>3, <1>7, Zenon DEF UnterRubrik, z, u

LEMMA ZeilenUnterFehlt ==
  ASSUME NEW b, NEW p, ~Contains(b.Kategorien, p[1])
  PROVE  ZeilenUnter(b, p) = <<>>
  BY DEF ZeilenUnter

\* Arrays whose lists differ at one place.
NurAn(a, b, q, X) ==
  \A p \in Pfade : ZeilenUnter(a, p) = IF p = q THEN X ELSE ZeilenUnter(b, p)

Geaendert(b, q, X) == [Liste(b) EXCEPT ![q] = X]

LEMMA ListeAn ==
  ASSUME NEW a, NEW b, NEW q \in Pfade, NEW X, NurAn(a, b, q, X)
  PROVE  Liste(a) = Geaendert(b, q, X)
  BY DEF Liste, NurAn, Geaendert

LEMMA ListeGleich ==
  ASSUME NEW a, NEW b, \A p \in Pfade : ZeilenUnter(a, p) = ZeilenUnter(b, p)
  PROVE  Liste(a) = Liste(b)
  BY DEF Liste

LEMMA PfadGleich ==
  /\ \A p \in Pfade : p[1] \in KategorieNamen /\ p[2] \in UnterkategorieNamen
  /\ \A kat \in KategorieNamen, ukat \in UnterkategorieNamen :
       /\ <<kat, ukat>> \in Pfade
       /\ \A p \in Pfade : p = <<kat, ukat>> <=> p[1] = kat /\ p[2] = ukat
  BY DEF Pfade

LEMMA GueltigKategorien ==
  ASSUME NEW b, Gueltig(b)
  PROVE  /\ Wohlgeformt(b, KategorieNamen, UnterkategorieNamen, IWerte)
         /\ b.Kategorien \in Seq(KategorieNamen) /\ Injektiv(b.Kategorien)
  BY WohlgeformtFelder DEF Gueltig

\* The lists of the other Kategorien stay.
LEMMA KategorieMitAndere ==
  ASSUME NEW b, Gueltig(b), NEW k \in 1..Len(b.Kategorien), NEW z \in Seq(UnterkategorieNamen),
         NEW e \in Seq(BOOLEAN), NEW g, Listen(g, z, IWerte), NEW p
  PROVE  ZeilenUnter(KategorieMit(b, k, z, e, g), p)
           = IF p[1] = b.Kategorien[k] THEN UnterRubrik(z, g, p[2]) ELSE ZeilenUnter(b, p)
<1> DEFINE bb == KategorieMit(b, k, z, e, g)
<1>1. /\ Wohlgeformt(b, KategorieNamen, UnterkategorieNamen, IWerte)
      /\ b.Kategorien \in Seq(KategorieNamen) /\ Injektiv(b.Kategorien)
  BY GueltigKategorien
<1>2. /\ bb.Kategorien = b.Kategorien
      /\ bb.Unterkategorien[k] = z
      /\ \A f \in Felder : bb.felder[f][k] = g[f]
      /\ \A j \in 1..Len(b.Kategorien) : j # k =>
           /\ bb.Unterkategorien[j] = b.Unterkategorien[j]
           /\ \A f \in Felder : bb.felder[f][j] = b.felder[f][j]
  BY <1>1, KategorieMitLesen, SMTT(20)
<1> HIDE DEF bb
<1>3. bb.Kategorien \in Seq(KategorieNamen) /\ Injektiv(bb.Kategorien)
  BY <1>1, <1>2
<1>4. CASE p[1] = b.Kategorien[k]
  <2>1. k \in 1..Len(bb.Kategorien) /\ p[1] = bb.Kategorien[k]
    BY <1>2, <1>4
  <2>2. ZeilenUnter(bb, p) = UnterRubrik(bb.Unterkategorien[k], ListenVon(bb, k), p[2])
    BY <1>3, <2>1, ZeilenUnterLesen
  <2>3. GleichBisKommentar(ListenVon(bb, k), g)
    BY <1>2, OhneKommentarFelder DEF GleichBisKommentar, ListenVon
  <2> QED BY <1>2, <1>4, <2>2, <2>3, UnterRubrikGleich DEF bb
<1>5. CASE p[1] # b.Kategorien[k] /\ Contains(b.Kategorien, p[1])
  <2>1. PICK j \in 1..Len(b.Kategorien) : b.Kategorien[j] = p[1]
    BY <1>1, <1>5, EnthaltenIndex
  <2>2. j # k
    BY <1>5, <2>1
  <2>3. ZeilenUnter(b, p) = UnterRubrik(b.Unterkategorien[j], ListenVon(b, j), p[2])
    BY <1>1, <2>1, ZeilenUnterLesen
  <2>4. j \in 1..Len(bb.Kategorien) /\ p[1] = bb.Kategorien[j]
    BY <1>2, <2>1
  <2>5. ZeilenUnter(bb, p) = UnterRubrik(bb.Unterkategorien[j], ListenVon(bb, j), p[2])
    BY <1>3, <2>4, ZeilenUnterLesen
  <2>6. ListenVon(bb, j) = ListenVon(b, j) /\ bb.Unterkategorien[j] = b.Unterkategorien[j]
    BY <1>2, <2>1, <2>2 DEF ListenVon
  <2> QED BY <1>5, <2>3, <2>5, <2>6 DEF bb
<1>6. CASE p[1] # b.Kategorien[k] /\ ~Contains(b.Kategorien, p[1])
  BY <1>2, <1>6, ZeilenUnterFehlt DEF bb
<1> QED BY <1>4, <1>5, <1>6

\* With the headings z and the lists g only the list of y changes, to X.
NurRubrik(b, k, z, g, y, X) ==
  \A x \in UnterkategorieNamen :
    UnterRubrik(z, g, x)
      = IF x = y THEN X ELSE UnterRubrik(b.Unterkategorien[k], ListenVon(b, k), x)

\* One list of the k-th Kategorie becomes X.
LEMMA ListeKategorieMit ==
  ASSUME NEW b, Gueltig(b), NEW k \in 1..Len(b.Kategorien), NEW z \in Seq(UnterkategorieNamen),
         NEW e \in Seq(BOOLEAN), NEW g, Listen(g, z, IWerte),
         NEW y \in UnterkategorieNamen, NEW X, NurRubrik(b, k, z, g, y, X)
  PROVE  Liste(KategorieMit(b, k, z, e, g)) = Geaendert(b, <<b.Kategorien[k], y>>, X)
<1> DEFINE bb == KategorieMit(b, k, z, e, g)
           kat == b.Kategorien[k]
           q == <<kat, y>>
<1>1. /\ Wohlgeformt(b, KategorieNamen, UnterkategorieNamen, IWerte)
      /\ b.Kategorien \in Seq(KategorieNamen) /\ Injektiv(b.Kategorien)
  BY GueltigKategorien
<1>2. kat \in KategorieNamen
  BY <1>1
<1>3. \A p : ZeilenUnter(bb, p) = IF p[1] = kat THEN UnterRubrik(z, g, p[2]) ELSE ZeilenUnter(b, p)
  BY KategorieMitAndere
<1>4. \A p : p[1] = kat =>
        ZeilenUnter(b, p) = UnterRubrik(b.Unterkategorien[k], ListenVon(b, k), p[2])
  BY <1>1, ZeilenUnterLesen
<1> HIDE DEF bb, kat
<1>5. q \in Pfade /\ \A p \in Pfade : p = q <=> p[1] = kat /\ p[2] = y
  BY <1>2, PfadGleich
<1>6. \A p \in Pfade : ZeilenUnter(bb, p) = IF p = q THEN X ELSE ZeilenUnter(b, p)
  <2> TAKE p \in Pfade
  <2>1. CASE p[1] = kat
    <3>1. p[2] \in UnterkategorieNamen
      BY PfadGleich
    <3>2. UnterRubrik(z, g, p[2])
            = IF p[2] = y THEN X ELSE UnterRubrik(b.Unterkategorien[k], ListenVon(b, k), p[2])
      BY <3>1 DEF NurRubrik
    <3> QED BY <1>3, <1>4, <1>5, <2>1, <3>2
  <2>2. CASE p[1] # kat
    BY <1>3, <1>5, <2>2
  <2> QED BY <2>1, <2>2
<1> HIDE DEF q
<1>7. Liste(bb) = Geaendert(b, q, X)
  <2>1. NurAn(bb, b, q, X)
    BY <1>6, Zenon DEF NurAn
  <2>2. q \in Pfade
    BY <1>5
  <2>3. Liste(bb) = Geaendert(b, q, X)
    BY <2>1, <2>2, ListeAn, Zenon
  <2> QED BY <2>3
<1> QED BY <1>7 DEF bb, q, kat

\* A list as its Kategorie has it.
LEMMA ListeLesenAn ==
  ASSUME NEW b, Gueltig(b), NEW k \in 1..Len(b.Kategorien), NEW y \in UnterkategorieNamen
  PROVE  /\ <<b.Kategorien[k], y>> \in Pfade
         /\ Liste(b)[<<b.Kategorien[k], y>>]
              = UnterRubrik(b.Unterkategorien[k], ListenVon(b, k), y)
<1> DEFINE q == <<b.Kategorien[k], y>>
<1>1. b.Kategorien \in Seq(KategorieNamen) /\ Injektiv(b.Kategorien)
  BY GueltigKategorien
<1>2. q \in Pfade /\ q[1] = b.Kategorien[k] /\ q[2] = y
  BY <1>1, PfadGleich
<1> HIDE DEF q
<1>3. ZeilenUnter(b, q) = UnterRubrik(b.Unterkategorien[k], ListenVon(b, k), q[2])
  BY <1>1, <1>2, ZeilenUnterLesen
<1>4. Liste(b)[q] = ZeilenUnter(b, q)
  BY <1>2 DEF Liste
<1> QED BY <1>2, <1>3, <1>4 DEF q

\* A new Kategorie.
LEMMA ListeNeueKategorie ==
  ASSUME NEW b, Gueltig(b), NEW kat \in KategorieNamen, NEW ukat \in UnterkategorieNamen,
         ~Contains(b.Kategorien, kat), NEW w, \A f \in Felder : w[f] \in IWerte[f]
  PROVE  Liste(NeueKategorie(b, kat, ukat, w))
           = [Liste(b) EXCEPT ![<<kat, ukat>>] = Append(@, OhneText(w))]
<1> DEFINE bb == NeueKategorie(b, kat, ukat, w)
           K == b.Kategorien
           m == Len(K)
           KK == Append(K, kat)
           q == <<kat, ukat>>
           G == ListenVon(bb, m + 1)
           v == OhneText(w)
<1>1. /\ Wohlgeformt(b, KategorieNamen, UnterkategorieNamen, IWerte)
      /\ K \in Seq(KategorieNamen) /\ Injektiv(K)
  BY GueltigKategorien
<1>2. /\ KK \in Seq(KategorieNamen) /\ Len(KK) = m + 1 /\ KK[m + 1] = kat
      /\ \A j \in 1..m : KK[j] = K[j]
      /\ m \in Nat /\ m + 1 \in 1..(m + 1)
  BY <1>1, AppendFolge
<1>3. Injektiv(KK)
  BY <1>1, InjektivAppend
<1>4. bb.Kategorien = KK /\ bb.Unterkategorien = Append(b.Unterkategorien, <<ukat>>)
      /\ \A f \in Felder : bb.felder[f] = Append(b.felder[f], <<<<w[f]>>>>)
  BY DEF NeueKategorie
<1>5. /\ b.Unterkategorien \in Seq(Seq(UnterkategorieNamen)) /\ Len(b.Unterkategorien) = m
      /\ \A f \in Felder : b.felder[f] \in Seq(Seq(Seq(IWerte[f]))) /\ Len(b.felder[f]) = m
  BY <1>1, WohlgeformtFelder DEF Feld, GleichLang
<1> HIDE DEF bb, K, m, KK, v
<1>6. bb.Unterkategorien[m + 1] = <<ukat>>
      /\ \A j \in 1..m : bb.Unterkategorien[j] = b.Unterkategorien[j]
  <2>1. <<ukat>> \in Seq(UnterkategorieNamen)
    OBVIOUS
  <2> QED BY <1>4, <1>5, <2>1, AppendFolge
<1>7. ASSUME NEW f \in Felder
      PROVE  bb.felder[f][m + 1] = <<<<w[f]>>>> /\ \A j \in 1..m : bb.felder[f][j] = b.felder[f][j]
  <2> DEFINE a == b.felder[f]  S == IWerte[f]  c == w[f]  T == Seq(Seq(S))
  <2>1. c \in S
    OBVIOUS
  <2>2. a \in Seq(T) /\ Len(a) = m /\ bb.felder[f] = Append(a, <<<<c>>>>)
    BY <1>4, <1>5
  <2> HIDE DEF a, S, c
  <2>3. <<<<c>>>> \in T
    BY <2>1, EineZeile
  <2> DEFINE cc == <<<<c>>>>
  <2> HIDE DEF T, cc
  <2>4. Append(a, cc)[m + 1] = cc /\ \A j \in 1..m : Append(a, cc)[j] = a[j]
    BY <2>2, <2>3, AppendFolge DEF cc
  <2> QED BY <2>2, <2>4 DEF a, cc, c
<1>8. ASSUME NEW p \in Pfade, p[1] = kat
      PROVE  /\ ZeilenUnter(b, p) = <<>>
             /\ ZeilenUnter(bb, p) = IF p[2] = ukat THEN <<v>> ELSE <<>>
  <2>1. ZeilenUnter(b, p) = <<>>
    BY <1>8, ZeilenUnterFehlt DEF K
  <2>2. ZeilenUnter(bb, p) = UnterRubrik(<<ukat>>, G, p[2])
    <3>1. m + 1 \in 1..Len(bb.Kategorien) /\ p[1] = bb.Kategorien[m + 1]
      BY <1>2, <1>4, <1>8
    <3>2. bb.Kategorien \in Seq(KategorieNamen) /\ Injektiv(bb.Kategorien)
      BY <1>2, <1>3, <1>4
    <3>3. ZeilenUnter(bb, p)
            = UnterRubrik(bb.Unterkategorien[m + 1], ListenVon(bb, m + 1), p[2])
      BY <3>1, <3>2, ZeilenUnterLesen
    <3> QED BY <1>6, <3>3
  <2>3. CASE p[2] = ukat
    <3> DEFINE z == <<ukat>>
    <3>1. z \in Seq(UnterkategorieNamen) /\ Injektiv(z) /\ 1 \in 1..Len(z) /\ z[1] = ukat
      BY DEF Injektiv
    <3> HIDE DEF z
    <3>2. UnterRubrik(z, G, z[1]) = ReiheVon(G, 1)
      BY <3>1, UnterRubrikLesen
    <3>3. \A f \in OhneKommentar : G[f][1] = <<w[f]>>
      <4> TAKE f \in OhneKommentar
      <4>1. G[f] = <<<<w[f]>>>>
        BY <1>7, OhneKommentarFelder DEF ListenVon
      <4> QED BY <4>1
    <3> HIDE DEF G
    <3>4. ReiheVon(G, 1) = <<v>>
      <4>1. G["ItemsNamen"][1] = <<w["ItemsNamen"]>>
        BY <3>3, OhneKommentarFelder
      <4>2. ZeileAn(G, 1, 1) = v
        BY <3>3 DEF ZeileAn, OhneText, v
      <4>3. DOMAIN <<w["ItemsNamen"]>> = 1..1
        OBVIOUS
      <4>4. ReiheVon(G, 1) = [r \in 1..1 |-> ZeileAn(G, 1, r)]
        BY <4>1, <4>3 DEF ReiheVon
      <4>5. \A r \in 1..1 : ZeileAn(G, 1, r) = v
        BY <4>2
      <4>6. [r \in 1..1 |-> ZeileAn(G, 1, r)] = [r \in 1..1 |-> v]
        BY <4>5
      <4>7. [r \in 1..1 |-> v] = <<v>>
        OBVIOUS
      <4> QED BY <4>4, <4>6, <4>7
    <3> QED BY <2>1, <2>2, <2>3, <3>1, <3>2, <3>4 DEF z
  <2>4. CASE p[2] # ukat
    <3>1. ~Contains(<<ukat>>, p[2])
      BY <2>4 DEF Contains
    <3> QED BY <2>1, <2>2, <2>4, <3>1 DEF UnterRubrik
  <2> QED BY <2>3, <2>4
<1>9. ASSUME NEW p \in Pfade, p[1] # kat
      PROVE  ZeilenUnter(bb, p) = ZeilenUnter(b, p)
  <2>1. CASE Contains(K, p[1])
    <3>1. PICK j \in 1..m : K[j] = p[1]
      BY <1>1, <2>1, EnthaltenIndex DEF m
    <3>2. j \in 1..Len(b.Kategorien) /\ p[1] = b.Kategorien[j]
      BY <3>1 DEF K, m
    <3>3. ZeilenUnter(b, p) = UnterRubrik(b.Unterkategorien[j], ListenVon(b, j), p[2])
      BY <1>1, <3>2, ZeilenUnterLesen DEF K
    <3>4. j \in 1..Len(bb.Kategorien) /\ p[1] = bb.Kategorien[j]
      BY <1>2, <1>4, <3>1
    <3>5. bb.Kategorien \in Seq(KategorieNamen) /\ Injektiv(bb.Kategorien)
      BY <1>2, <1>3, <1>4
    <3>6. ZeilenUnter(bb, p) = UnterRubrik(bb.Unterkategorien[j], ListenVon(bb, j), p[2])
      BY <3>4, <3>5, ZeilenUnterLesen
    <3>7. ListenVon(bb, j) = ListenVon(b, j) /\ bb.Unterkategorien[j] = b.Unterkategorien[j]
      BY <1>6, <1>7, <3>1 DEF ListenVon
    <3> QED BY <3>3, <3>6, <3>7
  <2>2. CASE ~Contains(K, p[1])
    <3>1. ~Contains(bb.Kategorien, p[1])
      <4>1. ASSUME Contains(KK, p[1]) PROVE FALSE
        <5>1. PICK j \in 1..Len(KK) : KK[j] = p[1]
          BY <1>2, <4>1, EnthaltenIndex
        <5>2. j \in 1..m
          BY <1>2, <1>9, <5>1, BisNachfolger
        <5>3. K[j] = p[1] /\ j \in DOMAIN K
          BY <1>1, <1>2, <5>1, <5>2 DEF m
        <5> QED BY <2>2, <5>3 DEF Contains
      <4> QED BY <1>4, <4>1
    <3> QED BY <2>2, <3>1, ZeilenUnterFehlt DEF K
  <2> QED BY <2>1, <2>2
<1>10. q \in Pfade /\ (\A p \in Pfade : p = q <=> p[1] = kat /\ p[2] = ukat) /\ q[1] = kat
  BY PfadGleich
<1> HIDE DEF q
<1>11. Liste(b)[q] = <<>>
  BY <1>8, <1>10 DEF Liste
<1>12. \A p \in Pfade : ZeilenUnter(bb, p) = IF p = q THEN <<v>> ELSE ZeilenUnter(b, p)
  BY <1>8, <1>9, <1>10
<1>13. Liste(bb) = [Liste(b) EXCEPT ![q] = <<v>>]
  <2>1. NurAn(bb, b, q, <<v>>)
    BY <1>12, Zenon DEF NurAn
  <2> DEFINE X == <<v>>
  <2> HIDE DEF X
  <2>2. NurAn(bb, b, q, X)
    BY <2>1 DEF X
  <2>3. q \in Pfade
    BY <1>10
  <2>4. Liste(bb) = Geaendert(b, q, X)
    BY <2>2, <2>3, ListeAn, Zenon
  <2> QED BY <2>4 DEF X, Geaendert
<1>14. Append(<<>>, v) = <<v>>
  OBVIOUS
<1> DEFINE L == Liste(b)
<1> HIDE DEF L
<1>15. [L EXCEPT ![q] = Append(@, v)] = [L EXCEPT ![q] = <<v>>]
  BY <1>11, <1>14 DEF L
<1> QED BY <1>13, <1>15 DEF bb, q, v, L

\* A Kategorie goes: all its lists are empty then.
LEMMA ZeilenOhneKategorie ==
  ASSUME NEW b, Gueltig(b), NEW k \in 1..Len(b.Kategorien), NEW p
  PROVE  ZeilenUnter(OhneKategorie(b, k), p)
           = IF p[1] = b.Kategorien[k] THEN <<>> ELSE ZeilenUnter(b, p)
<1> DEFINE bb == OhneKategorie(b, k)
           K == b.Kategorien
           m == Len(K)
           KK == RemoveAt(K, k)
<1>1. /\ Wohlgeformt(b, KategorieNamen, UnterkategorieNamen, IWerte)
      /\ K \in Seq(KategorieNamen) /\ Injektiv(K)
  BY GueltigKategorien
<1>2. /\ KK \in Seq(KategorieNamen) /\ Len(KK) = m - 1 /\ m \in Nat /\ k \in 1..m
      /\ \A j \in 1..(k - 1) : KK[j] = K[j]
      /\ \A j \in k..(m - 1) : KK[j] = K[j + 1]
  BY <1>1, RemoveAtFolge
<1>3. Injektiv(KK)
  BY <1>1, InjektivRemoveAt
<1>4. bb.Kategorien = KK /\ bb.Unterkategorien = RemoveAt(b.Unterkategorien, k)
      /\ \A f \in Felder : bb.felder[f] = RemoveAt(b.felder[f], k)
  BY DEF OhneKategorie
<1>5. /\ b.Unterkategorien \in Seq(Seq(UnterkategorieNamen)) /\ Len(b.Unterkategorien) = m
      /\ \A f \in Felder : b.felder[f] \in Seq(Seq(Seq(IWerte[f]))) /\ Len(b.felder[f]) = m
  BY <1>1, WohlgeformtFelder DEF Feld, GleichLang
<1> HIDE DEF bb, K, m, KK
<1>6. /\ \A j \in 1..(k - 1) : bb.Unterkategorien[j] = b.Unterkategorien[j]
      /\ \A j \in k..(m - 1) : bb.Unterkategorien[j] = b.Unterkategorien[j + 1]
  <2> DEFINE C == b.Unterkategorien  S == Seq(UnterkategorieNamen)
  <2>1. C \in Seq(S) /\ Len(C) = m
    BY <1>5
  <2> HIDE DEF C, S
  <2>2. /\ \A j \in 1..(k - 1) : RemoveAt(C, k)[j] = C[j]
        /\ \A j \in k..(m - 1) : RemoveAt(C, k)[j] = C[j + 1]
    BY <1>2, <2>1, RemoveAtFolge
  <2> QED BY <1>4, <2>2 DEF C
<1>7. ASSUME NEW f \in Felder
      PROVE  /\ \A j \in 1..(k - 1) : bb.felder[f][j] = b.felder[f][j]
             /\ \A j \in k..(m - 1) : bb.felder[f][j] = b.felder[f][j + 1]
  <2> DEFINE a == b.felder[f]  T == Seq(Seq(IWerte[f]))
  <2>1. a \in Seq(T) /\ Len(a) = m /\ bb.felder[f] = RemoveAt(a, k)
    BY <1>4, <1>5
  <2> HIDE DEF a, T
  <2>2. /\ \A j \in 1..(k - 1) : RemoveAt(a, k)[j] = a[j]
        /\ \A j \in k..(m - 1) : RemoveAt(a, k)[j] = a[j + 1]
    BY <1>2, <2>1, RemoveAtFolge
  <2> QED BY <2>1, <2>2 DEF a
<1>8. \A j \in 1..(k - 1) : ListenVon(bb, j) = ListenVon(b, j)
  BY <1>7 DEF ListenVon
<1>9. \A j \in k..(m - 1) : ListenVon(bb, j) = ListenVon(b, j + 1)
  BY <1>7 DEF ListenVon
<1>10. /\ bb.Kategorien \in Seq(KategorieNamen) /\ Injektiv(bb.Kategorien)
       /\ b.Kategorien \in Seq(KategorieNamen) /\ Injektiv(b.Kategorien)
  BY <1>1, <1>2, <1>3, <1>4 DEF K
<1>11. \A i, j \in 1..m : K[i] = K[j] => i = j
  BY <1>1 DEF Injektiv, m
<1>12. CASE p[1] = K[k]
  <2>1. ASSUME Contains(KK, p[1]) PROVE FALSE
    <3>1. PICK j \in 1..Len(KK) : KK[j] = p[1]
      BY <1>2, <2>1, EnthaltenIndex
    <3>2. CASE j < k
      <4>1. j \in 1..(k - 1) /\ j \in 1..m /\ j # k
        BY <1>2, <3>1, <3>2
      <4> QED BY <1>2, <1>11, <1>12, <3>1, <4>1
    <3>3. CASE j >= k
      <4>1. j \in k..(m - 1) /\ j + 1 \in 1..m /\ j + 1 # k
        BY <1>2, <3>1, <3>3
      <4> QED BY <1>2, <1>11, <1>12, <3>1, <4>1
    <3> QED BY <1>2, <3>1, <3>2, <3>3
  <2> QED BY <1>4, <1>12, <2>1, ZeilenUnterFehlt DEF bb, K
<1>13. CASE p[1] # K[k] /\ Contains(K, p[1])
  <2>1. PICK j \in 1..m : K[j] = p[1]
    BY <1>1, <1>13, EnthaltenIndex DEF m
  <2>2. j \in 1..Len(b.Kategorien) /\ p[1] = b.Kategorien[j]
    BY <2>1 DEF K, m
  <2>3. ZeilenUnter(b, p) = UnterRubrik(b.Unterkategorien[j], ListenVon(b, j), p[2])
    BY <1>10, <2>2, ZeilenUnterLesen
  <2>4. CASE j < k
    <3>1. j \in 1..(k - 1) /\ j \in 1..Len(bb.Kategorien) /\ p[1] = bb.Kategorien[j]
      BY <1>2, <1>4, <2>1, <2>4
    <3>2. ZeilenUnter(bb, p) = UnterRubrik(bb.Unterkategorien[j], ListenVon(bb, j), p[2])
      BY <1>10, <3>1, ZeilenUnterLesen
    <3> QED BY <1>6, <1>8, <1>13, <2>3, <3>1, <3>2 DEF bb, K
  <2>5. CASE j > k
    <3> DEFINE i == j - 1
    <3>1. i \in k..(m - 1) /\ i \in 1..Len(KK) /\ i + 1 = j
      BY <1>2, <2>1, <2>5
    <3> HIDE DEF i
    <3>2. i \in 1..Len(bb.Kategorien) /\ p[1] = bb.Kategorien[i]
      BY <1>2, <1>4, <2>1, <3>1
    <3>3. ZeilenUnter(bb, p) = UnterRubrik(bb.Unterkategorien[i], ListenVon(bb, i), p[2])
      BY <1>10, <3>2, ZeilenUnterLesen
    <3>4. bb.Unterkategorien[i] = b.Unterkategorien[j] /\ ListenVon(bb, i) = ListenVon(b, j)
      BY <1>6, <1>9, <3>1
    <3> QED BY <1>13, <2>3, <3>3, <3>4 DEF bb, K
  <2> QED BY <1>2, <1>13, <2>1, <2>4, <2>5
<1>14. CASE p[1] # K[k] /\ ~Contains(K, p[1])
  <2>1. ASSUME Contains(KK, p[1]) PROVE FALSE
    <3>1. PICK j \in 1..Len(KK) : KK[j] = p[1]
      BY <1>2, <2>1, EnthaltenIndex
    <3>2. \E i \in DOMAIN K : K[i] = p[1]
      <4>1. CASE j < k
        <5>1. j \in 1..(k - 1) /\ j \in DOMAIN K
          BY <1>1, <1>2, <3>1, <4>1 DEF m
        <5> QED BY <1>2, <3>1, <5>1
      <4>2. CASE j >= k
        <5>1. j \in k..(m - 1) /\ j + 1 \in DOMAIN K
          BY <1>1, <1>2, <3>1, <4>2 DEF m
        <5> QED BY <1>2, <3>1, <5>1
      <4> QED BY <1>2, <3>1, <4>1, <4>2
    <3> QED BY <1>14, <3>2 DEF Contains
  <2> QED BY <1>4, <1>14, <2>1, ZeilenUnterFehlt DEF bb, K
<1> QED BY <1>12, <1>13, <1>14 DEF K

-----------------------------------------------------------------------------
(* What the handlers do to the list.                                       *)

LEMMA GutLesen ==
  ASSUME NEW b, Gueltig(b), Gut(b), NEW k \in 1..Len(b.Kategorien)
  PROVE  /\ b.Unterkategorien[k] \in Seq(UnterkategorieNamen)
         /\ Injektiv(b.Unterkategorien[k])
         /\ b.Expanded2[k] \in Seq(BOOLEAN)
         /\ Listen(ListenVon(b, k), b.Unterkategorien[k], IWerte)
<1>1. Wohlgeformt(b, KategorieNamen, UnterkategorieNamen, IWerte)
  BY GueltigKategorien
<1>2. /\ k \in 1..Len(b.Unterkategorien)
      /\ b.Unterkategorien[k] \in Seq(UnterkategorieNamen) /\ b.Expanded2[k] \in Seq(BOOLEAN)
  BY <1>1, KategorieLesen
<1>3. Listen(ListenVon(b, k), b.Unterkategorien[k], IWerte)
  BY <1>1, ListenLesen
<1>4. Injektiv(b.Unterkategorien[k])
  BY <1>2 DEF Gut, RubrikenGut, RubrikGut
<1> QED BY <1>2, <1>3, <1>4

\* The list q gets the line v.
Angehaengt(b, q, v) == [Liste(b) EXCEPT ![q] = Append(@, v)]

\* Adding a line appends it to its list and leaves the others alone.
LEMMA ListeMitZeile ==
  ASSUME NEW b, Gueltig(b), Gut(b), NEW kat \in KategorieNamen,
         NEW ukat \in UnterkategorieNamen, NEW w, \A f \in Felder : w[f] \in IWerte[f]
  PROVE  Liste(MitZeile(b, kat, ukat, w)) = Angehaengt(b, <<kat, ukat>>, OhneText(w))
<1> DEFINE v == OhneText(w)
           k == firstIndex(b.Kategorien, kat)
           z == b.Unterkategorien[k]
           e == b.Expanded2[k]
           g == ListenVon(b, k)
           u == firstIndex(z, ukat)
<1>1. CASE ~Contains(b.Kategorien, kat)
  <2>1. MitZeile(b, kat, ukat, w) = NeueKategorie(b, kat, ukat, w)
    BY <1>1 DEF MitZeile
  <2>2. Liste(NeueKategorie(b, kat, ukat, w)) = [Liste(b) EXCEPT ![<<kat, ukat>>] = Append(@, OhneText(w))]
    BY <1>1, ListeNeueKategorie
  <2> QED BY <2>1, <2>2 DEF Angehaengt
<1>2. CASE Contains(b.Kategorien, kat)
  <2>1. /\ Wohlgeformt(b, KategorieNamen, UnterkategorieNamen, IWerte)
        /\ b.Kategorien \in Seq(KategorieNamen) /\ Injektiv(b.Kategorien)
    BY GueltigKategorien
  <2>2. k \in 1..Len(b.Kategorien) /\ b.Kategorien[k] = kat
    BY <1>2, <2>1, FirstIndex
  <2> HIDE DEF k
  <2>3. /\ z \in Seq(UnterkategorieNamen) /\ Injektiv(z) /\ e \in Seq(BOOLEAN)
        /\ Listen(g, z, IWerte)
    BY <2>2, GutLesen
  <2> DEFINE X == Append(UnterRubrik(z, g, ukat), v)
  <2>5. Liste(b)[<<kat, ukat>>] = UnterRubrik(z, g, ukat) /\ <<kat, ukat>> \in Pfade
    BY <2>2, ListeLesenAn
  <2>6. Geaendert(b, <<kat, ukat>>, X) = Angehaengt(b, <<kat, ukat>>, v)
    <3> HIDE DEF z, g, v
    <3> QED BY <2>5 DEF Angehaengt, Geaendert
  <2>7. CASE ~Contains(z, ukat)
    <3> DEFINE zz == Append(z, ukat)
               ee == Append(e, TRUE)
               h == ListenMitRubrik(g, w)
    <3>1. MitZeile(b, kat, ukat, w) = NeueUnterkategorie(b, k, ukat, w)
      BY <1>2, <2>7 DEF MitZeile, k
    <3>2. NeueUnterkategorie(b, k, ukat, w) = KategorieMit(b, k, zz, ee, h)
      BY DEF NeueUnterkategorie, KategorieMit, ListenVon, ListenMitRubrik
    <3> HIDE DEF z, e, g, v
    <3>3. zz \in Seq(UnterkategorieNamen) /\ ee \in Seq(BOOLEAN)
      BY <2>3
    <3>4. Listen(h, zz, IWerte)
      BY <2>3, ListenAppend
    <3>5. \A x : UnterRubrik(zz, h, x)
                   = IF x = ukat THEN Append(UnterRubrik(z, g, x), v) ELSE UnterRubrik(z, g, x)
      BY <2>3, <2>7, UnterRubrikNeu DEF v
    <3> HIDE DEF zz, ee, h
    <3>6. NurRubrik(b, k, zz, h, ukat, X)
      BY <3>5 DEF NurRubrik, z, g
    <3> HIDE DEF X
    <3>7. Liste(KategorieMit(b, k, zz, ee, h)) = Geaendert(b, <<kat, ukat>>, X)
      BY <2>2, <3>3, <3>4, <3>6, ListeKategorieMit
    <3> QED BY <2>6, <3>1, <3>2, <3>7 DEF v
  <2>8. CASE Contains(z, ukat)
    <3> DEFINE h == ListenMitZeile(g, u, w)
    <3>1. MitZeile(b, kat, ukat, w) = NeueZeile(b, k, u, w)
      BY <1>2, <2>8 DEF MitZeile, k
    <3>2. NeueZeile(b, k, u, w) = ListenMit(b, k, h)
      BY DEF NeueZeile, ListenMit, ListenVon, ListenMitZeile
    <3>3. ListenMit(b, k, h) = KategorieMit(b, k, z, e, h)
      BY <2>1, <2>2, ListenMitIstKategorieMit
    <3>4. u \in 1..Len(z) /\ z[u] = ukat
      BY <2>3, <2>8, FirstIndex
    <3> HIDE DEF z, e, g, v, u
    <3>5. Listen(h, z, IWerte)
      BY <2>3, <3>4, ListenZeileAppend
    <3>6. \A x : UnterRubrik(z, h, x)
                   = IF x = z[u] THEN Append(UnterRubrik(z, g, x), v) ELSE UnterRubrik(z, g, x)
      BY <2>3, <3>4, UnterRubrikAppend DEF v
    <3> HIDE DEF h
    <3>7. NurRubrik(b, k, z, h, ukat, X)
      BY <3>4, <3>6 DEF NurRubrik, z, g
    <3> HIDE DEF X
    <3>8. Liste(KategorieMit(b, k, z, e, h)) = Geaendert(b, <<kat, ukat>>, X)
      BY <2>2, <2>3, <3>5, <3>7, ListeKategorieMit
    <3> QED BY <2>6, <3>1, <3>2, <3>3, <3>8 DEF v
  <2> QED BY <2>7, <2>8
<1> QED BY <1>1, <1>2

\* What is sent are the lines of the overview.
LEMMA ListeAlsArrays ==
  ASSUME NEW b, Gueltig(b), NEW d, Spiegel(d, b, KategorieNamen, UnterkategorieNamen, IWerte)
  PROVE  Liste(AlsArrays(d)) = Liste(b)
<1> DEFINE a == AlsArrays(d)
<1>1. /\ d \in Seq(ToSet(d)) /\ Len(d) = Len(b.Kategorien)
      /\ \A k \in 1..Len(d) : Eintrag(d[k], b, k, IWerte)
  BY DictionaryLesen
<1>2. b.Kategorien \in Seq(KategorieNamen) /\ Injektiv(b.Kategorien)
  BY GueltigKategorien
<1>3. DOMAIN d = 1..Len(b.Kategorien)
  BY <1>1
<1>4. a.Kategorien = b.Kategorien
  <2>1. a.Kategorien = [k \in 1..Len(b.Kategorien) |-> b.Kategorien[k]]
    BY <1>1, <1>3 DEF AlsArrays, Eintrag
  <2> QED BY <1>2, <2>1
<1>5. ASSUME NEW k \in 1..Len(b.Kategorien)
      PROVE  /\ a.Unterkategorien[k] = b.Unterkategorien[k]
             /\ GleichBisKommentar(ListenVon(a, k), ListenVon(b, k))
  <2>1. Eintrag(d[k], b, k, IWerte) /\ k \in DOMAIN d
    BY <1>1, <1>3
  <2>2. a.Unterkategorien[k] = d[k].Unterkategorie /\ \A f \in Felder : a.felder[f][k] = d[k].felder[f]
    BY <2>1 DEF AlsArrays
  <2> HIDE DEF a
  <2>3. \A f \in OhneKommentar : a.felder[f][k] = b.felder[f][k]
    BY <2>1, <2>2, OhneKommentarFelder DEF Eintrag
  <2> QED BY <2>1, <2>2, <2>3, OhneKommentarFelder DEF Eintrag, GleichBisKommentar, ListenVon
<1> HIDE DEF a
<1>6. ASSUME NEW p \in Pfade PROVE ZeilenUnter(a, p) = ZeilenUnter(b, p)
  <2>1. CASE Contains(b.Kategorien, p[1])
    <3>1. PICK k \in 1..Len(b.Kategorien) : b.Kategorien[k] = p[1]
      BY <1>2, <2>1, EnthaltenIndex
    <3>2. ZeilenUnter(b, p) = UnterRubrik(b.Unterkategorien[k], ListenVon(b, k), p[2])
      BY <1>2, <3>1, ZeilenUnterLesen
    <3>3. /\ a.Kategorien \in Seq(KategorieNamen) /\ Injektiv(a.Kategorien)
          /\ k \in 1..Len(a.Kategorien) /\ p[1] = a.Kategorien[k]
      BY <1>2, <1>4, <3>1
    <3>4. ZeilenUnter(a, p) = UnterRubrik(a.Unterkategorien[k], ListenVon(a, k), p[2])
      BY <3>3, ZeilenUnterLesen
    <3>5. UnterRubrik(a.Unterkategorien[k], ListenVon(a, k), p[2])
            = UnterRubrik(a.Unterkategorien[k], ListenVon(b, k), p[2])
      BY <1>5, <3>1, UnterRubrikGleich
    <3> QED BY <1>5, <3>1, <3>2, <3>4, <3>5
  <2>2. CASE ~Contains(b.Kategorien, p[1])
    BY <1>4, <2>2, ZeilenUnterFehlt
  <2> QED BY <2>1, <2>2
<1>7. Liste(a) = Liste(b)
  BY <1>6, ListeGleich
<1> QED BY <1>7 DEF a

-----------------------------------------------------------------------------
(* The overview's cells.                                                   *)

\* The place of the u-th Unterkategorie under the k-th Kategorie in the list.
PfadVon(b, k, u) == <<b.Kategorien[k], b.Unterkategorien[k][u]>>

\* The line r at the place q goes, or gets the quantity n.
Entfernt(b, q, r) == [Liste(b) EXCEPT ![q] = RemoveAt(@, r)]
MitMenge(b, q, r, n) == [Liste(b) EXCEPT ![q] = [@ EXCEPT ![r].ItemsMengen = n]]

\* A line that can be tapped, as the arrays and as the list have it.
LEMMA TippbarListe ==
  ASSUME IInv, RubrikInv, NEW k, NEW u, NEW r, Tippbar(k, u, r)
  PROVE  LET z == uebersicht.Unterkategorien[k]
             G == ListenVon(uebersicht, k)
             q == PfadVon(uebersicht, k, u) IN
         /\ Gueltig(uebersicht) /\ Gut(uebersicht)
         /\ k \in 1..Len(uebersicht.Kategorien)
         /\ z \in Seq(UnterkategorieNamen) /\ Injektiv(z)
         /\ uebersicht.Expanded2[k] \in Seq(BOOLEAN)
         /\ Listen(G, z, IWerte) /\ IstFeld(G)
         /\ Listen(dictionary[k].felder, z, IWerte)
         /\ GleichBisKommentar(dictionary[k].felder, G)
         /\ u \in 1..Len(z) /\ z[u] \in UnterkategorieNamen
         /\ r \in 1..Len(G["ItemsNamen"][u])
         /\ q = <<uebersicht.Kategorien[k], z[u]>> /\ q \in Pfade
         /\ Liste(uebersicht)[q] = UnterRubrik(z, G, z[u])
<1> DEFINE z == uebersicht.Unterkategorien[k]
           G == ListenVon(uebersicht, k)
           s == dictionary[k]
           q == PfadVon(uebersicht, k, u)
<1>1. Gueltig(uebersicht) /\ Gut(uebersicht)
  BY DEF IInv, UebersichtInv, RubrikInv
<1>2. /\ k \in 1..Len(uebersicht.Kategorien) /\ Eintrag(s, uebersicht, k, IWerte)
      /\ u \in 1..Len(z) /\ r \in 1..Len(s.felder["ItemsNamen"][u])
  BY TippbarLesen
<1>3. /\ z \in Seq(UnterkategorieNamen) /\ Injektiv(z)
      /\ uebersicht.Expanded2[k] \in Seq(BOOLEAN) /\ Listen(G, z, IWerte)
  BY <1>1, <1>2, GutLesen
<1>4. Listen(s.felder, z, IWerte) /\ GleichBisKommentar(s.felder, G)
  BY <1>2, OhneKommentarFelder DEF Eintrag, GleichBisKommentar, ListenVon
<1>5. s.felder["ItemsNamen"] = G["ItemsNamen"]
  BY <1>4, OhneKommentarFelder DEF GleichBisKommentar
<1>6. IstFeld(G)
  BY DEF IstFeld, ListenVon
<1>7. z[u] \in UnterkategorieNamen
  <2> HIDE DEF z
  <2> QED BY <1>2, <1>3
<1>8. q = <<uebersicht.Kategorien[k], z[u]>>
  BY DEF PfadVon
<1>9. q \in Pfade /\ Liste(uebersicht)[q] = UnterRubrik(z, G, z[u])
  BY <1>1, <1>2, <1>7, <1>8, ListeLesenAn
<1> QED BY <1>1, <1>2, <1>3, <1>4, <1>5, <1>6, <1>7, <1>8, <1>9

\* A line goes from an Unterkategorie that keeps others.
LEMMA ListeZeileEntfernen ==
  ASSUME IInv, RubrikInv, NEW k, NEW u, NEW r, Tippbar(k, u, r), zeileEntfernen(k, u, r)
  PROVE  Liste(uebersicht') = Entfernt(uebersicht, PfadVon(uebersicht, k, u), r)
<1> DEFINE z == uebersicht.Unterkategorien[k]
           e == uebersicht.Expanded2[k]
           G == ListenVon(uebersicht, k)
           s == dictionary[k]
           q == PfadVon(uebersicht, k, u)
           y == z[u]
           h == ZeilenOhne(s, u, r)
           X == RemoveAt(UnterRubrik(z, G, y), r)
<1>1. /\ Gueltig(uebersicht) /\ k \in 1..Len(uebersicht.Kategorien)
      /\ z \in Seq(UnterkategorieNamen) /\ Injektiv(z) /\ e \in Seq(BOOLEAN)
      /\ Listen(s.felder, z, IWerte) /\ GleichBisKommentar(s.felder, G)
      /\ u \in 1..Len(z) /\ y \in UnterkategorieNamen
      /\ r \in 1..Len(G["ItemsNamen"][u])
      /\ q = <<uebersicht.Kategorien[k], y>> /\ q \in Pfade
      /\ Liste(uebersicht)[q] = UnterRubrik(z, G, y)
  BY TippbarListe
<1>2. s.felder["ItemsNamen"] = G["ItemsNamen"]
  BY <1>1, OhneKommentarFelder DEF GleichBisKommentar
<1>3. uebersicht' = KategorieMit(uebersicht, k, z, e, h)
  <2>1. uebersicht' = ListenMit(uebersicht, k, h)
    BY ZeileEntfernenWirkung
  <2>2. Wohlgeformt(uebersicht, KategorieNamen, UnterkategorieNamen, IWerte)
    BY <1>1 DEF Gueltig
  <2> HIDE DEF h
  <2> QED BY <1>1, <2>1, <2>2, ListenMitIstKategorieMit
<1> HIDE DEF z, e, G, s, q
<1>4. /\ z \in Seq(UnterkategorieNamen) /\ Injektiv(z) /\ u \in 1..Len(z)
      /\ Listen(s.felder, z, IWerte) /\ r \in 1..Len(s.felder["ItemsNamen"][u])
  BY <1>1, <1>2
<1>5. \A x : UnterRubrik(z, s.felder, x) = UnterRubrik(z, G, x)
  BY <1>1, UnterRubrikGleich
<1>6. Listen(h, z, IWerte)
  BY <1>4, ListenZeileRemoveAt
<1>7. \A x : UnterRubrik(z, h, x) = IF x = y THEN RemoveAt(UnterRubrik(z, s.felder, x), r)
                                      ELSE UnterRubrik(z, s.felder, x)
  <2>1. ZeileFehlt(z, ZeilenOhne(s, u, r), s.felder, y, r)
    <3> HIDE DEF h, X
    <3> QED BY <1>4, UnterRubrikOhneZeile, Zenon
  <2> QED BY <2>1 DEF ZeileFehlt
<1> HIDE DEF h
<1>8. NurRubrik(uebersicht, k, z, h, y, X)
  BY <1>5, <1>7 DEF NurRubrik, z, G
<1>9. Geaendert(uebersicht, q, X) = Entfernt(uebersicht, q, r)
  <2> HIDE DEF y
  <2> QED BY <1>1 DEF Geaendert, Entfernt
<1> HIDE DEF X, y
<1>10. Liste(KategorieMit(uebersicht, k, z, e, h))
         = Geaendert(uebersicht, <<uebersicht.Kategorien[k], y>>, X)
  BY <1>1, <1>6, <1>8, ListeKategorieMit
<1> QED BY <1>1, <1>3, <1>9, <1>10 DEF q

\* The only line of an Unterkategorie goes.
LEMMA ListeUnterkategorieEntfernen ==
  ASSUME IInv, RubrikInv, NEW k, NEW u, NEW r, Tippbar(k, u, r), unterkategorieEntfernen(k, u)
  PROVE  Liste(uebersicht') = Entfernt(uebersicht, PfadVon(uebersicht, k, u), r)
<1> DEFINE c == uebersicht.Unterkategorien[k]
           d == uebersicht.Expanded2[k]
           G == ListenVon(uebersicht, k)
           s == dictionary[k]
           q == PfadVon(uebersicht, k, u)
           y == c[u]
           z == RemoveAt(c, u)
           e == RemoveAt(d, u)
           g == ListenOhneRubrik(G, u)
           X == RemoveAt(UnterRubrik(c, G, y), r)
<1>1. /\ Gueltig(uebersicht) /\ k \in 1..Len(uebersicht.Kategorien)
      /\ c \in Seq(UnterkategorieNamen) /\ Injektiv(c)
      /\ Listen(G, c, IWerte) /\ GleichBisKommentar(s.felder, G)
      /\ u \in 1..Len(c) /\ y \in UnterkategorieNamen
      /\ r \in 1..Len(G["ItemsNamen"][u])
      /\ q = <<uebersicht.Kategorien[k], y>> /\ q \in Pfade
      /\ Liste(uebersicht)[q] = UnterRubrik(c, G, y)
  BY TippbarListe
<1>2. Len(G["ItemsNamen"][u]) = 1 /\ r = 1
  <2>1. s.felder["ItemsNamen"] = G["ItemsNamen"]
    BY <1>1, OhneKommentarFelder DEF GleichBisKommentar
  <2>2. Len(s.felder["ItemsNamen"][u]) = 1
    BY DEF unterkategorieEntfernen
  <2> HIDE DEF G, s
  <2> QED BY <1>1, <2>1, <2>2
<1>3. d \in Seq(BOOLEAN) /\ Len(d) = Len(c)
  <2> HIDE DEF G, s, q, y, z, e, g, X
  <2>1. Wohlgeformt(uebersicht, KategorieNamen, UnterkategorieNamen, IWerte)
    BY <1>1 DEF Gueltig
  <2>2. k \in 1..Len(uebersicht.Kategorien)
    BY <1>1
  <2>3. /\ uebersicht.Expanded2[k] \in Seq(BOOLEAN)
        /\ Len(uebersicht.Expanded2[k]) = Len(uebersicht.Unterkategorien[k])
    <3> HIDE DEF c, d
    <3> QED BY <2>1, <2>2, KategorieLesen
  <2> QED BY <2>3, Zenon
<1>4. uebersicht' = KategorieMit(uebersicht, k, z, e, g)
  BY DEF unterkategorieEntfernen, OhneUnterkategorie, KategorieMit, ListenVon,
         ListenOhneRubrik
<1> HIDE DEF c, d, G, s, q
<1>5. Listen(g, z, IWerte)
  BY <1>1, ListenRemoveAt
<1>6. z \in Seq(UnterkategorieNamen) /\ e \in Seq(BOOLEAN)
  BY <1>1, <1>3, FolgeRemoveAtGleich
<1>7. \A x : UnterRubrik(z, g, x) = IF x = y THEN RemoveAt(UnterRubrik(c, G, x), 1)
                                      ELSE UnterRubrik(c, G, x)
  BY <1>1, <1>2, UnterRubrikOhneRubrik
<1> HIDE DEF z, e, g
<1>8. NurRubrik(uebersicht, k, z, g, y, X)
  BY <1>2, <1>7 DEF NurRubrik, c, G
<1>9. Geaendert(uebersicht, q, X) = Entfernt(uebersicht, q, r)
  <2> HIDE DEF y
  <2> QED BY <1>1 DEF Geaendert, Entfernt
<1> HIDE DEF X, y
<1>10. Liste(KategorieMit(uebersicht, k, z, e, g))
         = Geaendert(uebersicht, <<uebersicht.Kategorien[k], y>>, X)
  BY <1>1, <1>5, <1>6, <1>8, ListeKategorieMit
<1> QED BY <1>1, <1>4, <1>9, <1>10 DEF q

\* The only line of a Kategorie goes.
LEMMA ListeKategorieEntfernen ==
  ASSUME IInv, RubrikInv, NEW k, NEW u, NEW r, Tippbar(k, u, r), kategorieEntfernen(k, u)
  PROVE  Liste(uebersicht') = Entfernt(uebersicht, PfadVon(uebersicht, k, u), r)
<1> DEFINE b == uebersicht
           z == b.Unterkategorien[k]
           G == ListenVon(b, k)
           s == dictionary[k]
           q == PfadVon(b, k, u)
           kat == b.Kategorien[k]
           y == z[u]
           X == RemoveAt(UnterRubrik(z, G, y), r)
<1>1. /\ Gueltig(b) /\ k \in 1..Len(b.Kategorien)
      /\ z \in Seq(UnterkategorieNamen) /\ Injektiv(z)
      /\ Listen(G, z, IWerte) /\ GleichBisKommentar(s.felder, G)
      /\ u \in 1..Len(z) /\ y \in UnterkategorieNamen
      /\ r \in 1..Len(G["ItemsNamen"][u])
      /\ q = <<kat, y>> /\ q \in Pfade
      /\ Liste(b)[q] = UnterRubrik(z, G, y)
  BY TippbarListe
<1>2. /\ Len(G["ItemsNamen"][u]) = 1 /\ r = 1
      /\ Len(z) = 1 /\ u = 1
  <2>1. s.felder["ItemsNamen"] = G["ItemsNamen"]
    BY <1>1, OhneKommentarFelder DEF GleichBisKommentar
  <2>2. Len(s.felder["ItemsNamen"][u]) = 1 /\ Len(s.Unterkategorie) = 1
    BY DEF kategorieEntfernen
  <2>3. s.Unterkategorie = z
    BY TippbarLesen DEF Eintrag
  <2>4. r \in 1..Len(G["ItemsNamen"][u]) /\ u \in 1..Len(z)
    BY <1>1
  <2> HIDE DEF G, s, z
  <2>5. Len(G["ItemsNamen"][u]) = 1 /\ Len(z) = 1
    BY <2>1, <2>2, <2>3
  <2> QED BY <2>4, <2>5
<1>3. /\ b.Kategorien \in Seq(KategorieNamen) /\ Injektiv(b.Kategorien)
  BY <1>1, GueltigKategorien
<1>4. \A p : ZeilenUnter(OhneKategorie(b, k), p) = IF p[1] = kat THEN <<>> ELSE ZeilenUnter(b, p)
  BY <1>1, ZeilenOhneKategorie
<1>5. uebersicht' = OhneKategorie(b, k)
  BY DEF kategorieEntfernen
<1>6. X = <<>>
  <2>1. UnterRubrik(z, G, y) = ReiheVon(G, u)
    BY <1>1, UnterRubrikLesen
  <2>2. Lang(G, u, 1, IWerte)
    BY <1>1, <1>2, ListenLang
  <2> DEFINE t == ReiheVon(G, u)  T == ZeilenBis(G, u, 1)
  <2>3. t \in Seq(T) /\ Len(t) = 1
    BY <2>2, ReiheLesen
  <2> HIDE DEF t, T
  <2>4. RemoveAt(t, 1) \in Seq(T) /\ Len(RemoveAt(t, 1)) = 0
    <3>1. 1 \in 1..Len(t)
      BY <2>3
    <3>2. RemoveAt(t, 1) \in Seq(T) /\ Len(RemoveAt(t, 1)) = Len(t) - 1
      BY <2>3, <3>1, RemoveAtFolge
    <3> QED BY <2>3, <3>2
  <2>5. RemoveAt(t, 1) = <<>>
    BY <2>4
  <2> QED BY <1>2, <2>1, <2>5 DEF t
<1>7. \A p \in Pfade : p = q <=> p[1] = kat /\ p[2] = y
  <2>1. kat \in KategorieNamen
    BY <1>1, <1>3
  <2> HIDE DEF kat, y
  <2> QED BY <1>1, <2>1, PfadGleich
<1> HIDE DEF X
<1>8. ASSUME NEW p \in Pfade
      PROVE  ZeilenUnter(OhneKategorie(b, k), p) = IF p = q THEN X ELSE ZeilenUnter(b, p)
  <2>1. CASE p[1] # kat
    BY <1>4, <1>7, <2>1
  <2>2. CASE p[1] = kat /\ p[2] = y
    BY <1>4, <1>6, <1>7, <2>2
  <2>3. CASE p[1] = kat /\ p[2] # y
    <3>1. ZeilenUnter(b, p) = UnterRubrik(z, G, p[2])
      BY <1>1, <1>3, <2>3, ZeilenUnterLesen
    <3>2. ~Contains(z, p[2])
      <4> HIDE DEF z
      <4> QED BY <1>1, <1>2, <2>3, EnthaltenIndex
    <3> QED BY <1>4, <1>7, <2>3, <3>1, <3>2 DEF UnterRubrik
  <2> QED BY <2>1, <2>2, <2>3
<1> DEFINE bb == OhneKategorie(b, k)
<1> HIDE DEF q, bb, b
<1>9. NurAn(bb, b, q, X)
  BY <1>8, Zenon DEF NurAn, bb
<1>10. q \in Pfade
  BY <1>1
<1>11. Liste(bb) = Geaendert(b, q, X)
  BY <1>9, <1>10, ListeAn, Zenon
<1>12. Geaendert(b, q, X) = Entfernt(b, q, r)
  <2>1. Liste(b)[q] = UnterRubrik(z, G, y)
    BY <1>1
  <2> HIDE DEF z, G, y
  <2> QED BY <2>1 DEF Geaendert, Entfernt, X
<1> QED BY <1>5, <1>11, <1>12 DEF b, q, bb

LEMMA ListeEntfernen ==
  ASSUME IInv, RubrikInv, NEW k, NEW u, NEW r, passItemEntfernen(k, u, r)
  PROVE  Liste(uebersicht') = Entfernt(uebersicht, PfadVon(uebersicht, k, u), r)
  BY ListeZeileEntfernen, ListeUnterkategorieEntfernen, ListeKategorieEntfernen, Zenon
     DEF passItemEntfernen

\* Plus and minus change one quantity.
LEMMA ListeMengeSetzen ==
  ASSUME IInv, RubrikInv, NEW k, NEW u, NEW r, Tippbar(k, u, r), NEW n \in Nat \ {0},
         mengeSetzen(k, u, r, n)
  PROVE  Liste(uebersicht') = MitMenge(uebersicht, PfadVon(uebersicht, k, u), r, n)
<1> DEFINE z == uebersicht.Unterkategorien[k]
           e == uebersicht.Expanded2[k]
           G == ListenVon(uebersicht, k)
           q == PfadVon(uebersicht, k, u)
           y == z[u]
           h == WertMit(G, "ItemsMengen", u, r, n)
           X == [UnterRubrik(z, G, y) EXCEPT ![r].ItemsMengen = n]
<1>1. /\ Gueltig(uebersicht) /\ k \in 1..Len(uebersicht.Kategorien)
      /\ z \in Seq(UnterkategorieNamen) /\ Injektiv(z) /\ e \in Seq(BOOLEAN)
      /\ Listen(G, z, IWerte) /\ IstFeld(G)
      /\ u \in 1..Len(z) /\ y \in UnterkategorieNamen
      /\ r \in 1..Len(G["ItemsNamen"][u])
      /\ q = <<uebersicht.Kategorien[k], y>> /\ q \in Pfade
      /\ Liste(uebersicht)[q] = UnterRubrik(z, G, y)
  BY TippbarListe
<1>2. n \in IWerte["ItemsMengen"]
  BY DEF IWerte
<1>3. uebersicht' = KategorieMit(uebersicht, k, z, e, h)
  <2>1. uebersicht' = ListenMit(uebersicht, k, h)
    BY MengeSetzenWirkung
  <2>2. Wohlgeformt(uebersicht, KategorieNamen, UnterkategorieNamen, IWerte)
    BY <1>1 DEF Gueltig
  <2> HIDE DEF h
  <2> QED BY <1>1, <2>1, <2>2, ListenMitIstKategorieMit
<1> HIDE DEF z, e, G, q
<1>4. Listen(h, z, IWerte)
  <2> DEFINE f0 == "ItemsMengen"
  <2>1. f0 \in Felder /\ f0 # "ItemsNamen" /\ n \in IWerte[f0]
    BY <1>2, OhneKommentarFelder
  <2> HIDE DEF f0
  <2>2. Listen(WertMit(G, f0, u, r, n), z, IWerte)
    BY <1>1, <2>1, ListenWert
  <2> QED BY <2>2 DEF f0
<1>5. \A x : UnterRubrik(z, h, x) = IF x = y THEN [UnterRubrik(z, G, x) EXCEPT ![r].ItemsMengen = n]
                                      ELSE UnterRubrik(z, G, x)
  BY <1>1, <1>2, UnterRubrikWert
<1> HIDE DEF h
<1>6. NurRubrik(uebersicht, k, z, h, y, X)
  BY <1>5 DEF NurRubrik, z, G
<1>7. Geaendert(uebersicht, q, X) = MitMenge(uebersicht, q, r, n)
  <2> HIDE DEF y
  <2> QED BY <1>1 DEF Geaendert, MitMenge
<1> HIDE DEF X, y
<1>8. Liste(KategorieMit(uebersicht, k, z, e, h))
         = Geaendert(uebersicht, <<uebersicht.Kategorien[k], y>>, X)
  BY <1>1, <1>4, <1>6, ListeKategorieMit
<1> QED BY <1>1, <1>3, <1>7, <1>8 DEF q

\* A comment changes nothing that the list promises.
LEMMA ListeKommentar ==
  ASSUME IInv, RubrikInv, NEW k, NEW u, NEW r, InKommentaren(k, u, r), NEW text \in Kommentare,
         uebersicht' = [uebersicht EXCEPT !.felder["ItemsKommentar"][k][u][r] = text]
  PROVE  Liste(uebersicht') = Liste(uebersicht)
<1> DEFINE z == uebersicht.Unterkategorien[k]
           e == uebersicht.Expanded2[k]
           G == ListenVon(uebersicht, k)
           h == WertMit(G, "ItemsKommentar", u, r, text)
<1>1. /\ k \in 1..Len(uebersicht.Kategorien) /\ uebersicht' = ListenMit(uebersicht, k, h)
      /\ Listen(h, z, IWerte) /\ GleichBisKommentar(h, G)
  BY KommentarWirkung
<1>2. Gueltig(uebersicht) /\ Gut(uebersicht)
  BY DEF IInv, UebersichtInv, RubrikInv
<1>3. z \in Seq(UnterkategorieNamen) /\ e \in Seq(BOOLEAN)
  BY <1>1, <1>2, GutLesen
<1> HIDE DEF h
<1>4. uebersicht' = KategorieMit(uebersicht, k, z, e, h)
  BY <1>1, <1>2, ListenMitIstKategorieMit DEF Gueltig
<1>5. \A p : ZeilenUnter(KategorieMit(uebersicht, k, z, e, h), p)
               = IF p[1] = uebersicht.Kategorien[k] THEN UnterRubrik(z, h, p[2])
                 ELSE ZeilenUnter(uebersicht, p)
  BY <1>1, <1>2, <1>3, KategorieMitAndere
<1>6. \A p : p[1] = uebersicht.Kategorien[k] =>
        ZeilenUnter(uebersicht, p) = UnterRubrik(z, h, p[2])
  <2>1. uebersicht.Kategorien \in Seq(KategorieNamen) /\ Injektiv(uebersicht.Kategorien)
    BY <1>2, GueltigKategorien
  <2>2. \A x : UnterRubrik(z, h, x) = UnterRubrik(z, G, x)
    BY <1>1, UnterRubrikGleich
  <2> QED BY <1>1, <2>1, <2>2, ZeilenUnterLesen
<1> DEFINE a == KategorieMit(uebersicht, k, z, e, h)
<1>7. \A p : ZeilenUnter(a, p) = ZeilenUnter(uebersicht, p)
  BY <1>5, <1>6
<1> HIDE DEF a
<1>8. Liste(a) = Liste(uebersicht)
  BY <1>7, ListeGleich
<1> QED BY <1>4, <1>8 DEF a

-----------------------------------------------------------------------------
(* Where the order is: in the overview as long as that is open, else in    *)
(* the menu.                                                               *)

OrtInv ==
  /\ uebersichtOffen => ansicht \in {"uebersicht", "alert", "abgeschickt"}
  /\ ansicht = "uebersicht" \/ popGeplant => uebersichtOffen
  /\ popGeplant => dictionary = <<>>
  /\ ansicht = "alert" /\ ~uebersichtOffen => bestellung.Kategorien = <<>>

LEMMA NeueSitzungOrt ==
  ASSUME NeueSitzung, ansicht' \in {"menue", "abgestuerzt"}
  PROVE  OrtInv'
  BY DEF NeueSitzung, OrtInv

\* In the menu and the popup nothing of it changes.
LEMMA MenueOrt ==
  ASSUME OrtInv, ansicht \in {"menue", "popup", "extras"},
         ansicht' \in {"menue", "popup", "extras"}, UNCHANGED uebersichtVars
  PROVE  OrtInv'
  BY DEF OrtInv, uebersichtVars

LEMMA PopupOrt ==
  ASSUME OrtInv, Popup
  PROVE  OrtInv'
<1>1. ASSUME NEW t, NEW s, NEW s2, NEW r2, pass(t, s, s2, r2) PROVE OrtInv'
  <2>1. CASE Absturz
    BY <2>1, NeueSitzungOrt DEF Absturz
  <2>2. CASE ~Absturz
    BY <1>1, <2>2, MenueOrt DEF pass
  <2> QED BY <2>1, <2>2
<1>2. ASSUME NEW text, kommentarTippen(text) PROVE OrtInv'
  BY <1>2, MenueOrt DEF kommentarTippen
<1>3. CASE funcItemPlusTapped \/ funcItemMinusTapped
  BY <1>3, MenueOrt DEF funcItemPlusTapped, funcItemMinusTapped
<1>4. CASE openExtras \/ closeExtras \/ extrasHinzufuegen
  BY <1>4, MenueOrt DEF openExtras, closeExtras, extrasHinzufuegen
<1>5. CASE selectExtra
  BY <1>5, MenueOrt DEF selectExtra
<1>6. CASE aktualisierungAbbrechen
  BY <1>6, MenueOrt DEF aktualisierungAbbrechen
<1>7. CASE dismissPopUp
  BY <1>7, MenueOrt DEF dismissPopUp
<1> QED BY <1>1, <1>2, <1>3, <1>4, <1>5, <1>6, <1>7 DEF Popup

\* A dictionary without sections goes with arrays without Kategorien.
LEMMA OhneSections ==
  ASSUME IInv, dictionary = <<>>
  PROVE  uebersicht.Kategorien = <<>>
<1>1. Spiegel(dictionary, uebersicht, KategorieNamen, UnterkategorieNamen, IWerte)
  BY DEF IInv, UebersichtInv
<1>2. uebersicht.Kategorien \in Seq(KategorieNamen)
  BY GueltigKategorien DEF IInv, UebersichtInv
<1>3. Len(uebersicht.Kategorien) = 0
  BY <1>1 DEF Spiegel
<1> QED BY <1>2, <1>3

LEMMA ZeileGeaendertOrt ==
  ASSUME OrtInv, NEW k, NEW u, NEW r, ZeileGeaendert(k, u, r)
  PROVE  OrtInv'
<1>1. ansicht = "uebersicht" /\ k \in DOMAIN dictionary
  BY DEF ZeileGeaendert, passItemEntfernen, passItemPlus, passItemMinus, kommentarBeginnen, Tippbar
<1>2. UNCHANGED <<ansicht, uebersichtOffen, bestellung>>
  BY DEF ZeileGeaendert, passItemEntfernen, passItemPlus, passItemMinus, mengeSetzen,
         kommentarBeginnen, menueVars
<1>3. ~popGeplant
  <2>1. DOMAIN <<>> = {}
    OBVIOUS
  <2> QED BY <1>1, <2>1 DEF OrtInv
<1>4. popGeplant' => dictionary' = <<>>
  BY <1>3 DEF ZeileGeaendert, passItemEntfernen, zeileEntfernen, unterkategorieEntfernen,
              kategorieEntfernen, passItemPlus, passItemMinus, mengeSetzen, kommentarBeginnen
<1> QED BY <1>1, <1>2, <1>4 DEF OrtInv

LEMMA UebersichtOrt ==
  ASSUME OrtInv, Uebersicht
  PROVE  OrtInv'
<1>1. ASSUME NEW text, passKommentarAendern(text) PROVE OrtInv'
  <2>1. CASE Absturz
    BY <2>1, NeueSitzungOrt DEF Absturz
  <2>2. CASE ~Absturz
    <3>1. UNCHANGED <<ansicht, menueVars, uebersichtOffen, dictionary, popGeplant>>
      BY <1>1, <2>2 DEF passKommentarAendern
    <3> QED BY <3>1 DEF OrtInv, menueVars
  <2> QED BY <2>1, <2>2
<1> QED BY <1>1, ZeileGeaendertOrt DEF Uebersicht

LEMMA NavigationOrt ==
  ASSUME IInv, OrtInv, Navigation
  PROVE  OrtInv'
<1>1. CASE bestellungPruefen
  BY <1>1 DEF bestellungPruefen, OrtInv
<1>2. CASE menueVerlassen \/ abgeschicktVerlassen \/ appStarten
  BY <1>2, NeueSitzungOrt DEF menueVerlassen, abgeschicktVerlassen, appStarten
<1>3. CASE zurueck
  BY <1>3 DEF zurueck, uebersichtSchliessen, OrtInv
<1>4. CASE abschicken \/ alertAbbrechen \/ alertAbschicken
  BY <1>4 DEF abschicken, alertAbbrechen, alertAbschicken, menueVars, uebersichtVars, OrtInv
<1>5. CASE popNachLeer
  <2>1. CASE abgeschicktVerlassen
    BY <1>2, <2>1
  <2>2. CASE ~abgeschicktVerlassen
    <3>1. uebersicht.Kategorien = <<>>
      BY <1>5, OhneSections DEF popNachLeer, OrtInv
    <3>2. /\ ansicht' \in {"menue", "alert"} /\ uebersichtOffen' = FALSE
          /\ popGeplant' = FALSE /\ bestellung' = uebersicht
      BY <1>5, <2>2 DEF popNachLeer, uebersichtSchliessen
    <3> QED BY <3>1, <3>2 DEF OrtInv
  <2> QED BY <2>1, <2>2
<1> QED BY <1>1, <1>2, <1>3, <1>4, <1>5 DEF Navigation

LEMMA NextOrt == IInv /\ OrtInv /\ [Next]_vars => OrtInv'
<1> SUFFICES ASSUME IInv, OrtInv, [Next]_vars PROVE OrtInv'
  OBVIOUS
<1>1. CASE UNCHANGED vars
  BY <1>1 DEF vars, menueVars, uebersichtVars, OrtInv
<1> QED BY <1>1, PopupOrt, UebersichtOrt, NavigationOrt DEF Next

-----------------------------------------------------------------------------
(* The lines that the popup adds are among those of Bestellliste.          *)

LEMMA MoeglicheZeile ==
  ASSUME IInv, PaareInv, ansicht = "popup", entwurf.itemCountLbl # 0
  PROVE  OhneText(Zeile(entwurf)) \in MoeglicheZeilen
<1> DEFINE N == entwurf.extrasNamen
           P == entwurf.extrasPreise
           n == Len(N)
           a == entwurf.artikel
           m == entwurf.itemCountLbl
<1>1. /\ N \in Seq(Namen) /\ P \in Seq(Preise) /\ Len(N) = Len(P)
      /\ \A i \in 1..n : <<N[i], P[i]>> \in Extrapaare
      /\ \A i, j \in 1..n : N[i] = N[j] => i = j
  <2>1. <<N, P>> \in Paare(Namen, Preise, Extrapaare) /\ Injektiv(N)
    BY DEF PaareInv, Auswahl
  <2> HIDE DEF N, P
  <2>2. /\ N \in Seq(Namen) /\ P \in Seq(Preise) /\ Len(N) = Len(P)
        /\ \A i \in 1..n : <<N[i], P[i]>> \in Extrapaare
    BY <2>1, PaareLesen
  <2> QED BY <2>1, <2>2 DEF Injektiv
<1>2. a \in Artikel /\ m \in 1..MaxMenge
  BY SchrankenAssumption DEF SchrankenAssumption, IInv, EntwurfInv, EntwurfTyp
<1>3. n \in Nat
  BY <1>1
<1> DEFINE x == [i \in 1..n |-> CHOOSE e \in Extra : e.name = N[i] /\ e.preis = P[i]]
<1>4. ASSUME NEW i \in 1..n
      PROVE  x[i] \in Extra /\ x[i].name = N[i] /\ x[i].preis = P[i]
  <2>1. \E e \in Extra : <<N[i], P[i]>> = <<e.name, e.preis>>
    BY <1>1 DEF Extrapaare
  <2>2. \E e \in Extra : e.name = N[i] /\ e.preis = P[i]
    BY <2>1
  <2> QED BY <2>2
<1> HIDE DEF x
<1>5. x \in [1..n -> Extra]
  BY <1>4 DEF x
<1>6. \A i, j \in 1..n : x[i] = x[j] => i = j
  BY <1>1, <1>4
<1>7. n <= Cardinality(Extra) /\ Cardinality(Extra) \in Nat
  <2>1. IsFiniteSet(Extra)
    BY ExtrasAssumption DEF ExtrasAssumption
  <2>2. x \in Injection(1..n, Extra)
    BY <1>5, <1>6 DEF Injection, IsInjective
  <2>3. IsFiniteSet(1..n) /\ Cardinality(1..n) <= Cardinality(Extra)
    BY <2>1, <2>2, FS_Injection
  <2>4. Cardinality(1..n) = n
    BY <1>3, FS_Interval
  <2> QED BY <2>1, <2>3, <2>4, FS_CardinalityType
<1>8. x \in UNION {[1..i -> Extra] : i \in 0..Cardinality(Extra)}
  BY <1>3, <1>5, <1>7
<1> DEFINE e == [LeererEntwurf EXCEPT !.artikel = a, !.itemCountLbl = m,
                                      !.extrasNamen = [i \in DOMAIN x |-> x[i].name],
                                      !.extrasPreise = [i \in DOMAIN x |-> x[i].preis]]
<1>9. [i \in DOMAIN x |-> x[i].name] = N /\ [i \in DOMAIN x |-> x[i].preis] = P
  <2>1. DOMAIN x = 1..n /\ DOMAIN N = 1..n /\ DOMAIN P = 1..n
    BY <1>1, <1>5
  <2>2. N = [i \in 1..n |-> N[i]] /\ P = [i \in 1..n |-> P[i]]
    BY <1>1, <2>1
  <2> HIDE DEF N, P, n
  <2> QED BY <1>4, <2>1, <2>2
<1> HIDE DEF N, P
<1>10. /\ e.artikel = a /\ e.itemCountLbl = m
       /\ e.extrasNamen = N /\ e.extrasPreise = P
  BY <1>9 DEF LeererEntwurf
<1> HIDE DEF e
<1>11. \A f \in OhneKommentar : Zeile(e)[f] = Zeile(entwurf)[f]
  BY <1>10 DEF Zeile, OhneKommentar, Felder, N, P
<1>12. OhneText(Zeile(entwurf)) = [f \in OhneKommentar |-> Zeile(e)[f]]
  BY <1>11 DEF OhneText
<1> DEFINE Gebaut(aa, mm, xx) ==
             [f \in OhneKommentar |->
                Zeile([LeererEntwurf EXCEPT !.artikel = aa, !.itemCountLbl = mm,
                         !.extrasNamen = [i \in DOMAIN xx |-> xx[i].name],
                         !.extrasPreise = [i \in DOMAIN xx |-> xx[i].preis]])[f]]
           X == UNION {[1..i -> Extra] : i \in 0..Cardinality(Extra)}
<1>13. MoeglicheZeilen = {Gebaut(aa, mm, xx) : aa \in Artikel, mm \in 1..MaxMenge, xx \in X}
  BY DEF MoeglicheZeilen
<1>14. OhneText(Zeile(entwurf)) = Gebaut(a, m, x)
  BY <1>12 DEF e
<1>15. x \in X
  BY <1>8
<1> HIDE DEF a, m, n, X, Gebaut
<1> QED BY <1>2, <1>13, <1>14, <1>15

-----------------------------------------------------------------------------
(* The refinement, step by step.                                           *)

\* The variables of Bestellliste.
Ist == Liste(IF uebersichtOffen THEN uebersicht ELSE bestellung)
Versandt == [n \in DOMAIN gesendet |-> Liste(AlsArrays(gesendet[n]))]

LInv == IInv /\ RubrikInv /\ PaareInv /\ VersandInv /\ OrtInv

Stumm == Ist' = Ist /\ Versandt' = Versandt

LEMMA IstOffen ==
  /\ uebersichtOffen => Ist = Liste(uebersicht)
  /\ ~uebersichtOffen => Ist = Liste(bestellung)
  BY DEF Ist

LEMMA IstDannOffen ==
  /\ uebersichtOffen' => Ist' = Liste(uebersicht')
  /\ ~uebersichtOffen' => Ist' = Liste(bestellung')
  BY DEF Ist

LEMMA VersandtGleich ==
  gesendet' = gesendet => Versandt' = Versandt
  BY DEF Versandt

LEMMA ListeLeer ==
  ASSUME NEW b, b.Kategorien = <<>>
  PROVE  Liste(b) = Liste_!LeereListe
<1>1. \A p : ~Contains(b.Kategorien, p[1])
  BY DEF Contains
<1>2. \A p : ZeilenUnter(b, p) = <<>>
  BY <1>1, ZeilenUnterFehlt
<1> QED BY <1>2 DEF Liste, Liste_!LeereListe

\* What counts as a step of Bestellliste.
LEMMA HinzufuegenGilt ==
  ASSUME NEW p \in Pfade, NEW z \in MoeglicheZeilen,
         Ist' = [Ist EXCEPT ![p] = Append(@, z)], Versandt' = Versandt
  PROVE  Liste_!Next
<1>1. Liste_!Hinzufuegen(p)
  BY DEF Liste_!Hinzufuegen, Ist, Versandt
<1> QED BY <1>1 DEF Liste_!Next

LEMMA EntfernenGilt ==
  ASSUME NEW p \in Pfade, NEW n \in DOMAIN Ist[p],
         Ist' = [Ist EXCEPT ![p] = RemoveAt(@, n)], Versandt' = Versandt
  PROVE  Liste_!Next
<1>0. Liste_!RemoveAt(Ist[p], n) = RemoveAt(Ist[p], n)
  BY DEF Liste_!RemoveAt, RemoveAt
<1>1. Liste_!Entfernen(p, n)
  BY <1>0 DEF Liste_!Entfernen, Ist, Versandt
<1> QED BY <1>1 DEF Liste_!Next, Ist

LEMMA MehrGilt ==
  ASSUME NEW p \in Pfade, NEW n \in DOMAIN Ist[p],
         Ist' = [Ist EXCEPT ![p][n].ItemsMengen = @ + 1], Versandt' = Versandt
  PROVE  Liste_!Next
<1>1. Liste_!Mehr(p, n)
  BY DEF Liste_!Mehr, Ist, Versandt
<1> QED BY <1>1 DEF Liste_!Next, Ist

LEMMA WenigerGilt ==
  ASSUME NEW p \in Pfade, NEW n \in DOMAIN Ist[p], Ist[p][n].ItemsMengen > 1,
         Ist' = [Ist EXCEPT ![p][n].ItemsMengen = @ - 1], Versandt' = Versandt
  PROVE  Liste_!Next
<1>1. Liste_!Weniger(p, n)
  BY DEF Liste_!Weniger, Ist, Versandt
<1> QED BY <1>1 DEF Liste_!Next, Ist

LEMMA AbsendenGilt ==
  ASSUME Ist' = Ist, Versandt' = Append(Versandt, Ist)
  PROVE  Liste_!Next
<1>1. Liste_!Absenden
  BY DEF Liste_!Absenden, Ist, Versandt
<1> QED BY <1>1 DEF Liste_!Next

LEMMA NeuBeginnenGilt ==
  ASSUME NeueSitzung
  PROVE  Liste_!Next
<1>1. uebersichtOffen' = FALSE /\ bestellung' = LeereBestellung /\ gesendet' = <<>>
  BY DEF NeueSitzung
<1>2. Ist' = Liste_!LeereListe
  <2>1. LeereBestellung.Kategorien = <<>>
    BY DEF LeereBestellung
  <2> QED BY <1>1, <2>1, ListeLeer, IstDannOffen
<1>3. Versandt' = <<>>
  BY <1>1 DEF Versandt
<1>4. Liste_!NeuBeginnen
  BY <1>2, <1>3 DEF Liste_!NeuBeginnen, Ist, Versandt
<1> QED BY <1>4 DEF Liste_!Next

\* The menu and the popup: at most a line is added.
LEMMA DismissPopUpSchritt ==
  ASSUME LInv, dismissPopUp
  PROVE  Liste_!Next \/ Stumm
<1>1. /\ ansicht = "popup" /\ ansicht' = "menue" /\ gesendet' = gesendet
      /\ uebersichtOffen' = uebersichtOffen
  BY DEF dismissPopUp, uebersichtVars
<1>2. ~uebersichtOffen
  BY <1>1 DEF LInv, OrtInv
<1>3. CASE bestellung' = bestellung
  BY <1>1, <1>2, <1>3, VersandtGleich, IstOffen, IstDannOffen DEF Stumm
<1>4. CASE entwurf.i > 0 /\ bestellung' = MitZeile(bestellung, entwurf.Kategorie,
                                                   entwurf.Unterkategorie, Zeile(entwurf))
  <2> DEFINE kat == entwurf.Kategorie
             ukat == entwurf.Unterkategorie
             w == Zeile(entwurf)
  <2>1. /\ entwurf.itemCountLbl # 0 /\ entwurf \in EntwurfTyp /\ entwurf.artikel \in Artikel
        /\ kat \in KategorieNamen /\ ukat \in UnterkategorieNamen
        /\ Gueltig(bestellung) /\ Gut(bestellung)
    <3>1. /\ entwurf.itemCountLbl \in {1, entwurf.i} /\ entwurf \in EntwurfTyp
          /\ entwurf.artikel \in Artikel
          /\ kat \in KategorieNamen /\ ukat \in UnterkategorieNamen
      BY <1>1 DEF LInv, IInv, EntwurfInv
    <3>2. Gueltig(bestellung) /\ Gut(bestellung)
      BY DEF LInv, IInv, MenueInv, RubrikInv
    <3> QED BY <1>4, <3>1, <3>2
  <2>2. \A f \in Felder : w[f] \in IWerte[f]
    BY <2>1, ZeileTyp
  <2>3. OhneText(w) \in MoeglicheZeilen
    BY <1>1, <2>1, MoeglicheZeile DEF LInv
  <2> HIDE DEF kat, ukat, w
  <2>4. Liste(MitZeile(bestellung, kat, ukat, w))
          = Angehaengt(bestellung, <<kat, ukat>>, OhneText(w))
    BY <2>1, <2>2, ListeMitZeile
  <2>5. <<kat, ukat>> \in Pfade
    BY <2>1, PfadGleich
  <2>6. bestellung' = MitZeile(bestellung, kat, ukat, w)
    BY <1>4 DEF kat, ukat, w
  <2>7. Ist' = [Ist EXCEPT ![<<kat, ukat>>] = Append(@, OhneText(w))]
    BY <1>1, <1>2, <2>4, <2>6, IstOffen, IstDannOffen DEF Angehaengt
  <2>8. Versandt' = Versandt
    BY <1>1, VersandtGleich
  <2> DEFINE q == <<kat, ukat>>  v == OhneText(w)
  <2> HIDE DEF q, v
  <2>9. q \in Pfade /\ v \in MoeglicheZeilen /\ Ist' = [Ist EXCEPT ![q] = Append(@, v)]
    BY <2>3, <2>5, <2>7 DEF q, v
  <2> QED BY <2>8, <2>9, HinzufuegenGilt
<1> QED BY <1>3, <1>4 DEF dismissPopUp

LEMMA PopupSchritt ==
  ASSUME LInv, Popup
  PROVE  Liste_!Next \/ Stumm
<1>1. ASSUME UNCHANGED <<bestellung, dictionaryVC2, uebersichtVars, gesendet>> PROVE Stumm
  BY <1>1 DEF Stumm, Ist, Versandt, uebersichtVars
<1>2. ASSUME NEW t, NEW s, NEW s2, NEW r2, pass(t, s, s2, r2) PROVE Liste_!Next \/ Stumm
  BY <1>1, <1>2, NeuBeginnenGilt DEF pass, Absturz
<1>3. ASSUME NEW text, kommentarTippen(text) PROVE Stumm
  BY <1>1, <1>3 DEF kommentarTippen
<1>4. CASE funcItemPlusTapped \/ funcItemMinusTapped \/ openExtras \/ closeExtras
  BY <1>1, <1>4 DEF funcItemPlusTapped, funcItemMinusTapped, openExtras, closeExtras
<1>5. CASE extrasHinzufuegen \/ selectExtra \/ aktualisierungAbbrechen
  BY <1>1, <1>5 DEF extrasHinzufuegen, selectExtra, aktualisierungAbbrechen, menueVars
<1> QED BY <1>2, <1>3, <1>4, <1>5, DismissPopUpSchritt DEF Popup

\* A line that can be tapped is one of the list, with the quantity shown.
LEMMA TippbarIst ==
  ASSUME LInv, NEW k, NEW u, NEW r, Tippbar(k, u, r)
  PROVE  LET q == PfadVon(uebersicht, k, u) IN
         /\ uebersichtOffen /\ Ist = Liste(uebersicht)
         /\ q \in Pfade /\ r \in DOMAIN Ist[q]
         /\ Ist[q][r].ItemsMengen = dictionary[k].felder["ItemsMengen"][u][r]
         /\ Ist[q][r].ItemsMengen \in Nat \ {0}
<1> DEFINE q == PfadVon(uebersicht, k, u)
           z == uebersicht.Unterkategorien[k]
           G == ListenVon(uebersicht, k)
           n == Len(G["ItemsNamen"][u])
           m == dictionary[k].felder["ItemsMengen"][u][r]
<1>1. uebersichtOffen /\ Ist = Liste(uebersicht)
  BY IstOffen DEF LInv, OrtInv, Tippbar
<1>2. /\ z \in Seq(UnterkategorieNamen) /\ Injektiv(z) /\ Listen(G, z, IWerte)
      /\ GleichBisKommentar(dictionary[k].felder, G)
      /\ u \in 1..Len(z) /\ r \in 1..n
      /\ q \in Pfade /\ Liste(uebersicht)[q] = UnterRubrik(z, G, z[u])
  BY TippbarListe DEF LInv
<1>3. m = G["ItemsMengen"][u][r]
  BY <1>2, OhneKommentarFelder DEF GleichBisKommentar
<1> HIDE DEF q, z, G, m
<1>4. UnterRubrik(z, G, z[u]) = ReiheVon(G, u)
  BY <1>2, UnterRubrikLesen
<1>5. n \in Nat /\ Lang(G, u, n, IWerte)
  BY <1>2, ListenLang
<1> HIDE DEF n
<1>6. /\ ReiheVon(G, u) \in Seq(ZeilenBis(G, u, n)) /\ Len(ReiheVon(G, u)) = n
      /\ ReiheVon(G, u)[r] = ZeileAn(G, u, r)
  BY <1>2, <1>5, ReiheLesen
<1>7. Ist[q] = ReiheVon(G, u)
  BY <1>1, <1>2, <1>4
<1>8. r \in DOMAIN Ist[q]
  BY <1>2, <1>6, <1>7
<1>9. ZeileAn(G, u, r).ItemsMengen = G["ItemsMengen"][u][r]
  BY OhneKommentarFelder DEF ZeileAn
<1>10. G["ItemsMengen"][u][r] \in Nat \ {0}
  <2> DEFINE l == G["ItemsMengen"][u]
  <2>1. l \in Seq(Nat \ {0}) /\ Len(l) = n
    BY <1>5, OhneKommentarFelder DEF Lang, IWerte
  <2> HIDE DEF l
  <2>2. l[r] \in Nat \ {0}
    BY <1>2, <2>1
  <2> QED BY <2>2 DEF l
<1> QED BY <1>1, <1>2, <1>3, <1>6, <1>7, <1>8, <1>9, <1>10 DEF q, m

LEMMA ZeileGeaendertSchritt ==
  ASSUME LInv, NEW k, NEW u, NEW r, ZeileGeaendert(k, u, r)
  PROVE  Liste_!Next \/ Stumm
<1> DEFINE q == PfadVon(uebersicht, k, u)
           m == dictionary[k].felder["ItemsMengen"][u][r]
<1>1. Tippbar(k, u, r)
  BY DEF ZeileGeaendert, passItemEntfernen, passItemPlus, passItemMinus, kommentarBeginnen
<1>2. /\ uebersichtOffen /\ Ist = Liste(uebersicht) /\ q \in Pfade /\ r \in DOMAIN Ist[q]
      /\ Ist[q][r].ItemsMengen = m /\ m \in Nat \ {0}
  BY <1>1, TippbarIst
<1>3. uebersichtOffen' /\ Ist' = Liste(uebersicht') /\ Versandt' = Versandt
  <2>1. uebersichtOffen' = uebersichtOffen /\ gesendet' = gesendet
    BY DEF ZeileGeaendert, passItemEntfernen, passItemPlus, passItemMinus, mengeSetzen,
           kommentarBeginnen
  <2> QED BY <1>2, <2>1, IstDannOffen, VersandtGleich
<1>4. IInv /\ RubrikInv
  BY DEF LInv
<1>5. CASE passItemEntfernen(k, u, r)
  <2>1. Liste(uebersicht') = Entfernt(uebersicht, q, r)
    BY <1>4, <1>5, ListeEntfernen
  <2> HIDE DEF q
  <2>2. Ist' = [Ist EXCEPT ![q] = RemoveAt(@, r)]
    BY <1>2, <1>3, <2>1 DEF Entfernt
  <2> QED BY <1>2, <1>3, <2>2, EntfernenGilt
<1>6. CASE passItemPlus(k, u, r)
  <2>1. mengeSetzen(k, u, r, m + 1) /\ m + 1 \in Nat \ {0}
    BY <1>2, <1>6 DEF passItemPlus
  <2>2. Liste(uebersicht') = MitMenge(uebersicht, q, r, m + 1)
    <3> HIDE DEF m
    <3> QED BY <1>1, <1>4, <2>1, ListeMengeSetzen
  <2> HIDE DEF q, m
  <2>3. Ist' = [Ist EXCEPT ![q][r].ItemsMengen = @ + 1]
    BY <1>2, <1>3, <2>2 DEF MitMenge
  <2> QED BY <1>2, <1>3, <2>3, MehrGilt
<1>7. CASE passItemMinus(k, u, r)
  <2>1. mengeSetzen(k, u, r, m - 1) /\ m - 1 \in Nat \ {0} /\ m > 1
    BY <1>2, <1>7 DEF passItemMinus
  <2>2. Liste(uebersicht') = MitMenge(uebersicht, q, r, m - 1)
    <3> HIDE DEF m
    <3> QED BY <1>1, <1>4, <2>1, ListeMengeSetzen
  <2> HIDE DEF q, m
  <2>3. Ist' = [Ist EXCEPT ![q][r].ItemsMengen = @ - 1]
    BY <1>2, <1>3, <2>2 DEF MitMenge
  <2> QED BY <1>2, <1>3, <2>1, <2>3, WenigerGilt
<1>8. CASE kommentarBeginnen(k, u, r)
  <2>1. uebersicht' = uebersicht
    BY <1>8 DEF kommentarBeginnen
  <2> QED BY <1>2, <1>3, <2>1 DEF Stumm
<1> QED BY <1>5, <1>6, <1>7, <1>8 DEF ZeileGeaendert

LEMMA UebersichtSchritt ==
  ASSUME LInv, Uebersicht
  PROVE  Liste_!Next \/ Stumm
<1>1. ASSUME NEW text \in Kommentare, passKommentarAendern(text) PROVE Liste_!Next \/ Stumm
  <2>1. CASE Absturz
    BY <2>1, NeuBeginnenGilt DEF Absturz
  <2>2. CASE ~Absturz
    <3> DEFINE k == bearbeitet.k  u == bearbeitet.u  r == bearbeitet.r
    <3>1. /\ InKommentaren(k, u, r)
          /\ uebersicht' = [uebersicht EXCEPT !.felder["ItemsKommentar"][k][u][r] = text]
          /\ ansicht = "uebersicht" /\ uebersichtOffen' = uebersichtOffen /\ gesendet' = gesendet
      BY <1>1, <2>2 DEF passKommentarAendern
    <3> HIDE DEF k, u, r
    <3>2. Liste(uebersicht') = Liste(uebersicht)
      BY <3>1, ListeKommentar DEF LInv
    <3>3. uebersichtOffen
      BY <3>1 DEF LInv, OrtInv
    <3> QED BY <3>1, <3>2, <3>3, IstOffen, IstDannOffen, VersandtGleich DEF Stumm
  <2> QED BY <2>1, <2>2
<1> QED BY <1>1, ZeileGeaendertSchritt DEF Uebersicht

\* Handing the order over changes nothing; what is sent is the list as it stands.
LEMMA PruefenSchritt ==
  ASSUME LInv, bestellungPruefen
  PROVE  Stumm
<1>1. ansicht = "menue" /\ uebersichtOffen' /\ uebersicht' = bestellung /\ gesendet' = gesendet
  BY DEF bestellungPruefen
<1>2. ~uebersichtOffen
  BY <1>1 DEF LInv, OrtInv
<1> QED BY <1>1, <1>2, IstOffen, IstDannOffen, VersandtGleich DEF Stumm

LEMMA SchliessenSchritt ==
  ASSUME uebersichtOffen, uebersichtSchliessen
  PROVE  Stumm
<1>1. ~uebersichtOffen' /\ bestellung' = uebersicht /\ gesendet' = gesendet
  BY DEF uebersichtSchliessen
<1> QED BY <1>1, IstOffen, IstDannOffen, VersandtGleich DEF Stumm

LEMMA AlertAbschickenSchritt ==
  ASSUME LInv, alertAbschicken
  PROVE  Liste_!Next
<1>1. /\ ansicht = "alert" /\ gesendet' = Append(gesendet, dictionary)
      /\ UNCHANGED <<menueVars, uebersichtVars>>
  BY DEF alertAbschicken
<1>2. Ist' = Ist
  BY <1>1 DEF Ist, menueVars, uebersichtVars
<1>3. Gueltig(uebersicht) /\ Spiegel(dictionary, uebersicht, KategorieNamen, UnterkategorieNamen, IWerte)
  BY DEF LInv, IInv, UebersichtInv
<1>4. Liste(AlsArrays(dictionary)) = Liste(uebersicht)
  BY <1>3, ListeAlsArrays
<1>5. Liste(AlsArrays(dictionary)) = Ist
  <2>1. CASE uebersichtOffen
    BY <1>4, <2>1, IstOffen
  <2>2. CASE ~uebersichtOffen
    <3>1. bestellung.Kategorien = <<>> /\ dictionary = <<>>
      BY <1>1, <2>2 DEF LInv, OrtInv, VersandInv
    <3>2. uebersicht.Kategorien = <<>>
      BY <3>1, OhneSections DEF LInv
    <3> QED BY <1>4, <2>2, <3>1, <3>2, ListeLeer, IstOffen
  <2> QED BY <2>1, <2>2
<1>6. Versandt' = Append(Versandt, Ist)
  <2>1. gesendet \in Seq(ToSet(gesendet))
    BY DEF LInv, IInv, GesendetInv
  <2> DEFINE T == ToSet(gesendet) \cup {dictionary}  l == Len(gesendet)
  <2>2. gesendet \in Seq(T) /\ dictionary \in T
    BY <2>1
  <2> HIDE DEF T
  <2>3. /\ DOMAIN gesendet = 1..l /\ DOMAIN gesendet' = 1..(l + 1) /\ l \in Nat
        /\ \A n \in 1..l : gesendet'[n] = gesendet[n]
        /\ gesendet'[l + 1] = dictionary
    BY <1>1, <2>2, AppendFolge
  <2> HIDE DEF l
  <2>4. Versandt = [n \in 1..l |-> Liste(AlsArrays(gesendet[n]))]
    BY <2>3 DEF Versandt
  <2>5. Versandt' = [n \in 1..(l + 1) |-> Liste(AlsArrays(gesendet'[n]))]
    BY <2>3 DEF Versandt
  <2>6. Len(Versandt) = l
    BY <2>3, <2>4
  <2>7. \A n \in 1..(l + 1) : n # l + 1 => n \in 1..l
    BY <2>3
  <2> QED BY <1>5, <2>3, <2>4, <2>5, <2>6, <2>7
<1> QED BY <1>2, <1>6, AbsendenGilt

LEMMA NavigationSchritt ==
  ASSUME LInv, Navigation
  PROVE  Liste_!Next \/ Stumm
<1>1. CASE bestellungPruefen
  BY <1>1, PruefenSchritt
<1>2. CASE menueVerlassen \/ abgeschicktVerlassen \/ appStarten
  BY <1>2, NeuBeginnenGilt DEF menueVerlassen, abgeschicktVerlassen, appStarten
<1>3. CASE zurueck
  BY <1>3, SchliessenSchritt DEF zurueck, LInv, OrtInv
<1>4. CASE abschicken \/ alertAbbrechen
  BY <1>4 DEF abschicken, alertAbbrechen, menueVars, uebersichtVars, Stumm, Ist, Versandt
<1>5. CASE alertAbschicken
  BY <1>5, AlertAbschickenSchritt
<1>6. CASE popNachLeer
  <2>1. CASE abgeschicktVerlassen
    BY <1>2, <2>1
  <2>2. CASE ~abgeschicktVerlassen
    BY <1>6, <2>2, SchliessenSchritt DEF popNachLeer, LInv, OrtInv
  <2> QED BY <2>1, <2>2
<1> QED BY <1>1, <1>2, <1>3, <1>4, <1>5, <1>6 DEF Navigation

LEMMA ListeSchritt == LInv /\ [Next]_vars => [Liste_!Next]_(Liste_!vars)
<1> SUFFICES ASSUME LInv, [Next]_vars PROVE Liste_!Next \/ Stumm
  BY DEF Liste_!vars, Stumm, Ist, Versandt
<1>1. CASE UNCHANGED vars
  BY <1>1 DEF vars, menueVars, uebersichtVars, Stumm, Ist, Versandt
<1> QED BY <1>1, PopupSchritt, UebersichtSchritt, NavigationSchritt DEF Next

LEMMA ListeInit == Init => LInv /\ Liste_!Init
<1> SUFFICES ASSUME Init PROVE LInv /\ Liste_!Init
  OBVIOUS
<1>1. IInv /\ VersandInv
  BY InitInv, VersandInit
<1>2. RubrikInv /\ PaareInv
  BY GutLeer, GepaartLeer, AuswahlLeer DEF Init, RubrikInv, PaareInv, LeererEntwurf
<1>3. OrtInv
  BY DEF Init, OrtInv
<1>4. Ist = Liste_!LeereListe /\ Versandt = <<>>
  <2>1. ~uebersichtOffen /\ bestellung.Kategorien = <<>> /\ gesendet = <<>>
    BY DEF Init, LeereBestellung
  <2>2. Versandt = <<>>
    BY <2>1 DEF Versandt
  <2> QED BY <2>1, <2>2, IstOffen, ListeLeer
<1>5. Liste_!Init
  BY <1>4 DEF Liste_!Init, Ist, Versandt
<1> QED BY <1>1, <1>2, <1>3, <1>5 DEF LInv

\* No line is lost, duplicated, moved or changed on its way through the popup, the
\* ten arrays, the dictionary and back, for every menu and all extras: the two view
\* controllers implement Bestellliste.
THEOREM VerfeinertBestellliste == Spec => ImplementiertBestellliste
<1>1. LInv /\ [Next]_vars => LInv'
  BY NextInv, NextRubrik, NextPaare, VersandNext, NextOrt DEF LInv
<1> QED BY <1>1, ListeInit, ListeSchritt, PTL DEF Spec, ImplementiertBestellliste, Liste_!Spec
====
