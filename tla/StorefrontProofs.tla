-------------------------- MODULE StorefrontProofs --------------------------
(***************************************************************************)
(* The components around the orders put together: the whole runs each of   *)
(* them, so what is proved of one holds of the whole, for any constants.   *)
(***************************************************************************)
EXTENDS MCStorefront, AdminProofs, ShopperProofs

\* A step of the whole is one of every component, or leaves it alone.
LEMMA PartsStep ==
  ASSUME [StorefrontNext]_storefrontVars
  PROVE  /\ [CartsNext]_cartsVars
         /\ [AlertsNext]_alertsVars
         /\ [GrantsNext]_grantsVars
         /\ [ImagesNext]_imagesVars
         /\ [TreeNext]_treeVars
         /\ [BookNext]_bookVars
         /\ [ListNext]_listVars
         /\ [CouponNext]_couponVars
         /\ [WishesNext]_wishesVars
         /\ [RateNext]_rateVars
         /\ [TotalsNext]_totalsVars
<1>1. CASE CartsRun
  BY <1>1 DEF CartsRun
<1>2. CASE AlertsRun
  BY <1>2 DEF AlertsRun
<1>3. CASE GrantsRun
  BY <1>3 DEF GrantsRun
<1>4. CASE ImagesRun
  BY <1>4 DEF ImagesRun
<1>5. CASE TreeRun
  BY <1>5 DEF TreeRun
<1>6. CASE BookRun
  BY <1>6 DEF BookRun
<1>7. CASE ListRun
  BY <1>7 DEF ListRun
<1>8. CASE CouponRun
  BY <1>8 DEF CouponRun
<1>9. CASE WishesRun
  BY <1>9 DEF WishesRun
<1>10. CASE RateRun
  BY <1>10 DEF RateRun
<1>11. CASE TotalsRun
  BY <1>11 DEF TotalsRun
<1>12. CASE UNCHANGED storefrontVars
  BY <1>12 DEF storefrontVars
<1> QED
  BY <1>1, <1>2, <1>3, <1>4, <1>5, <1>6, <1>7, <1>8, <1>9, <1>10, <1>11, <1>12 DEF StorefrontNext

\* The whole implements every component, each from its first states: what a
\* component promises, it promises here.
THEOREM PartsRun ==
  StorefrontSpec =>
    /\ CartsSpec
    /\ AlertsSpec
    /\ GrantsSpec
    /\ ImagesSpec
    /\ TreeSpec
    /\ BookSpec
    /\ ListSpec
    /\ CouponSpec
    /\ WishesSpec
    /\ RateSpec
    /\ TotalsSpec
<1>1. StorefrontInit =>
        /\ CartsInit
        /\ AlertsInit
        /\ GrantsInit
        /\ ImagesInit
        /\ TreeInit
        /\ BookInit
        /\ ListInit
        /\ CouponInit
        /\ WishesInit
        /\ RateInit
        /\ TotalsInit
  BY DEF StorefrontInit
<1>2. [StorefrontNext]_storefrontVars =>
        /\ [CartsNext]_cartsVars
        /\ [AlertsNext]_alertsVars
        /\ [GrantsNext]_grantsVars
        /\ [ImagesNext]_imagesVars
        /\ [TreeNext]_treeVars
        /\ [BookNext]_bookVars
        /\ [ListNext]_listVars
        /\ [CouponNext]_couponVars
        /\ [WishesNext]_wishesVars
        /\ [RateNext]_rateVars
        /\ [TotalsNext]_totalsVars
  BY PartsStep
<1> QED
  BY <1>1, <1>2, PTL DEF StorefrontSpec, CartsSpec, AlertsSpec, GrantsSpec, ImagesSpec, TreeSpec, BookSpec, ListSpec, CouponSpec, WishesSpec, RateSpec, TotalsSpec

\* Every component has its types, whatever the others do.
THEOREM StorefrontTypeCorrect == StorefrontSpec => []StorefrontTypeOK
<1>1. /\ CartsTypeOK /\ AlertsTypeOK /\ GrantsTypeOK /\ ImagesTypeOK /\ ListTypeOK
      /\ TreeTypeOK /\ BookTypeOK /\ CouponTypeOK /\ WishesTypeOK /\ RateTypeOK /\ TotalsTypeOK
      => StorefrontTypeOK
  BY DEF StorefrontTypeOK
<1> QED
  BY <1>1, PartsRun, CartsTypeCorrect, AlertsTypeCorrect, GrantsTypeCorrect, ImagesTypeCorrect, ListTypeCorrect,
     TreeTypeCorrect, BookTypeCorrect, CouponTypeCorrect, WishesTypeCorrect, RateTypeCorrect, TotalsTypeCorrect, PTL

\* Every safety property of a component holds of the whole.
THEOREM StorefrontCorrect ==
  StorefrontSpec =>
    /\ []LinesWereAsked
    /\ []MailedOncePerMarker /\ []SettledMarkers
    /\ []AdminRemains /\ []InvitationsSpentOnce
    /\ []ImagesHaveFiles /\ []LeftoversExplained
    /\ []HierarchyKept
    /\ []OneDefault
    /\ []ListIsHonest
    /\ []DiscountFitsCart
    /\ []WishesKept
    /\ []RateKept
    /\ []ShownNearCharged
<1> QED
  BY PartsRun, LinesWereAskedCorrect, MailedOnceCorrect, SettledCorrect, AdminRemainsCorrect, InvitationsCorrect,
     ImagesHaveFilesCorrect, LeftoversCorrect, HierarchyCorrect, OneDefaultCorrect, ListIsHonestCorrect,
     DiscountFitsCorrect, WishesKeptCorrect, RateKeptCorrect, ShownNearChargedCorrect, PTL
=============================================================================
