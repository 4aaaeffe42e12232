SPECIFICATION MarketSpec
CONSTANTS
 Parts={"fares","offers","demo","rides","edits"}
 h1=h1
 h2=h2
 pa=pa
 pb=pb
 Handlers={h1,h2}
 Places={pa,pb}
 Distances<-DistancesMC
 Prices<-PricesMC
 Helpers={TRUE}
 Claims={3}
 NoBooking=NoBooking
 NoPlace=NoPlace
 NoQuote=NoQuote
 MaxChanges=1
 c1=c1
 c2=c2
 r1=r1
 o1=o1
 o2=o2
 Callers={c1,c2}
 Riders={r1}
 Offers={o1,o2}
 NoOffer=NoOffer
 MaxOffers=4
 MaxReleases=1
 MaxKm=9
 TollAmounts={5}
 NoRow=NoRow
 TollsEnabled=TRUE
 StepStartKm=3
 DefaultRadius=3
 HelperCharge=4
 NoZone=NoZone
 NoBound=NoBound
 NoSlab=NoSlab
 v1=v1
 v2=v2
 n1=n1
 n2=n2
 g1=g1
 DemoDrivers={v1,v2}
 Sockets={n1,n2}
 Rides={g1}
 NoSocket=NoSocket
 NoRider=NoRider
 MaxRegistrations=3
 t1=t1
 t2=t2
 k1=k1
 Promos={c1,c2}
 Trips={t1,t2}
 Bills<-BillsMC
 Vehicles={k1}
 NoVehicle=NoVehicle
 VehicleOf<-VehicleOfMC
 Settlers={h1,h2}
 Admins={o1,o2}
 Drafts<-DraftsMC
 Edits<-EditsMC
 NoPromo=NoPromo
 MaxEdits=2
INVARIANTS QuoteTypeOK PromotionsAddUp OneTrackedOffer BreakdownExplainsFare LosersAreTold
PROPERTIES AckSilencesFallback EveryKmBilledOnce LongerNeverCheaper OverrideOutlivesLaterQuotes
CHECK_DEADLOCK FALSE
SYMMETRY Alike
