SPECIFICATION FairSpec
INVARIANT TypeOK
PROPERTIES BeginsAlone EachRunTrails
