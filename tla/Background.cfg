SPECIFICATION Spec
CHECK_DEADLOCK FALSE
PROPERTIES
   KeepaliveRecovers LoginPromise CreditsPromise
